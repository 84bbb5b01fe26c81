-------------------------- MODULE AccountPoolProofs -------------------------
(***************************************************************************)
(* Proofs about the account pool, for any set of tokens and any bounds.    *)
(* Safe is the inductive invariant: the types, the uniqueness of tokens,   *)
(* the agreement of the "disabled" columns and the order of last_used_at.  *)
(***************************************************************************)
EXTENDS AccountPool, TLAPS

(* What the operators on the accounts table return.                        *)

\* What normalizeAccount (pool.go:518-534) returns is a row whose two columns
\* that say "disabled" agree.
LEMMA NormalizedIsRow ==
    ASSUME NEW t \in Tokens, NEW s \in StatusInputs,
           NEW d \in BOOLEAN, NEW v \in BOOLEAN
    PROVE  /\ Normalized(t, s, d, v) \in AccountRow
           /\ Normalized(t, s, d, v).token = t
           /\ Normalized(t, s, d, v).disabled
                <=> Normalized(t, s, d, v).status = "disabled"
           /\ Normalized(t, s, d, v).invalid => Normalized(t, s, d, v).disabled
  BY DEF Normalized, AccountRow, Statuses, StatusInputs

\* MarkInvalid (pool.go:422-438) writes rows and leaves every token alone.
LEMMA InvalidatedIsTable ==
    ASSUME NEW table, table \in [DOMAIN table -> AccountRow], NEW t
    PROVE  /\ DOMAIN Invalidated(table, t) = DOMAIN table
           /\ Invalidated(table, t) \in [DOMAIN table -> AccountRow]
           /\ \A i \in DOMAIN table :
                /\ Invalidated(table, t)[i].token = table[i].token
                /\ \/ Invalidated(table, t)[i] = table[i]
                   \/ /\ table[i].token = t
                      /\ Invalidated(table, t)[i].disabled
                      /\ Invalidated(table, t)[i].status = "disabled"
  BY DEF Invalidated, AccountRow, Statuses, StatusInputs

-----------------------------------------------------------------------------

Safe == TypeOK /\ TokensUnique /\ DisabledConsistent /\ LastUsedOrdered

\* Inserting a row whose token no other row holds keeps the pool safe
\* (pool.go:173-191, 301-310).
LEMMA InsertSafe ==
    ASSUME Safe, NEW t \in Tokens, NEW s \in StatusInputs,
           NEW d \in BOOLEAN, NEW v \in BOOLEAN,
           ~TokenTaken(accounts, t, 0),
           Insert(Normalized(t, s, d, v))
    PROVE  Safe'
  <1> DEFINE row == Normalized(t, s, d, v)
  <1>1. /\ row \in AccountRow
        /\ row.token = t
        /\ row.disabled <=> row.status = "disabled"
        /\ row.invalid => row.disabled
    BY NormalizedIsRow
  <1> HIDE DEF row
  <1>2. /\ nextId \in 1..MaxAccounts
        /\ accounts' = Inserted(accounts, nextId, row)
        /\ lastUsed' = Inserted(lastUsed, nextId, 0)
        /\ usedSince' = Inserted(usedSince, nextId, {})
        /\ nextId' = nextId + 1
        /\ clock' = clock
    BY DEF Insert, AccountIds, row
  <1>3. TypeOK'
    BY <1>1, <1>2, PoolBounds DEF Safe, TypeOK, Inserted, AccountIds
  <1>4. TokensUnique'
    <2>1. \A i \in DOMAIN accounts : i # 0 /\ accounts[i].token # t
      BY DEF Safe, TypeOK, TokenTaken, Holders
    <2> QED
      BY <1>1, <1>2, <2>1 DEF Safe, TypeOK, TokensUnique, Inserted
  <1>5. DisabledConsistent'
    BY <1>1, <1>2 DEF Safe, TypeOK, DisabledConsistent, Inserted
  <1>6. LastUsedOrdered'
    <2>1. nextId \notin DOMAIN accounts
      BY DEF Safe, TypeOK
    <2> QED
      BY <1>2, <2>1, PoolBounds
      DEF Safe, TypeOK, LastUsedOrdered, WaitedLonger, Inserted, AccountIds
  <1> QED
    BY <1>3, <1>4, <1>5, <1>6 DEF Safe

\* Overwriting one row with a normalized row whose token no other row holds
\* keeps the pool safe (pool.go:212-244, 312-323).
LEMMA OverwriteSafe ==
    ASSUME Safe, NEW id \in DOMAIN accounts,
           NEW t \in Tokens, NEW s \in StatusInputs,
           NEW d \in BOOLEAN, NEW v \in BOOLEAN,
           \A j \in DOMAIN accounts : accounts[j].token = t => j = id,
           accounts' = [accounts EXCEPT ![id] = Normalized(t, s, d, v)],
           UNCHANGED <<nextId, lastUsed, clock, usedSince>>
    PROVE  Safe'
  <1> DEFINE row == Normalized(t, s, d, v)
  <1>1. /\ row \in AccountRow
        /\ row.token = t
        /\ row.disabled <=> row.status = "disabled"
        /\ row.invalid => row.disabled
    BY NormalizedIsRow
  <1>2. accounts' = [accounts EXCEPT ![id] = row]
    OBVIOUS
  <1> HIDE DEF row
  <1>3. TypeOK'
    BY <1>1, <1>2 DEF Safe, TypeOK
  <1>4. TokensUnique'
    BY <1>1, <1>2 DEF Safe, TypeOK, TokensUnique
  <1>5. DisabledConsistent'
    BY <1>1, <1>2 DEF Safe, TypeOK, DisabledConsistent
  <1>6. LastUsedOrdered'
    BY <1>2 DEF Safe, TypeOK, LastUsedOrdered, WaitedLonger
  <1> QED
    BY <1>3, <1>4, <1>5, <1>6 DEF Safe

\* Stamping the picked account with the current second keeps last_used_at in
\* the order of use (pool.go:352-357, 408-411).
LEMMA TouchSafe ==
    ASSUME Safe, NEW id \in DOMAIN accounts, Touch(id)
    PROVE  Safe'
  <1>1. id \in AccountIds
    BY PoolBounds DEF Safe, TypeOK, AccountIds
  <1>2. TypeOK'
    BY <1>1, PoolBounds DEF Safe, TypeOK, Touch
  <1>3. TokensUnique' /\ DisabledConsistent'
    BY DEF Safe, TypeOK, TokensUnique, DisabledConsistent, Touch
  <1>4. LastUsedOrdered'
    BY PoolBounds DEF Safe, TypeOK, Touch, LastUsedOrdered, WaitedLonger
  <1> QED
    BY <1>2, <1>3, <1>4 DEF Safe

\* The empty pool of a fresh database is safe.
LEMMA InitSafe == Init => Safe
  BY PoolBounds DEF Init, Safe, TypeOK, TokensUnique, DisabledConsistent, LastUsedOrdered

\* Every method of the pool keeps it safe.
LEMMA StepSafe == Safe /\ [Next]_vars => Safe'
  <1> SUFFICES ASSUME Safe, [Next]_vars PROVE Safe'
    OBVIOUS
  <1>1. ASSUME NEW t \in Tokens, NEW s \in StatusInputs, NEW d \in BOOLEAN,
               Create(t, s, d)
        PROVE  Safe'
    BY <1>1, InsertSafe DEF Create
  <1>2. ASSUME NEW t \in Tokens, NEW s \in StatusInputs, NEW d \in BOOLEAN,
               NEW v \in BOOLEAN, Upsert(t, s, d, v)
        PROVE  Safe'
    <2>1. CASE /\ Holders(accounts, t) = {}
               /\ Insert(Normalized(t, s, d, v))
      BY <2>1, InsertSafe DEF TokenTaken
    <2>2. ASSUME NEW id \in Holders(accounts, t),
                 accounts' = [accounts EXCEPT ![id] = Normalized(t, s, d, v)],
                 UNCHANGED <<nextId, lastUsed, clock, usedSince>>
          PROVE  Safe'
      <3>1. \A j \in DOMAIN accounts : accounts[j].token = t => j = id
        BY DEF Safe, TokensUnique, Holders
      <3> QED
        BY <2>2, <3>1, OverwriteSafe DEF Holders
    <2> QED
      BY <1>2, <2>1, <2>2 DEF Upsert
  <1>3. ASSUME NEW id \in AccountIds, NEW t \in Tokens \cup {"keep"},
               NEW s \in StatusInputs, NEW d \in BOOLEAN, Update(id, t, s, d)
        PROVE  Safe'
    <2> DEFINE new == IF t = "keep" THEN accounts[id].token ELSE t
    <2>1. id \in DOMAIN accounts /\ ~TokenTaken(accounts, new, id)
      BY <1>3 DEF Update
    <2>2. new \in Tokens /\ accounts[id].invalid \in BOOLEAN
      BY <2>1 DEF Safe, TypeOK, AccountRow
    <2>3. \A j \in DOMAIN accounts : accounts[j].token = new => j = id
      BY <2>1 DEF TokenTaken, Holders
    <2>4. /\ accounts' = [accounts EXCEPT ![id] =
                            Normalized(new, s, d, accounts[id].invalid)]
          /\ UNCHANGED <<nextId, lastUsed, clock, usedSince>>
      BY <1>3 DEF Update
    <2> HIDE DEF new
    <2> QED
      BY <2>1, <2>2, <2>3, <2>4, OverwriteSafe
  <1>4. ASSUME NEW id \in AccountIds, Delete(id)
        PROVE  Safe'
    <2>1. TypeOK'
      BY <1>4 DEF Safe, TypeOK, Delete, Without
    <2>2. TokensUnique' /\ DisabledConsistent'
      BY <1>4 DEF Safe, TypeOK, TokensUnique, DisabledConsistent, Delete, Without
    <2>3. LastUsedOrdered'
      BY <1>4 DEF Safe, TypeOK, LastUsedOrdered, WaitedLonger, Delete, Without
    <2> QED
      BY <2>1, <2>2, <2>3 DEF Safe
  <1>5. ASSUME NEW id \in AccountIds, NEW x \in SUBSET Tokens,
               \/ PickByID(id, x)
               \/ \E t \in Tokens : PickPreferred(id, t, x)
               \/ PickLeastRecent(id, x)
        PROVE  Safe'
    <2>1. id \in DOMAIN accounts /\ Touch(id)
      BY <1>5 DEF PickByID, PickPreferred, PickLeastRecent,
                  PickableById, PickableByToken, Pickable
    <2> QED
      BY <2>1, TouchSafe
  <1>6. ASSUME NEW t \in Tokens, MarkInvalid(t)
        PROVE  Safe'
    <2>1. /\ DOMAIN accounts' = DOMAIN accounts
          /\ accounts' \in [DOMAIN accounts -> AccountRow]
          /\ \A i \in DOMAIN accounts :
                /\ accounts'[i].token = accounts[i].token
                /\ \/ accounts'[i] = accounts[i]
                   \/ accounts'[i].disabled /\ accounts'[i].status = "disabled"
      BY <1>6, InvalidatedIsTable DEF Safe, TypeOK, MarkInvalid
    <2>2. TypeOK'
      BY <1>6, <2>1 DEF Safe, TypeOK, MarkInvalid
    <2>3. TokensUnique' /\ DisabledConsistent'
      BY <2>1 DEF Safe, TokensUnique, DisabledConsistent
    <2>4. LastUsedOrdered'
      BY <1>6, <2>1 DEF Safe, LastUsedOrdered, WaitedLonger, MarkInvalid
    <2> QED
      BY <2>2, <2>3, <2>4 DEF Safe
  <1>7. CASE Tick
    <2>1. TypeOK'
      BY <1>7, PoolBounds DEF Safe, TypeOK, Tick
    <2>2. TokensUnique' /\ DisabledConsistent' /\ LastUsedOrdered'
      BY <1>7 DEF Safe, TokensUnique, DisabledConsistent, LastUsedOrdered,
                  WaitedLonger, Tick
    <2> QED
      BY <2>1, <2>2 DEF Safe
  <1>8. CASE UNCHANGED vars
    BY <1>8 DEF vars, Safe, TypeOK, TokensUnique, DisabledConsistent,
                LastUsedOrdered, WaitedLonger
  <1> QED
    BY <1>1, <1>2, <1>3, <1>4, <1>5, <1>6, <1>7, <1>8 DEF Next

\* In every reachable state the pool is safe.
THEOREM PoolSafe == Spec => []Safe
  BY InitSafe, StepSafe, PTL DEF Spec

\* The three tables keep their types and describe the same accounts.
THEOREM PoolTypeOK == Spec => []TypeOK
  BY PoolSafe, PTL DEF Safe

\* No interleaving of edits, imports and 401s leaves two accounts with one
\* token.
THEOREM TokensStayUnique == Spec => []TokensUnique
  BY PoolSafe, PTL DEF Safe

\* Nor does any leave an account whose "disabled" columns disagree.
THEOREM DisabledStaysConsistent == Spec => []DisabledConsistent
  BY PoolSafe, PTL DEF Safe

\* last_used_at never contradicts the order in which accounts were used.
THEOREM UsesStayOrdered == Spec => []LastUsedOrdered
  BY PoolSafe, PTL DEF Safe

\* The LRU rotation overtakes an account only within one second.  The order of
\* last_used_at (LastUsedOrdered) bounds j's time from above, the ORDER BY of
\* the pick bounds it from below.
THEOREM RotationHolds == Spec => RotationUpToOneSecond
  <1>1. ASSUME Safe, NEW x \in SUBSET Tokens, NEW i \in DOMAIN accounts
        PROVE  RotationStep(i, x)
    <2> SUFFICES ASSUME PickLeastRecent(i, x),
                        NEW j \in Pickable(accounts, x),
                        WaitedLonger(j, i)
                 PROVE  lastUsed[j] = lastUsed[i]
      BY DEF RotationStep
    <2>1. j \in DOMAIN accounts /\ j # i
      BY DEF Pickable, WaitedLonger
    <2>2. lastUsed[j] <= lastUsed[i]
      BY <1>1, <2>1 DEF Safe, LastUsedOrdered
    <2>3. lastUsed[i] <= lastUsed[j]
      BY <1>1, <2>1 DEF PickLeastRecent, Before, Safe, TypeOK
    <2> QED
      BY <1>1, <2>1, <2>2, <2>3, PoolBounds DEF Safe, TypeOK
  <1>2. Safe => [\A x \in SUBSET Tokens, i \in DOMAIN accounts :
                    RotationStep(i, x)]_vars
    BY <1>1
  <1> QED
    BY <1>2, PoolSafe, PTL DEF RotationUpToOneSecond
=============================================================================
