-------------------------- MODULE LoginLimiterProofs -------------------------
(***************************************************************************)
(* Proofs about the counters of the login page, for any number of          *)
(* addresses and of parallel logins and for any limits.                    *)
(*                                                                         *)
(* Safe is the inductive invariant.  Its three parts beside the types each *)
(* say more than the property that follows from it: FewPast counts the     *)
(* logins that are still past a lock, Earned ties every counter, locked or *)
(* not, to the failures that were counted, and Guesses splits the failures *)
(* without a lock at the start of the counter's window.                    *)
(***************************************************************************)
EXTENDS LoginLimiter, FiniteSetTheorems, TLAPS

\* Logins of one address that are past the lock.
Past(a) == {r \in DOMAIN reqs : reqs[r] = a}

FewPast ==
    \A a \in Addresses :
        Locked(a) => late[a] + Cardinality(Past(a)) < Cardinality(Requests)

EarnedBy(item, times, t) ==
    /\ item.failures >= 1
    /\ item.firstAt <= item.lastAt /\ item.lastAt <= t
    /\ item.lastAt <= item.firstAt + Window
    /\ item.failures <= Cardinality(Within(times, item.firstAt))
    /\ t < item.lockedUntil =>
        /\ item.failures >= MaxFailures
        /\ item.lockedUntil = item.lastAt + Lockout

Earned == \A a \in DOMAIN attempts : EarnedBy(attempts[a], counted[a], now)

\* The failures in the Window before a moment.
Before(times, from) ==
    {i \in DOMAIN times : times[i] < from /\ times[i] + Window >= from}

GuessedBy(item, times) ==
    /\ item.failures >= MaxFailures => times = << >>
    /\ \A i \in DOMAIN times : times[i] <= item.lastAt
    /\ Cardinality(Within(times, item.firstAt)) <= item.failures
    /\ Cardinality(Before(times, item.firstAt)) <= MaxFailures - 1

Guesses ==
    \A a \in Addresses :
        IF a \in DOMAIN attempts THEN GuessedBy(attempts[a], free[a])
        ELSE \A i \in DOMAIN free[a] : free[a][i] + Window < now

Safe == TypeOK /\ FewPast /\ Earned /\ Guesses

-----------------------------------------------------------------------------
(* Lemmas about the operators.                                             *)

\* A sweep (cleanupAttemptsLocked, auth.go:400-420) keeps counters as they are,
\* among them every one that is locked.
LEMMA CleanedKeeps ==
    /\ DOMAIN Cleaned = {a \in DOMAIN attempts : Kept(attempts[a])}
    /\ \A a \in DOMAIN Cleaned : Cleaned[a] = attempts[a]
    /\ \A a : Locked(a) => a \in DOMAIN Cleaned
  BY DEF Cleaned, Kept, Locked

\* What recordFailure (auth.go:374-392) makes of a counter that is not there, or
\* that is not locked: the two ways a window can go on.
LEMMA CountedIs ==
    ASSUME TypeOK, NEW a, ~Locked(a)
    PROVE  LET n == IF /\ a \in DOMAIN Cleaned
                       /\ attempts[a].failures # 0
                       /\ now - attempts[a].firstAt <= Window
                    THEN attempts[a].failures + 1 ELSE 1
           IN  /\ Counted(a) \in Attempt
               /\ Counted(a).failures = n
               /\ Counted(a).lastAt = now
               /\ Counted(a).firstAt = IF n = 1 THEN now ELSE attempts[a].firstAt
               /\ n >= MaxFailures => Counted(a).lockedUntil = now + Lockout
               /\ n < MaxFailures => Counted(a).lockedUntil <= now
  <1>1. /\ MaxFailures \in Nat \ {0} /\ Window \in Nat \ {0}
        /\ Lockout \in Nat \ {0} /\ now \in Nat
    BY LimitsAssumption DEF TypeOK
  <1>2. CASE a \in DOMAIN Cleaned
    <2>1. /\ a \in DOMAIN attempts /\ Cleaned[a] = attempts[a]
          /\ attempts[a] \in Attempt
          /\ attempts[a].lockedUntil <= now
      <3>1. a \in DOMAIN attempts /\ Cleaned[a] = attempts[a]
        BY <1>2, CleanedKeeps
      <3> QED
        BY <1>1, <3>1 DEF TypeOK, Attempt, Locked
    <2> QED
      BY <1>1, <1>2, <2>1 DEF Counted, Attempt
  <1>3. CASE a \notin DOMAIN Cleaned
    BY <1>1, <1>3 DEF Counted, Attempt
  <1> QED
    BY <1>2, <1>3

\* The places of a sequence of times are finitely many, and so are those the
\* properties count.
LEMMA PlacesFinite ==
    ASSUME NEW times \in Seq(Nat), NEW from \in Nat
    PROVE  /\ IsFiniteSet(DOMAIN times)
           /\ IsFiniteSet(Within(times, from))
           /\ IsFiniteSet(Before(times, from))
           /\ Cardinality(Within(times, from)) \in Nat
           /\ Cardinality(Before(times, from)) \in Nat
  <1>1. IsFiniteSet(DOMAIN times)
    <2>1. DOMAIN times = 1 .. Len(times) /\ Len(times) \in Nat
      OBVIOUS
    <2> QED
      BY <2>1, FS_Interval
  <1>2. Within(times, from) \subseteq DOMAIN times
        /\ Before(times, from) \subseteq DOMAIN times
    BY DEF Within, Before
  <1> QED
    BY <1>1, <1>2, FS_Subset, FS_CardinalityType

\* One more failure is counted where its time belongs.
LEMMA AppendCounts ==
    ASSUME NEW times \in Seq(Nat), NEW t \in Nat, NEW from \in Nat, from <= t
    PROVE  /\ Cardinality(Within(Append(times, t), from))
                = Cardinality(Within(times, from)) + 1
           /\ Before(Append(times, t), from) = Before(times, from)
  <1>1. /\ Len(times) \in Nat /\ DOMAIN times = 1 .. Len(times)
        /\ DOMAIN Append(times, t) = 1 .. Len(times) + 1
        /\ \A i \in DOMAIN times : Append(times, t)[i] = times[i]
        /\ Append(times, t)[Len(times) + 1] = t
        /\ \A i \in DOMAIN times : times[i] \in Nat
    OBVIOUS
  <1> DEFINE more == Append(times, t)
  <1> HIDE DEF more
  <1>2. DOMAIN more = DOMAIN times \cup {Len(times) + 1}
    BY <1>1 DEF more
  <1>3. Len(times) + 1 \notin DOMAIN times
    BY <1>1
  <1>4. /\ \A i \in DOMAIN times : more[i] = times[i]
        /\ more[Len(times) + 1] = t
    BY <1>1 DEF more
  <1>5. Within(more, from) = Within(times, from) \cup {Len(times) + 1}
    BY <1>2, <1>3, <1>4 DEF Within
  <1>6. Len(times) + 1 \notin Within(times, from)
    BY <1>3 DEF Within
  <1>7. Cardinality(Within(more, from)) = Cardinality(Within(times, from)) + 1
    BY <1>5, <1>6, PlacesFinite, FS_AddElement
  <1>8. Before(more, from) = Before(times, from)
    BY <1>2, <1>3, <1>4 DEF Before
  <1> QED
    BY <1>7, <1>8 DEF more

\* Fewer logins are past the lock when one of them has ended.
LEMMA PastFinite ==
    ASSUME TypeOK, NEW a
    PROVE  /\ IsFiniteSet(Past(a))
           /\ Cardinality(Past(a)) \in Nat
           /\ Cardinality(Past(a)) <= Cardinality(Requests)
           /\ Cardinality(Requests) \in Nat
  <1>1. IsFiniteSet(Requests) /\ Past(a) \subseteq Requests
    BY LimitsAssumption DEF Past, TypeOK
  <1> QED
    BY <1>1, FS_Subset, FS_CardinalityType

LEMMA PastEnds ==
    ASSUME TypeOK, TypeOK', NEW r \in DOMAIN reqs, reqs' = Without(reqs, r),
           NEW a
    PROVE  /\ reqs[r] = a => Cardinality(Past(a)') = Cardinality(Past(a)) - 1
           /\ reqs[r] # a => Past(a)' = Past(a)
           /\ Cardinality(Past(a)') < Cardinality(Requests)
           /\ Cardinality(Past(a)') \in Nat
  <1>1. /\ DOMAIN reqs' = DOMAIN reqs \ {r}
        /\ \A x \in DOMAIN reqs' : reqs'[x] = reqs[x]
    BY DEF Without
  <1>2. Past(a)' = Past(a) \ {r}
    BY <1>1 DEF Past
  <1>3. IsFiniteSet(Requests) /\ r \in Requests /\ Past(a) \subseteq Requests
    BY LimitsAssumption DEF TypeOK, Past
  <1>4. CASE reqs[r] = a
    <2>1. r \in Past(a)
      BY <1>4 DEF Past
    <2>2. /\ Cardinality(Past(a)') = Cardinality(Past(a)) - 1
          /\ Cardinality(Past(a)') \in Nat
      BY <1>2, <2>1, PastFinite, FS_RemoveElement, FS_CardinalityType, FS_Subset
    <2> QED
      BY <1>4, <2>2, PastFinite
  <1>5. CASE reqs[r] # a
    <2>1. Past(a)' = Past(a) /\ Past(a) \subseteq Requests \ {r}
      BY <1>2, <1>3, <1>5 DEF Past
    <2>2. /\ IsFiniteSet(Requests \ {r})
          /\ Cardinality(Requests \ {r}) = Cardinality(Requests) - 1
      BY <1>3, FS_RemoveElement
    <2>3. Cardinality(Past(a)) <= Cardinality(Requests \ {r})
      BY <2>1, <2>2, FS_Subset
    <2> QED
      BY <1>5, <2>1, <2>2, <2>3, PastFinite
  <1> QED
    BY <1>4, <1>5

-----------------------------------------------------------------------------
(* The invariant.                                                          *)

LEMMA InitSafe == Init => Safe
  <1> SUFFICES ASSUME Init PROVE Safe
    OBVIOUS
  <1>1. TypeOK
    BY DEF Init, TypeOK
  <1>2. FewPast /\ Earned
    BY DEF Init, FewPast, Earned, Locked
  <1>3. Guesses
    BY DEF Init, Guesses
  <1> QED
    BY <1>1, <1>2, <1>3 DEF Safe

LEMMA TypeStep == TypeOK /\ [Next]_vars => TypeOK'
  <1> SUFFICES ASSUME TypeOK, [Next]_vars PROVE TypeOK'
    OBVIOUS
  <1>1. /\ DOMAIN Cleaned \subseteq Addresses
        /\ \A a \in DOMAIN Cleaned : Cleaned[a] \in Attempt
    BY CleanedKeeps DEF TypeOK
  <1>2. ASSUME NEW r \in Requests, NEW a \in Addresses, Begins(r, a)
        PROVE  TypeOK'
    <2>1. CASE Locked(a)
      BY <1>1, <1>2, <2>1 DEF TypeOK, Begins
    <2>2. CASE ~Locked(a)
      BY <1>1, <1>2, <2>2 DEF TypeOK, Begins, Stored
    <2> QED
      BY <2>1, <2>2
  <1>3. ASSUME NEW r \in Requests, Malformed(r) PROVE TypeOK'
    BY <1>3 DEF TypeOK, Malformed, Without, history
  <1>4. ASSUME NEW r \in Requests, Fails(r) PROVE TypeOK'
    <2> DEFINE a == reqs[r]
    <2>1. /\ a \in Addresses /\ DOMAIN reqs' \subseteq Requests
          /\ \A q \in DOMAIN reqs' : reqs'[q] \in Addresses
          /\ now' = now /\ tried' = tried
      BY <1>4 DEF TypeOK, Fails, Without
    <2>2. CASE Locked(a)
      <3>1. /\ attempts' = Cleaned /\ counted' = counted /\ free' = free
            /\ late' = [late EXCEPT ![a] = late[a] + 1]
        BY <1>4, <2>2 DEF Fails
      <3>2. late' \in [Addresses -> Nat]
        BY <2>1, <3>1 DEF TypeOK
      <3> QED
        BY <1>1, <2>1, <3>1, <3>2 DEF TypeOK
    <2>3. CASE ~Locked(a)
      <3>1. Counted(a) \in Attempt
        BY <2>3, CountedIs
      <3>2. /\ attempts' = Stored(Cleaned, a, Counted(a))
            /\ counted' = [counted EXCEPT ![a] = Append(@, now)]
            /\ late' = [late EXCEPT ![a] = 0]
            /\ \/ free' = [free EXCEPT ![a] = << >>]
               \/ free' = [free EXCEPT ![a] = Append(@, now)]
        BY <1>4, <2>3 DEF Fails
      <3>3. /\ DOMAIN attempts' \subseteq Addresses
            /\ \A b \in DOMAIN attempts' : attempts'[b] \in Attempt
        BY <1>1, <2>1, <3>1, <3>2 DEF Stored
      <3>4. Append(counted[a], now) \in Seq(Nat) /\ Append(free[a], now) \in Seq(Nat)
        BY <2>1 DEF TypeOK
      <3>5. counted' \in [Addresses -> Seq(Nat)] /\ late' \in [Addresses -> Nat]
        BY <3>2, <3>4 DEF TypeOK
      <3>6. free' \in [Addresses -> Seq(Nat)]
        <4>1. << >> \in Seq(Nat)
          OBVIOUS
        <4> QED
          BY <3>2, <3>4, <4>1 DEF TypeOK
      <3> QED
        BY <2>1, <3>3, <3>5, <3>6 DEF TypeOK
    <2> QED
      BY <2>2, <2>3
  <1>5. ASSUME NEW r \in Requests, Succeeds(r) PROVE TypeOK'
    BY <1>1, <1>5 DEF TypeOK, Succeeds, Without
  <1>6. CASE Sweeps
    BY <1>1, <1>6 DEF TypeOK, Sweeps, history
  <1>7. CASE Tick
    BY <1>7 DEF TypeOK, Tick, history
  <1>8. CASE UNCHANGED vars
    BY <1>8 DEF TypeOK, vars, history
  <1> QED
    BY <1>2, <1>3, <1>4, <1>5, <1>6, <1>7, <1>8 DEF Next

\* A lock that stands after a step stood before, unless the step set it.
LEMMA LockedBefore ==
    ASSUME TypeOK, NEW a \in DOMAIN attempts', attempts'[a] = attempts[a],
           a \in DOMAIN attempts, now' \in {now, now + 1}, Locked(a)'
    PROVE  Locked(a)
  BY DEF Locked, TypeOK, Attempt

LEMMA FewPastStep == Safe /\ TypeOK' /\ [Next]_vars => FewPast'
  <1> SUFFICES ASSUME Safe, TypeOK', [Next]_vars, NEW a \in Addresses,
                      Locked(a)'
               PROVE  (late[a] + Cardinality(Past(a)) < Cardinality(Requests))'
    BY DEF FewPast
  <1> USE DEF Safe
  <1>0. /\ Cardinality(Requests) \in Nat /\ late[a] \in Nat
        /\ Cardinality(Past(a)) \in Nat
        /\ now \in Nat
    BY PastFinite DEF TypeOK
  <1>1. ASSUME NEW r \in Requests, NEW b \in Addresses, Begins(r, b)
        PROVE  (late[a] + Cardinality(Past(a)) < Cardinality(Requests))'
    <2>1. attempts' = Cleaned /\ now' = now /\ late' = late
      BY <1>1 DEF Begins
    <2>2. Locked(a)
      BY <2>1, CleanedKeeps DEF Locked
    <2>3. Past(a)' = Past(a)
      <3>1. CASE Locked(b)
        BY <1>1, <3>1 DEF Begins, Past
      <3>2. CASE ~Locked(b)
        BY <1>1, <2>2, <3>2 DEF Begins, Past, Stored
      <3> QED
        BY <3>1, <3>2
    <2> QED
      BY <2>1, <2>2, <2>3 DEF FewPast
  <1>2. ASSUME NEW r \in Requests, Malformed(r)
        PROVE  (late[a] + Cardinality(Past(a)) < Cardinality(Requests))'
    <2>1. /\ attempts' = attempts /\ now' = now /\ late' = late
          /\ r \in DOMAIN reqs /\ reqs' = Without(reqs, r)
      BY <1>2 DEF Malformed, history
    <2>2. Locked(a)
      BY <2>1 DEF Locked
    <2>3. Cardinality(Past(a)') <= Cardinality(Past(a))
          /\ Cardinality(Past(a)') \in Nat
      BY <1>0, <2>1, PastEnds
    <2> QED
      BY <1>0, <2>1, <2>2, <2>3 DEF FewPast
  <1>3. ASSUME NEW r \in Requests, Fails(r)
        PROVE  (late[a] + Cardinality(Past(a)) < Cardinality(Requests))'
    <2>1. now' = now /\ r \in DOMAIN reqs /\ reqs' = Without(reqs, r)
      BY <1>3 DEF Fails
    <2>2. /\ reqs[r] = a => Cardinality(Past(a)') = Cardinality(Past(a)) - 1
          /\ reqs[r] # a => Past(a)' = Past(a)
          /\ Cardinality(Past(a)') < Cardinality(Requests)
          /\ Cardinality(Past(a)') \in Nat
      BY <2>1, PastEnds
    <2>3. CASE reqs[r] # a
      <3>1. late'[a] = late[a] /\ (a \in DOMAIN attempts' =>
                a \in DOMAIN Cleaned /\ attempts'[a] = Cleaned[a])
        BY <1>3, <2>3 DEF Fails, Stored, TypeOK
      <3>2. Locked(a)
        BY <2>1, <3>1, CleanedKeeps DEF Locked
      <3> QED
        BY <2>2, <2>3, <3>1, <3>2 DEF FewPast
    <2>4. CASE reqs[r] = a /\ Locked(a)
      <3>1. late'[a] = late[a] + 1
        BY <1>3, <2>4 DEF Fails, TypeOK
      <3> QED
        BY <1>0, <2>2, <2>4, <3>1 DEF FewPast
    <2>5. CASE reqs[r] = a /\ ~Locked(a)
      <3>1. late'[a] = 0
        BY <1>3, <2>5 DEF Fails, TypeOK
      <3> QED
        BY <2>2, <3>1
    <2> QED
      BY <2>3, <2>4, <2>5
  <1>4. ASSUME NEW r \in Requests, Succeeds(r)
        PROVE  (late[a] + Cardinality(Past(a)) < Cardinality(Requests))'
    <2>1. /\ now' = now /\ r \in DOMAIN reqs /\ reqs' = Without(reqs, r)
          /\ attempts' = Without(Cleaned, reqs[r])
      BY <1>4 DEF Succeeds
    <2>2. reqs[r] # a /\ Locked(a)
      BY <2>1, CleanedKeeps DEF Locked, Without
    <2>3. late'[a] = late[a]
      BY <1>4, <2>2 DEF Succeeds, TypeOK
    <2>4. Past(a)' = Past(a)
      BY <2>1, <2>2, PastEnds
    <2> QED
      BY <2>2, <2>3, <2>4 DEF FewPast
  <1>5. CASE Sweeps
    <2>1. Locked(a)
      BY <1>5, CleanedKeeps DEF Sweeps, Locked
    <2> QED
      BY <1>5, <2>1 DEF Sweeps, FewPast, Past, history
  <1>6. CASE Tick
    <2>1. Locked(a)
      BY <1>6, <1>0, LockedBefore DEF Tick, Locked
    <2> QED
      BY <1>6, <2>1 DEF Tick, FewPast, Past, history
  <1>7. CASE UNCHANGED vars
    BY <1>7 DEF vars, history, FewPast, Past, Locked
  <1> QED
    BY <1>1, <1>2, <1>3, <1>4, <1>5, <1>6, <1>7 DEF Next

LEMMA EarnedStep == Safe /\ TypeOK' /\ [Next]_vars => Earned'
  <1> SUFFICES ASSUME Safe, TypeOK', [Next]_vars, NEW a \in DOMAIN attempts'
               PROVE  EarnedBy(attempts'[a], counted'[a], now')
    BY DEF Earned
  <1> USE DEF Safe
  <1>0. /\ MaxFailures \in Nat \ {0} /\ Window \in Nat \ {0}
        /\ Lockout \in Nat \ {0} /\ now \in Nat
        /\ a \in Addresses /\ counted[a] \in Seq(Nat)
        /\ attempts'[a] \in Attempt
    BY LimitsAssumption DEF TypeOK
  \* Every step but a counted failure of a leaves its counter alone.
  <1>1. ASSUME a \in DOMAIN attempts, attempts'[a] = attempts[a],
               counted'[a] = counted[a], now' \in {now, now + 1}
        PROVE  EarnedBy(attempts'[a], counted'[a], now')
    <2>1. EarnedBy(attempts[a], counted[a], now)
      BY <1>1 DEF Earned
    <2> QED
      BY <1>0, <1>1, <2>1 DEF EarnedBy, Attempt
  <1>2. ASSUME NEW r \in Requests, NEW b \in Addresses, Begins(r, b)
        PROVE  EarnedBy(attempts'[a], counted'[a], now')
    BY <1>1, <1>2, CleanedKeeps DEF Begins
  <1>3. ASSUME NEW r \in Requests, Malformed(r)
        PROVE  EarnedBy(attempts'[a], counted'[a], now')
    BY <1>1, <1>3 DEF Malformed, history
  <1>4. ASSUME NEW r \in Requests, Fails(r)
        PROVE  EarnedBy(attempts'[a], counted'[a], now')
    <2>1. CASE Locked(reqs[r])
      BY <1>1, <1>4, <2>1, CleanedKeeps DEF Fails
    <2>2. CASE ~Locked(reqs[r]) /\ reqs[r] # a
      <3>1. /\ attempts' = Stored(Cleaned, reqs[r], Counted(reqs[r]))
            /\ counted' = [counted EXCEPT ![reqs[r]] = Append(@, now)]
            /\ now' = now
        BY <1>4, <2>2 DEF Fails
      <3>2. a \in DOMAIN Cleaned /\ attempts'[a] = Cleaned[a]
            /\ counted'[a] = counted[a]
        BY <1>0, <2>2, <3>1 DEF Stored, TypeOK
      <3> QED
        BY <1>1, <3>1, <3>2, CleanedKeeps
    <2>3. CASE ~Locked(reqs[r]) /\ reqs[r] = a
      <3> DEFINE item == Counted(a)
      <3>1. /\ attempts'[a] = item /\ now' = now
            /\ counted'[a] = Append(counted[a], now)
        BY <1>0, <1>4, <2>3 DEF Fails, Stored, TypeOK
      <3> DEFINE n == IF /\ a \in DOMAIN Cleaned
                         /\ attempts[a].failures # 0
                         /\ now - attempts[a].firstAt <= Window
                      THEN attempts[a].failures + 1 ELSE 1
      <3>2. /\ item \in Attempt /\ item.failures = n /\ item.lastAt = now
            /\ item.firstAt = IF n = 1 THEN now ELSE attempts[a].firstAt
            /\ n >= MaxFailures => item.lockedUntil = now + Lockout
            /\ n < MaxFailures => item.lockedUntil <= now
        BY <2>3, CountedIs
      <3> HIDE DEF item
      <3>3. CASE n = 1
        <4>1. 1 <= Cardinality(Within(Append(counted[a], now), now))
          BY <1>0, AppendCounts, PlacesFinite
        <4> QED
          BY <1>0, <3>1, <3>2, <3>3, <4>1 DEF EarnedBy, Attempt
      <3>4. CASE n # 1
        <4>1. /\ a \in DOMAIN attempts /\ n = attempts[a].failures + 1
              /\ now - attempts[a].firstAt <= Window
              /\ attempts[a] \in Attempt
          BY <3>4, CleanedKeeps DEF TypeOK
        <4>2. EarnedBy(attempts[a], counted[a], now)
          BY <4>1 DEF Earned
        <4>3. /\ attempts[a].firstAt \in Nat /\ attempts[a].failures \in Nat
              /\ attempts[a].lastAt \in Nat
              /\ attempts[a].firstAt <= now
          BY <1>0, <4>1, <4>2 DEF EarnedBy, Attempt
        <4>4. /\ Cardinality(Within(Append(counted[a], now), attempts[a].firstAt))
                  = Cardinality(Within(counted[a], attempts[a].firstAt)) + 1
              /\ Cardinality(Within(counted[a], attempts[a].firstAt)) \in Nat
          BY <1>0, <4>3, AppendCounts, PlacesFinite
        <4>5. item.firstAt = attempts[a].firstAt
          BY <3>2, <3>4
        <4>6. /\ attempts[a].failures <= Cardinality(Within(counted[a], attempts[a].firstAt))
              /\ attempts[a].failures >= 1
          BY <4>2 DEF EarnedBy
        <4> HIDE DEF n
        <4> QED
          BY <1>0, <3>1, <3>2, <4>1, <4>3, <4>4, <4>5, <4>6 DEF EarnedBy, Attempt
      <3> QED
        BY <3>3, <3>4
    <2> QED
      BY <2>1, <2>2, <2>3
  <1>5. ASSUME NEW r \in Requests, Succeeds(r)
        PROVE  EarnedBy(attempts'[a], counted'[a], now')
    <2>1. /\ attempts' = Without(Cleaned, reqs[r]) /\ now' = now
          /\ counted' = [counted EXCEPT ![reqs[r]] = << >>]
      BY <1>5 DEF Succeeds
    <2>2. /\ a \in DOMAIN Cleaned /\ attempts'[a] = Cleaned[a]
          /\ counted'[a] = counted[a]
      BY <1>0, <2>1 DEF Without, TypeOK
    <2> QED
      BY <1>1, <2>1, <2>2, CleanedKeeps
  <1>6. CASE Sweeps
    BY <1>1, <1>6, CleanedKeeps DEF Sweeps, history
  <1>7. CASE Tick
    BY <1>1, <1>7 DEF Tick, history
  <1>8. CASE UNCHANGED vars
    BY <1>1, <1>8 DEF vars, history
  <1> QED
    BY <1>2, <1>3, <1>4, <1>5, <1>6, <1>7, <1>8 DEF Next

LEMMA GuessesStep == Safe /\ TypeOK' /\ [Next]_vars => Guesses'
  <1> SUFFICES ASSUME Safe, TypeOK', [Next]_vars, NEW a \in Addresses
               PROVE  IF a \in DOMAIN attempts' THEN GuessedBy(attempts'[a], free'[a])
                      ELSE \A i \in DOMAIN free'[a] : free'[a][i] + Window < now'
    BY DEF Guesses
  <1> USE DEF Safe
  <1> DEFINE Goal == IF a \in DOMAIN attempts' THEN GuessedBy(attempts'[a], free'[a])
                     ELSE \A i \in DOMAIN free'[a] : free'[a][i] + Window < now'
  <1>0. /\ MaxFailures \in Nat \ {0} /\ Window \in Nat \ {0}
        /\ Lockout \in Nat \ {0} /\ now \in Nat
        /\ free[a] \in Seq(Nat)
        /\ a \in DOMAIN attempts => attempts[a] \in Attempt
        /\ \A i \in DOMAIN free[a] : free[a][i] \in Nat
    BY LimitsAssumption DEF TypeOK
  <1>g. IF a \in DOMAIN attempts THEN GuessedBy(attempts[a], free[a])
        ELSE \A i \in DOMAIN free[a] : free[a][i] + Window < now
    BY DEF Guesses
  <1>e. a \in DOMAIN attempts =>
            /\ attempts[a].failures >= 1
            /\ attempts[a].firstAt <= attempts[a].lastAt
            /\ attempts[a].lastAt <= now
            /\ attempts[a].lastAt <= attempts[a].firstAt + Window
    BY DEF Earned, EarnedBy
  <1>n. \A i \in DOMAIN free[a] : free[a][i] <= now
    BY <1>0, <1>g, <1>e DEF GuessedBy, Attempt
  \* A counter that is swept has no failure of the last Window.
  <1>s. a \notin DOMAIN Cleaned => \A i \in DOMAIN free[a] : free[a][i] + Window < now
    <2>1. CASE a \notin DOMAIN attempts
      BY <2>1, <1>g
    <2>2. CASE a \in DOMAIN attempts /\ a \notin DOMAIN Cleaned
      <3>1. attempts[a].lastAt + Window < now
        BY <1>0, <1>e, <2>2, CleanedKeeps DEF Kept, Attempt
      <3> QED
        BY <1>0, <1>g, <2>2, <3>1 DEF GuessedBy, Attempt
    <2> QED
      BY <2>1, <2>2
  <1>1. ASSUME attempts' = attempts, free'[a] = free[a], now' \in {now, now + 1}
        PROVE  Goal
    BY <1>0, <1>1, <1>g
  <1>2. ASSUME a \in DOMAIN attempts' => a \in DOMAIN Cleaned /\ attempts'[a] = Cleaned[a],
               a \in DOMAIN Cleaned => a \in DOMAIN attempts',
               free'[a] = free[a], now' = now
        PROVE  Goal
    BY <1>2, <1>g, <1>s, CleanedKeeps
  <1>3. ASSUME NEW r \in Requests, NEW b \in Addresses, Begins(r, b)
        PROVE  Goal
    BY <1>2, <1>3 DEF Begins
  <1>4. ASSUME NEW r \in Requests, Malformed(r) PROVE Goal
    BY <1>1, <1>4 DEF Malformed, history
  <1>5. ASSUME NEW r \in Requests, Fails(r) PROVE Goal
    <2>1. CASE Locked(reqs[r])
      BY <1>2, <1>5, <2>1 DEF Fails
    <2>2. CASE ~Locked(reqs[r]) /\ reqs[r] # a
      <3>1. /\ attempts' = Stored(Cleaned, reqs[r], Counted(reqs[r])) /\ now' = now
            /\ \/ free' = [free EXCEPT ![reqs[r]] = << >>]
               \/ free' = [free EXCEPT ![reqs[r]] = Append(@, now)]
        BY <1>5, <2>2 DEF Fails
      <3>2. free'[a] = free[a]
        BY <2>2, <3>1 DEF TypeOK
      <3>3. /\ a \in DOMAIN attempts' <=> a \in DOMAIN Cleaned
            /\ a \in DOMAIN Cleaned => attempts'[a] = Cleaned[a]
        BY <2>2, <3>1 DEF Stored
      <3> QED
        BY <1>2, <3>1, <3>2, <3>3
    <2>3. CASE ~Locked(reqs[r]) /\ reqs[r] = a
      <3> DEFINE item == Counted(a)
                 n == IF /\ a \in DOMAIN Cleaned
                         /\ attempts[a].failures # 0
                         /\ now - attempts[a].firstAt <= Window
                      THEN attempts[a].failures + 1 ELSE 1
      <3>1. /\ item \in Attempt /\ item.failures = n /\ item.lastAt = now
            /\ item.firstAt = IF n = 1 THEN now ELSE attempts[a].firstAt
            /\ n >= MaxFailures => item.lockedUntil = now + Lockout
            /\ n < MaxFailures => item.lockedUntil <= now
        BY <2>3, CountedIs
      <3>2. /\ a \in DOMAIN attempts' /\ attempts'[a] = item /\ now' = now
            /\ free'[a] = IF now < item.lockedUntil THEN << >>
                          ELSE Append(free[a], now)
        BY <1>5, <2>3 DEF Fails, Stored, TypeOK
      <3>n. n \in Nat
        BY <1>0, CleanedKeeps DEF Attempt
      <3> HIDE DEF item
      <3>3. CASE n >= MaxFailures
        <4>1. free'[a] = << >>
          BY <1>0, <3>1, <3>2, <3>3
        <4>2. /\ Within(<< >>, item.firstAt) = {} /\ Before(<< >>, item.firstAt) = {}
          BY DEF Within, Before
        <4>3. item.failures \in Nat
          BY <3>1 DEF Attempt
        <4>4. /\ Cardinality(Within(<< >>, item.firstAt)) = 0
              /\ Cardinality(Before(<< >>, item.firstAt)) = 0
          BY <4>2, FS_EmptySet
        <4>5. GuessedBy(item, << >>)
          BY <1>0, <4>3, <4>4 DEF GuessedBy
        <4> QED
          BY <3>2, <4>1, <4>5
      <3>4. CASE n < MaxFailures
        <4>1. free'[a] = Append(free[a], now) /\ ~(n >= MaxFailures)
          BY <1>0, <3>n, <3>1, <3>2, <3>4 DEF Attempt
        <4>2. \A i \in DOMAIN Append(free[a], now) : Append(free[a], now)[i] <= now
          <5>1. /\ DOMAIN Append(free[a], now) = 1 .. Len(free[a]) + 1
                /\ DOMAIN free[a] = 1 .. Len(free[a]) /\ Len(free[a]) \in Nat
                /\ \A i \in 1 .. Len(free[a]) : Append(free[a], now)[i] = free[a][i]
                /\ Append(free[a], now)[Len(free[a]) + 1] = now
            BY <1>0
          <5> QED
            BY <1>0, <1>n, <5>1
        <4>3. item.firstAt \in Nat /\ item.firstAt <= now
          BY <1>0, <1>e, <3>1, CleanedKeeps DEF Attempt
        <4>4. /\ Cardinality(Within(Append(free[a], now), item.firstAt))
                    = Cardinality(Within(free[a], item.firstAt)) + 1
              /\ Before(Append(free[a], now), item.firstAt)
                    = Before(free[a], item.firstAt)
              /\ Cardinality(Within(free[a], item.firstAt)) \in Nat
          BY <1>0, <4>3, AppendCounts, PlacesFinite
        <4>5. /\ Cardinality(Within(free[a], item.firstAt)) + 1 <= n
              /\ Cardinality(Before(free[a], item.firstAt)) <= MaxFailures - 1
          \* The window goes on.
          <5>1. CASE n # 1
            <6>1. /\ a \in DOMAIN attempts /\ n = attempts[a].failures + 1
                  /\ item.firstAt = attempts[a].firstAt
                  /\ attempts[a].failures \in Nat
              BY <1>0, <3>1, <5>1, CleanedKeeps DEF Attempt
            <6>2. /\ Cardinality(Within(free[a], attempts[a].firstAt))
                        <= attempts[a].failures
                  /\ Cardinality(Before(free[a], attempts[a].firstAt))
                        <= MaxFailures - 1
              BY <1>g, <6>1 DEF GuessedBy
            <6> HIDE DEF n
            <6> QED
              BY <4>4, <6>1, <6>2
          \* It starts anew: what the last Window holds was counted by the
          \* window before, which did not lock.
          <5>2. CASE n = 1
            <6>1. item.firstAt = now
              BY <3>1, <5>2
            <6>2. \A i \in DOMAIN free[a] : free[a][i] < now
              <7>1. CASE a \in DOMAIN Cleaned
                <8>1. a \in DOMAIN attempts /\ now - attempts[a].firstAt > Window
                      /\ attempts[a] \in Attempt
                  BY <1>0, <1>e, <5>2, <7>1, CleanedKeeps DEF Attempt
                <8>2. attempts[a].lastAt < now
                  BY <1>0, <1>e, <8>1 DEF Attempt
                <8> QED
                  BY <1>0, <1>g, <8>1, <8>2 DEF GuessedBy, Attempt
              <7>2. CASE a \notin DOMAIN Cleaned
                BY <1>0, <1>s, <7>2
              <7> QED
                BY <7>1, <7>2
            <6>3. Within(free[a], now) = {}
              BY <1>0, <6>2 DEF Within
            <6>4. Cardinality(Before(free[a], now)) <= MaxFailures - 1
              <7>1. CASE a \in DOMAIN Cleaned
                <8>1. a \in DOMAIN attempts /\ now - attempts[a].firstAt > Window
                      /\ attempts[a] \in Attempt
                      /\ attempts[a].firstAt \in Nat /\ attempts[a].failures \in Nat
                  BY <1>0, <1>e, <5>2, <7>1, CleanedKeeps DEF Attempt
                <8>2. Before(free[a], now) \subseteq Within(free[a], attempts[a].firstAt)
                  BY <1>0, <8>1 DEF Before, Within
                <8>3. Cardinality(Before(free[a], now))
                        <= Cardinality(Within(free[a], attempts[a].firstAt))
                  BY <1>0, <8>1, <8>2, PlacesFinite, FS_Subset
                <8>4. CASE attempts[a].failures >= MaxFailures
                  <9>1. free[a] = << >>
                    BY <1>g, <8>1, <8>4 DEF GuessedBy
                  <9>2. Before(free[a], now) = {}
                    BY <9>1 DEF Before
                  <9> QED
                    BY <1>0, <9>2, FS_EmptySet
                <8>5. CASE attempts[a].failures < MaxFailures
                  <9>1. Cardinality(Within(free[a], attempts[a].firstAt))
                            <= attempts[a].failures
                    BY <1>g, <8>1 DEF GuessedBy
                  <9>2. /\ Cardinality(Before(free[a], now)) \in Nat
                        /\ Cardinality(Within(free[a], attempts[a].firstAt)) \in Nat
                    BY <1>0, <8>1, PlacesFinite
                  <9> QED
                    BY <1>0, <8>1, <8>3, <8>5, <9>1, <9>2
                <8> QED
                  BY <1>0, <8>1, <8>4, <8>5
              <7>2. CASE a \notin DOMAIN Cleaned
                <8>1. Before(free[a], now) = {}
                  BY <1>0, <1>s, <7>2 DEF Before
                <8> QED
                  BY <1>0, <8>1, FS_EmptySet
              <7> QED
                BY <7>1, <7>2
            <6>5. Cardinality(Within(free[a], now)) = 0
              BY <6>3, FS_EmptySet
            <6> HIDE DEF n
            <6> QED
              BY <5>2, <6>1, <6>4, <6>5
          <5> QED
            BY <5>1, <5>2
        <4> HIDE DEF n
        <4> QED
          BY <1>0, <3>1, <3>2, <3>n, <4>1, <4>2, <4>4, <4>5 DEF GuessedBy
      <3> HIDE DEF n
      <3> QED
        BY <1>0, <3>n, <3>3, <3>4
    <2> QED
      BY <2>1, <2>2, <2>3
  <1>6. ASSUME NEW r \in Requests, Succeeds(r) PROVE Goal
    <2>1. /\ attempts' = Without(Cleaned, reqs[r]) /\ now' = now
          /\ free' = [free EXCEPT ![reqs[r]] = << >>]
      BY <1>6 DEF Succeeds
    <2>2. CASE reqs[r] = a
      <3>1. a \notin DOMAIN attempts' /\ free'[a] = << >>
        BY <2>1, <2>2 DEF Without, TypeOK
      <3> QED
        BY <3>1
    <2>3. CASE reqs[r] # a
      <3>1. /\ free'[a] = free[a]
            /\ a \in DOMAIN attempts' <=> a \in DOMAIN Cleaned
            /\ a \in DOMAIN Cleaned => attempts'[a] = Cleaned[a]
        BY <2>1, <2>3 DEF Without, TypeOK
      <3> QED
        BY <1>2, <2>1, <3>1
    <2> QED
      BY <2>2, <2>3
  <1>7. CASE Sweeps
    BY <1>2, <1>7 DEF Sweeps, history
  <1>8. CASE Tick
    BY <1>1, <1>8 DEF Tick, history
  <1>9. CASE UNCHANGED vars
    BY <1>1, <1>9 DEF vars, history
  <1> QED
    BY <1>3, <1>4, <1>5, <1>6, <1>7, <1>8, <1>9 DEF Next

LEMMA SafeAlways == Spec => []Safe
  <1>1. Safe /\ [Next]_vars => Safe'
    BY TypeStep, FewPastStep, EarnedStep, GuessesStep DEF Safe
  <1> QED
    BY InitSafe, <1>1, PTL DEF Spec

-----------------------------------------------------------------------------
(* The theorems.                                                           *)

\* The counters keep their types (Manager.attempts, auth.go:56-61).
THEOREM LimiterTypeCorrect == Spec => []TypeOK
  BY SafeAlways, PTL DEF Safe

\* Of the passwords of a locked address, at most those of the other goroutines
\* that were past the lock when it closed are still compared
\* (auth.go:171-201), however many addresses and goroutines there are.
THEOREM LimiterLatePasswords == Spec => []FewLatePasswords
  <1>1. Safe => FewLatePasswords
    <2> SUFFICES ASSUME Safe, NEW a \in Addresses, Locked(a)
                 PROVE  late[a] < Cardinality(Requests)
      BY DEF FewLatePasswords
    <2>1. /\ late[a] \in Nat /\ Cardinality(Past(a)) \in Nat
          /\ Cardinality(Requests) \in Nat
      BY PastFinite DEF Safe, TypeOK
    <2> QED
      BY <2>1 DEF Safe, FewPast
  <1> QED
    BY SafeAlways, <1>1, PTL

\* A lock is earned by its own address, within one Window, and has its length
\* (auth.go:364-392).
THEOREM LimiterLockEarned == Spec => []LockEarned
  <1>1. Safe => LockEarned
    <2> SUFFICES ASSUME Safe, NEW a \in Addresses, Locked(a)
                 PROVE  /\ attempts[a].lockedUntil = attempts[a].lastAt + Lockout
                        /\ \E from \in 0 .. now :
                            /\ attempts[a].lastAt <= from + Window
                            /\ Cardinality(Within(counted[a], from)) >= MaxFailures
      BY DEF LockEarned
    <2>1. a \in DOMAIN attempts /\ EarnedBy(attempts[a], counted[a], now)
      BY DEF Locked, Safe, Earned
    <2>2. /\ attempts[a] \in Attempt /\ now \in Nat /\ counted[a] \in Seq(Nat)
          /\ MaxFailures \in Nat
      BY <2>1, LimitsAssumption DEF Safe, TypeOK
    <2>3. attempts[a].failures >= MaxFailures
          /\ attempts[a].lockedUntil = attempts[a].lastAt + Lockout
      BY <2>1 DEF EarnedBy, Locked
    <2>4. attempts[a].firstAt \in 0 .. now
          /\ attempts[a].firstAt \in Nat /\ attempts[a].failures \in Nat
      BY <2>1, <2>2 DEF EarnedBy, Attempt
    <2>5. Cardinality(Within(counted[a], attempts[a].firstAt)) >= MaxFailures
      <3>1. Cardinality(Within(counted[a], attempts[a].firstAt)) \in Nat
        BY <2>2, <2>4, PlacesFinite
      <3>2. attempts[a].failures
                <= Cardinality(Within(counted[a], attempts[a].firstAt))
        BY <2>1 DEF EarnedBy
      <3> QED
        BY <2>2, <2>3, <2>4, <3>1, <3>2
    <2>6. attempts[a].lastAt <= attempts[a].firstAt + Window
      BY <2>1 DEF EarnedBy
    <2> QED
      BY <2>3, <2>4, <2>5, <2>6
  <1> QED
    BY SafeAlways, <1>1, PTL

\* No stretch of Window holds more failures without a lock than two windows
\* that just stay below the limit (auth.go:378-389, 400-420).
THEOREM LimiterGuessesBounded == Spec => []GuessesBounded
  <1>1. Safe => GuessesBounded
    <2> DEFINE recentOf(a) == {i \in DOMAIN free[a] : now - free[a][i] <= Window}
    <2> SUFFICES ASSUME Safe, NEW a \in Addresses
                 PROVE  Cardinality(recentOf(a)) <= 2 * (MaxFailures - 1)
      BY DEF GuessesBounded
    <2> DEFINE recent == recentOf(a)
    <2> SUFFICES Cardinality(recent) <= 2 * (MaxFailures - 1)
      OBVIOUS
    <2>1. /\ MaxFailures \in Nat \ {0} /\ Window \in Nat /\ now \in Nat
          /\ free[a] \in Seq(Nat)
          /\ \A i \in DOMAIN free[a] : free[a][i] \in Nat
          /\ a \in DOMAIN attempts => attempts[a] \in Attempt
      BY LimitsAssumption DEF Safe, TypeOK
    <2>2. CASE a \notin DOMAIN attempts
      <3>1. \A i \in DOMAIN free[a] : free[a][i] + Window < now
        BY <2>2 DEF Safe, Guesses
      <3>2. recent = {}
        BY <2>1, <3>1
      <3>3. Cardinality(recent) = 0
        BY <3>2, FS_EmptySet
      <3> HIDE DEF recent
      <3> QED
        BY <2>1, <3>3
    <2>3. CASE a \in DOMAIN attempts
      <3> DEFINE from == attempts[a].firstAt
      <3>1. GuessedBy(attempts[a], free[a])
        BY <2>3 DEF Safe, Guesses
      <3>2. from \in Nat /\ from <= now /\ attempts[a].failures \in Nat
        BY <2>1, <2>3 DEF Safe, Earned, EarnedBy, Attempt
      <3>3. CASE attempts[a].failures >= MaxFailures
        <4>1. recent = {}
          BY <3>1, <3>3 DEF GuessedBy
        <4>2. Cardinality(recent) = 0
          BY <4>1, FS_EmptySet
        <4> HIDE DEF recent
        <4> QED
          BY <2>1, <4>2
      <3>4. CASE attempts[a].failures < MaxFailures
        <4>1. recent \subseteq Within(free[a], from) \cup Before(free[a], from)
          BY <2>1, <3>2 DEF Within, Before
        <4>2. /\ IsFiniteSet(Within(free[a], from)) /\ IsFiniteSet(Before(free[a], from))
              /\ Cardinality(Within(free[a], from)) \in Nat
              /\ Cardinality(Before(free[a], from)) \in Nat
          BY <2>1, <3>2, PlacesFinite
        <4>3. Within(free[a], from) \cap Before(free[a], from) = {}
          BY <2>1, <3>2 DEF Within, Before
        <4>4. /\ IsFiniteSet(Within(free[a], from) \cup Before(free[a], from))
              /\ Cardinality(Within(free[a], from) \cup Before(free[a], from))
                    = Cardinality(Within(free[a], from))
                        + Cardinality(Before(free[a], from))
                        - Cardinality(Within(free[a], from) \cap Before(free[a], from))
          BY <4>2, FS_Union
        <4>5. Cardinality(Within(free[a], from) \cap Before(free[a], from)) = 0
          BY <4>3, FS_EmptySet
        <4>6. /\ Cardinality(recent)
                    <= Cardinality(Within(free[a], from) \cup Before(free[a], from))
              /\ IsFiniteSet(recent)
          BY <4>1, <4>4, FS_Subset
        <4>7. Cardinality(Within(free[a], from)) <= attempts[a].failures
              /\ Cardinality(Before(free[a], from)) <= MaxFailures - 1
          BY <3>1 DEF GuessedBy
        <4>8. Cardinality(recent) \in Nat
          BY <4>6, FS_CardinalityType
        <4>9. Cardinality(recent) <= Cardinality(Within(free[a], from))
                                      + Cardinality(Before(free[a], from))
          <5> HIDE DEF recent, from
          <5> QED
            BY <4>2, <4>4, <4>5, <4>6, <4>8
        <4> HIDE DEF recent, from
        <4> QED
          BY <2>1, <3>2, <3>4, <4>2, <4>7, <4>8, <4>9
      <3> QED
        BY <2>1, <3>2, <3>3, <3>4
    <2> QED
      BY <2>2, <2>3
  <1> QED
    BY SafeAlways, <1>1, PTL

\* A lock stays as it is until its time, except for a good login that had got
\* past it (auth.go:374-376, 394-398, 406-408).
THEOREM LimiterLockStands == Spec => LockStands
  <1> DEFINE Stands ==
        \A a \in Addresses :
            Locked(a) =>
                \/ /\ a \in DOMAIN attempts'
                   /\ attempts'[a].lockedUntil = attempts[a].lockedUntil
                \/ \E r \in DOMAIN reqs : reqs[r] = a /\ Succeeds(r)
  <1>1. TypeOK /\ [Next]_vars => Stands
    <2> SUFFICES ASSUME TypeOK, [Next]_vars, NEW a \in Addresses, Locked(a)
                 PROVE  \/ /\ a \in DOMAIN attempts'
                           /\ attempts'[a].lockedUntil = attempts[a].lockedUntil
                        \/ \E r \in DOMAIN reqs : reqs[r] = a /\ Succeeds(r)
      OBVIOUS
    <2>1. a \in DOMAIN attempts /\ a \in DOMAIN Cleaned /\ Cleaned[a] = attempts[a]
      BY CleanedKeeps DEF Locked
    <2>2. ASSUME NEW r \in Requests, NEW b \in Addresses, Begins(r, b)
          PROVE  a \in DOMAIN attempts' /\ attempts'[a] = attempts[a]
      BY <2>1, <2>2 DEF Begins
    <2>3. ASSUME NEW r \in Requests, Malformed(r)
          PROVE  a \in DOMAIN attempts' /\ attempts'[a] = attempts[a]
      BY <2>1, <2>3 DEF Malformed
    <2>4. ASSUME NEW r \in Requests, Fails(r)
          PROVE  a \in DOMAIN attempts' /\ attempts'[a] = attempts[a]
      BY <2>1, <2>4 DEF Fails, Stored
    <2>5. ASSUME NEW r \in Requests, Succeeds(r), reqs[r] # a
          PROVE  a \in DOMAIN attempts' /\ attempts'[a] = attempts[a]
      BY <2>1, <2>5 DEF Succeeds, Without
    <2>6. ASSUME NEW r \in Requests, Succeeds(r)
          PROVE  r \in DOMAIN reqs
      BY <2>6 DEF Succeeds
    <2>7. CASE Sweeps \/ Tick \/ UNCHANGED vars
      BY <2>1, <2>7 DEF Sweeps, Tick, vars
    <2> QED
      BY <2>2, <2>3, <2>4, <2>5, <2>6, <2>7 DEF Next
  <1> QED
    BY SafeAlways, <1>1, PTL DEF Spec, Safe, LockStands
=============================================================================
