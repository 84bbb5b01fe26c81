---------------------------- MODULE LoginLimiter ----------------------------
(***************************************************************************)
(* The brute-force counters of the login page (Manager.attempts in         *)
(* internal/auth/auth.go): one counter per client address, in memory.      *)
(*                                                                         *)
(* A login looks at the lock first, then parses the body and compares the  *)
(* password outside Manager.mu, and only then counts a failure or clears   *)
(* the counter.  Attempts of one address run in parallel, so several can   *)
(* be past the lock when it closes.                                        *)
(***************************************************************************)
EXTENDS Naturals, Sequences, FiniteSets

CONSTANTS
    Addresses,          \* clientIP values
    Requests,           \* goroutines that may be in flight together
    MaxFailures, Window, Lockout,   \* configuration, Limits.normalized
    MaxTime,            \* bound: the clock
    MaxAttempts         \* bound: login requests

ASSUME LimitsAssumption ==
    /\ IsFiniteSet(Requests)
    /\ MaxFailures \in Nat \ {0}
    /\ Window \in Nat \ {0} /\ Lockout \in Nat \ {0}
    /\ MaxTime \in Nat /\ MaxAttempts \in Nat

VARIABLES
    now,
    attempts,           \* address -> loginAttempt
    reqs,               \* logins past the lock, by the address they came from
    \* history
    counted,            \* per address: when failures were counted, since the
                        \* last good login
    free,               \* the same, since the last good login or lock
    late,               \* per address: wrong passwords compared while locked
    tried               \* how much of MaxAttempts is used

history == <<counted, free, late, tried>>
vars == <<now, attempts, reqs, history>>

Attempt == [failures : Nat, firstAt : Nat, lastAt : Nat, lockedUntil : Nat]

Without(f, x) == [y \in DOMAIN f \ {x} |-> f[y]]
Stored(f, x, v) == [y \in DOMAIN f \cup {x} |-> IF y = x THEN v ELSE f[y]]

Init ==
    /\ now = 0
    /\ attempts = << >> /\ reqs = << >>
    /\ counted = [a \in Addresses |-> << >>]
    /\ free = [a \in Addresses |-> << >>]
    /\ late = [a \in Addresses |-> 0]
    /\ tried = 0

Locked(a) == a \in DOMAIN attempts /\ now < attempts[a].lockedUntil

\* Mutant of Kept: the lock alone does not keep a counter.
KeptInWindow(item) == now - item.lastAt <= Window

\* Mutant of Kept: a counter that did not lock is forgotten.
KeptIfLocked(item) == now < item.lockedUntil

\* cleanupAttemptsLocked spares a counter that is locked, whose window runs,
\* or that counted a failure within the last Window.
Kept(item) ==
    \/ now < item.lockedUntil
    \/ now - item.firstAt <= Window
    \/ now - item.lastAt <= Window

Cleaned == [a \in {b \in DOMAIN attempts : Kept(attempts[b])} |-> attempts[a]]

\* Mutant of Counted: the window never starts anew.
CountedForever(a) ==
    LET old  == IF a \in DOMAIN Cleaned THEN Cleaned[a]
                ELSE [failures |-> 0, firstAt |-> now, lastAt |-> 0,
                      lockedUntil |-> 0]
        n    == old.failures + 1
    IN  [failures |-> n,
         firstAt |-> old.firstAt,
         lastAt |-> now,
         lockedUntil |-> IF n >= MaxFailures THEN now + Lockout
                         ELSE old.lockedUntil]

\* recordFailure on an address that is not locked: a window that is over
\* starts anew, and the failure that reaches the limit locks.
Counted(a) ==
    LET old  == IF a \in DOMAIN Cleaned THEN Cleaned[a]
                ELSE [failures |-> 0, firstAt |-> now, lastAt |-> 0,
                      lockedUntil |-> 0]
        anew == old.failures = 0 \/ now - old.firstAt > Window
        n    == IF anew THEN 1 ELSE old.failures + 1
    IN  [failures |-> n,
         firstAt |-> IF anew THEN now ELSE old.firstAt,
         lastAt |-> now,
         lockedUntil |-> IF n >= MaxFailures THEN now + Lockout
                         ELSE old.lockedUntil]

-----------------------------------------------------------------------------
\* Mutant of Begins: nobody looks at the lock before comparing a password.
BeginsUnchecked(r, a) ==
    /\ r \notin DOMAIN reqs
    /\ tried < MaxAttempts
    /\ tried' = tried + 1
    /\ attempts' = Cleaned
    /\ reqs' = Stored(reqs, r, a)
    /\ UNCHANGED <<now, counted, free, late>>

\* lockoutRemaining, on arrival: a locked address gets 429 at once.
Begins(r, a) ==
    /\ r \notin DOMAIN reqs
    /\ tried < MaxAttempts
    /\ tried' = tried + 1
    /\ attempts' = Cleaned
    /\ reqs' = IF Locked(a) THEN reqs ELSE Stored(reqs, r, a)
    /\ UNCHANGED <<now, counted, free, late>>

\* The body cannot be parsed: 400, nothing is counted.
Malformed(r) ==
    /\ r \in DOMAIN reqs
    /\ reqs' = Without(reqs, r)
    /\ UNCHANGED <<now, attempts, history>>

\* validCredentials is false: recordFailure.  The address may have been locked
\* since this login began; its failure then changes nothing.
Fails(r) ==
    LET a == reqs[r] IN
    /\ r \in DOMAIN reqs
    /\ reqs' = Without(reqs, r)
    /\ IF Locked(a)
       THEN /\ attempts' = Cleaned
            /\ late' = [late EXCEPT ![a] = @ + 1]
            /\ UNCHANGED <<counted, free>>
       ELSE LET item == Counted(a) IN
            /\ attempts' = Stored(Cleaned, a, item)
            /\ counted' = [counted EXCEPT ![a] = Append(@, now)]
            /\ free' = [free EXCEPT ![a] =
                            IF now < item.lockedUntil THEN << >>
                            ELSE Append(@, now)]
            /\ late' = [late EXCEPT ![a] = 0]
    /\ UNCHANGED <<now, tried>>

\* validCredentials is true: clearFailures, and the login goes on to its
\* session, whose cleanupLocked sweeps the counters too.
Succeeds(r) ==
    LET a == reqs[r] IN
    /\ r \in DOMAIN reqs
    /\ reqs' = Without(reqs, r)
    /\ attempts' = Without(Cleaned, a)
    /\ counted' = [counted EXCEPT ![a] = << >>]
    /\ free' = [free EXCEPT ![a] = << >>]
    /\ late' = [late EXCEPT ![a] = 0]
    /\ UNCHANGED <<now, tried>>

\* Any request behind Require sweeps the counters (cleanupLocked).
Sweeps ==
    /\ attempts' = Cleaned
    /\ UNCHANGED <<now, reqs, history>>

Tick ==
    /\ now < MaxTime
    /\ now' = now + 1
    /\ UNCHANGED <<attempts, reqs, history>>

Next ==
    \/ \E r \in Requests :
        \/ \E a \in Addresses : Begins(r, a)
        \/ Malformed(r) \/ Fails(r) \/ Succeeds(r)
    \/ Sweeps
    \/ Tick

Spec == Init /\ [][Next]_vars

-----------------------------------------------------------------------------
TypeOK ==
    /\ now \in Nat
    /\ DOMAIN attempts \subseteq Addresses
    /\ \A a \in DOMAIN attempts : attempts[a] \in Attempt
    /\ DOMAIN reqs \subseteq Requests
    /\ \A r \in DOMAIN reqs : reqs[r] \in Addresses
    /\ counted \in [Addresses -> Seq(Nat)] /\ free \in [Addresses -> Seq(Nat)]
    /\ late \in [Addresses -> Nat]
    /\ tried \in Nat

Within(times, from) == {i \in DOMAIN times : times[i] >= from}

\* An address is locked only for its own doing: when it was, it had counted
\* MaxFailures wrong passwords within one Window, no good login in between,
\* and the lock ends Lockout after the last of them (auth.go:364-392).
LockEarned ==
    \A a \in Addresses :
        Locked(a) =>
            /\ attempts[a].lockedUntil = attempts[a].lastAt + Lockout
            /\ \E from \in 0..now :
                /\ attempts[a].lastAt <= from + Window
                /\ Cardinality(Within(counted[a], from)) >= MaxFailures

\* The price of the parallel attempts: of the passwords of a locked address
\* at most those compared that were past the lock when it closed, one for
\* every other goroutine (auth.go:171-201).
FewLatePasswords ==
    \A a \in Addresses : Locked(a) => late[a] < Cardinality(Requests)

\* The window is not a sliding one, yet guessing around its end gains little:
\* no stretch of Window holds two full windows' worth of failures without a
\* lock (auth.go:378-389, 400-420).
GuessesBounded ==
    \A a \in Addresses :
        Cardinality({i \in DOMAIN free[a] : now - free[a][i] <= Window})
            <= 2 * (MaxFailures - 1)

\* A lock is neither lifted nor moved before its time by anything but a good
\* login of the same address that had got past it (auth.go:374-376, 394-398, 406-408).
LockStands ==
    [][\A a \in Addresses :
        Locked(a) =>
            \/ /\ a \in DOMAIN attempts'
               /\ attempts'[a].lockedUntil = attempts[a].lockedUntil
            \/ \E r \in DOMAIN reqs : reqs[r] = a /\ Succeeds(r)]_vars
=============================================================================
