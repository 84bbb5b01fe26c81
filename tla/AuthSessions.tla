---------------------------- MODULE AuthSessions ----------------------------
(***************************************************************************)
(* The administrator's browser sessions (internal/auth/auth.go and         *)
(* sessionstore.go): a map of cookies in memory in front of the SQLite     *)
(* table auth_sessions.                                                    *)
(*                                                                         *)
(* The map is guarded by Manager.mu, the table by store.DB.mu, and no      *)
(* handler holds both: a login fills the map and then the table, a logout  *)
(* empties the map and then the table, and a request whose cookie is not   *)
(* in the map reads the table and then fills the map.  Between any two of  *)
(* these sections another request may run, time may pass, a statement on   *)
(* the table may fail, the process may be killed and started again.        *)
(***************************************************************************)
EXTENDS Naturals

CONSTANTS
    Cookies,            \* values of the session cookie
    Requests,           \* goroutines that may be in flight together
    TTL,                \* configuration: AuthSessionTTL, in ticks
    TicksPerSecond,     \* resolution of time.Now against RFC 3339's seconds
    StoreFaults,        \* whether a statement on the table may fail
    MaxTime,            \* bound: the clock
    MaxRestarts         \* bound: restarts of the process

ASSUME AuthAssumption ==
    /\ TTL \in Nat
    /\ TicksPerSecond \in Nat \ {0}
    /\ StoreFaults \in BOOLEAN
    /\ MaxTime \in Nat /\ MaxRestarts \in Nat

VARIABLES
    now,                \* the clock
    sessions,           \* Manager.sessions: cookie -> ExpiresAt
    rows,               \* auth_sessions: cookie (its digest) -> expires_at
    reqs,               \* the requests in flight
    \* history
    issued,             \* cookies that were drawn -> the expiry they got
    given,              \* cookies a browser received
    leaving,            \* cookies whose logout has begun
    out,                \* cookies whose logout was answered
    erased,             \* cookies whose row a logout deleted
    buried,             \* the cookies in erased when the process last started
    restarts            \* how much of MaxRestarts is used

history == <<issued, given, leaving, out, erased, buried, restarts>>
vars == <<now, sessions, rows, reqs, history>>

PCs == {"put", "get", "fill", "in", "denied", "logout", "unstore"}

Request == [pc : PCs, cookie : Cookies, logout : BOOLEAN, expiry : Nat]

Without(f, x) == [y \in DOMAIN f \ {x} |-> f[y]]
Stored(f, x, v) == [y \in DOMAIN f \cup {x} |-> IF y = x THEN v ELSE f[y]]

Init ==
    /\ now = 0
    /\ sessions = << >> /\ rows = << >> /\ reqs = << >>
    /\ issued = << >>
    /\ given = {} /\ leaving = {} /\ out = {} /\ erased = {} /\ buried = {}
    /\ restarts = 0

At(r, pc) == r \in DOMAIN reqs /\ reqs[r].pc = pc
Goto(r, pc) == reqs' = [reqs EXCEPT ![r].pc = pc]
Reply(r) == reqs' = Without(reqs, r)

\* expires_at is written as RFC 3339, which drops the fraction of a second.
RFC3339(time) == (time \div TicksPerSecond) * TicksPerSecond

\* cleanupLocked: the entries that have expired go.
Live == [c \in {d \in DOMAIN sessions : now < sessions[d]} |-> sessions[c]]

-----------------------------------------------------------------------------
(* POST /api/auth/login, once the credentials were found good.             *)

\* The cookie is drawn and enters the map.
LoginAdds(r, c) ==
    /\ r \notin DOMAIN reqs
    /\ c \notin DOMAIN issued
    /\ issued' = Stored(issued, c, now + TTL)
    /\ sessions' = Stored(Live, c, now + TTL)
    /\ reqs' = Stored(reqs, r, [pc |-> "put", cookie |-> c, logout |-> FALSE,
                                expiry |-> now + TTL])
    /\ UNCHANGED <<now, rows, given, leaving, out, erased, buried, restarts>>

\* Mutant of LoginStores: the browser gets its cookie before the row exists.
LoginAnswersFirst(r) ==
    /\ At(r, "put")
    /\ given' = given \cup {reqs[r].cookie}
    /\ \/ rows' = rows
       \/ rows' = Stored(rows, reqs[r].cookie, RFC3339(reqs[r].expiry))
    /\ Reply(r)
    /\ UNCHANGED <<now, sessions, issued, leaving, out, erased, buried, restarts>>

\* SessionStore.Put, then the answer with the cookie.
LoginStores(r) ==
    /\ At(r, "put")
    /\ rows' = Stored(rows, reqs[r].cookie, RFC3339(reqs[r].expiry))
    /\ given' = given \cup {reqs[r].cookie}
    /\ Reply(r)
    /\ UNCHANGED <<now, sessions, issued, leaving, out, erased, buried, restarts>>

\* Put fails: 500 without a cookie.  The entry stays in the map.
LoginFails(r) ==
    /\ StoreFaults
    /\ At(r, "put")
    /\ Reply(r)
    /\ UNCHANGED <<now, sessions, rows, history>>

-----------------------------------------------------------------------------
(* Any protected request: Require and authenticate.                        *)

\* Where a request goes once authenticate has answered ok.
Admitted(logout) == IF logout THEN "logout" ELSE "in"

\* The first section of authenticate: a live entry admits the request,
\* otherwise the table is asked.
Arrives(r, c, logout) ==
    /\ r \notin DOMAIN reqs
    /\ c \in given
    /\ sessions' = Live
    /\ reqs' = Stored(reqs, r,
                      [pc |-> IF c \in DOMAIN Live THEN Admitted(logout) ELSE "get",
                       cookie |-> c, logout |-> logout, expiry |-> 0])
    /\ UNCHANGED <<now, rows, history>>

\* Mutant of Finds: a row of the table is renewed when it is read.
FindsAndRenews(r) ==
    LET c == reqs[r].cookie IN
    /\ At(r, "get")
    /\ c \in DOMAIN rows /\ now < rows[c]
    /\ reqs' = [reqs EXCEPT ![r].pc = "fill", ![r].expiry = now + TTL]
    /\ UNCHANGED <<now, sessions, rows, history>>

\* SessionStore.Get finds a row that has not expired.
Finds(r) ==
    LET c == reqs[r].cookie IN
    /\ At(r, "get")
    /\ c \in DOMAIN rows /\ now < rows[c]
    /\ reqs' = [reqs EXCEPT ![r].pc = "fill", ![r].expiry = rows[c]]
    /\ UNCHANGED <<now, sessions, rows, history>>

\* Get finds no row, or an expired one, which it deletes.
FindsNothing(r) ==
    LET c == reqs[r].cookie IN
    /\ At(r, "get")
    /\ c \in DOMAIN rows => now >= rows[c]
    /\ rows' = Without(rows, c)
    /\ Goto(r, "denied")
    /\ UNCHANGED <<now, sessions, history>>

\* Get fails: the request is turned away.
LookupFails(r) ==
    /\ StoreFaults
    /\ At(r, "get")
    /\ Reply(r)
    /\ UNCHANGED <<now, sessions, rows, history>>

\* Mutant of Fills: what was read is written back to the table as well.
FillsBoth(r) ==
    /\ At(r, "fill")
    /\ sessions' = Stored(sessions, reqs[r].cookie, reqs[r].expiry)
    /\ rows' = Stored(rows, reqs[r].cookie, reqs[r].expiry)
    /\ Goto(r, Admitted(reqs[r].logout))
    /\ UNCHANGED <<now, history>>

\* The last section of authenticate puts what it read into the map.
Fills(r) ==
    /\ At(r, "fill")
    /\ sessions' = Stored(sessions, reqs[r].cookie, reqs[r].expiry)
    /\ Goto(r, Admitted(reqs[r].logout))
    /\ UNCHANGED <<now, rows, history>>

\* The handler behind Require answers, or the 401 has been sent.
Answers(r) ==
    /\ At(r, "in") \/ At(r, "denied")
    /\ Reply(r)
    /\ UNCHANGED <<now, sessions, rows, history>>

-----------------------------------------------------------------------------
(* POST /api/auth/logout, behind Require.                                  *)

LogoutDrops(r) ==
    LET c == reqs[r].cookie IN
    /\ At(r, "logout")
    /\ sessions' = Without(sessions, c)
    /\ leaving' = leaving \cup {c}
    /\ Goto(r, "unstore")
    /\ UNCHANGED <<now, rows, issued, given, out, erased, buried, restarts>>

\* SessionStore.Delete.  The answer is ok whether or not it failed.
LogoutErases(r) ==
    LET c == reqs[r].cookie IN
    /\ At(r, "unstore")
    /\ \/ /\ rows' = Without(rows, c)
          /\ erased' = erased \cup {c}
       \/ /\ StoreFaults
          /\ UNCHANGED <<rows, erased>>
    /\ out' = out \cup {c}
    /\ Reply(r)
    /\ UNCHANGED <<now, sessions, issued, given, leaving, buried, restarts>>

-----------------------------------------------------------------------------
Tick ==
    /\ now < MaxTime
    /\ now' = now + 1
    /\ UNCHANGED <<sessions, rows, reqs, history>>

\* The process dies at any point and is started again: the map and the
\* requests are gone, the table is not.
Restart ==
    /\ restarts < MaxRestarts
    /\ restarts' = restarts + 1
    /\ sessions' = << >> /\ reqs' = << >>
    /\ buried' = erased
    /\ UNCHANGED <<now, rows, issued, given, leaving, out, erased>>

Next ==
    \/ \E r \in Requests :
        \/ \E c \in Cookies : LoginAdds(r, c)
        \/ \E c \in Cookies, logout \in BOOLEAN : Arrives(r, c, logout)
        \/ LoginStores(r) \/ LoginFails(r)
        \/ Finds(r) \/ FindsNothing(r) \/ LookupFails(r) \/ Fills(r)
        \/ Answers(r)
        \/ LogoutDrops(r) \/ LogoutErases(r)
    \/ Tick
    \/ Restart

Spec == Init /\ [][Next]_vars

-----------------------------------------------------------------------------
TypeOK ==
    /\ now \in Nat
    /\ DOMAIN sessions \subseteq Cookies
    /\ \A c \in DOMAIN sessions : sessions[c] \in Nat
    /\ DOMAIN rows \subseteq Cookies
    /\ \A c \in DOMAIN rows : rows[c] \in Nat
    /\ DOMAIN reqs \subseteq Requests
    /\ \A r \in DOMAIN reqs : reqs[r] \in Request
    /\ DOMAIN issued \subseteq Cookies
    /\ \A c \in DOMAIN issued : issued[c] \in Nat
    /\ given \subseteq Cookies /\ leaving \subseteq Cookies
    /\ out \subseteq Cookies /\ erased \subseteq Cookies
    /\ buried \subseteq Cookies
    /\ restarts \in Nat

\* A session ends no later than its login said, however often it moves between
\* the map and the table: no copy of an expiry, the one a request carries from
\* one to the other included, is later than the one the cookie was issued with
\* (auth.go:229-240, 324-337; sessionstore.go:50, 80-92).
TermsKept ==
    /\ \A c \in DOMAIN sessions : c \in DOMAIN issued /\ sessions[c] <= issued[c]
    /\ \A c \in DOMAIN rows : c \in DOMAIN issued /\ rows[c] <= issued[c]
    /\ \A r \in DOMAIN reqs :
        reqs[r].pc = "fill" =>
            /\ reqs[r].cookie \in DOMAIN issued
            /\ reqs[r].expiry <= issued[reqs[r].cookie]

\* A browser is turned away only for a reason: its logout has begun, or the
\* term of its session, cut to whole seconds as the table keeps it, is over.
\* A restart, another request's cleanup or a login in progress is none
\* (sessionstore.go:59-93, the promise of WithSessionStore, auth.go:106).
DeniedForCause ==
    \A r \in DOMAIN reqs :
        reqs[r].pc = "denied" =>
            \/ reqs[r].cookie \in leaving
            \/ now >= RFC3339(issued[reqs[r].cookie])

\* A session whose row a logout deleted before the process was last started is
\* gone for good: neither in the table, nor in the map, nor on its way there
\* (auth.go:267-275, 326-337).
LogoutOutlivesRestart ==
    \A c \in buried :
        /\ c \notin DOMAIN rows
        /\ c \notin DOMAIN sessions
        /\ \A r \in DOMAIN reqs :
            reqs[r].cookie = c => reqs[r].pc \in {"get", "denied"}

\* "HandleLogout revokes the current browser session" (auth.go:266): once a
\* logout was answered, no live entry of the map admits its cookie.
LogoutRevokes ==
    \A c \in out \cap DOMAIN sessions : now >= sessions[c]
=============================================================================
