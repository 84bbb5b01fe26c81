------------------------- MODULE AuthSessionsProofs -------------------------
(***************************************************************************)
(* Proofs about AuthSessions, for every number of cookies and requests,    *)
(* every TTL, and a table whose statements may fail.                       *)
(***************************************************************************)
EXTENDS AuthSessions, TLAPS

\* Who may hold a cookie.  The cookie a login is about to store is its own and
\* no browser has it; every other request comes from a browser.
Held ==
    /\ given \subseteq DOMAIN issued
    /\ leaving \subseteq given /\ erased \subseteq leaving /\ buried \subseteq erased
    /\ \A r \in DOMAIN reqs :
        /\ reqs[r].cookie \in DOMAIN issued
        /\ reqs[r].pc # "put" => reqs[r].cookie \in given
        /\ reqs[r].pc = "unstore" => reqs[r].cookie \in leaving
        /\ reqs[r].pc = "put" => /\ reqs[r].cookie \notin given
                                 /\ reqs[r].expiry = issued[reqs[r].cookie]
    /\ \A r, q \in DOMAIN reqs :
        reqs[r].pc = "put" /\ reqs[q].pc = "put" /\ reqs[r].cookie = reqs[q].cookie
            => r = q

\* What the table holds: the issued terms cut to seconds, a row for every
\* browser that neither left nor ran out of time, none that a logout erased.
TableKept ==
    /\ \A c \in DOMAIN rows : c \in given /\ rows[c] = RFC3339(issued[c])
    /\ \A c \in given \ leaving :
        c \in DOMAIN rows \/ now >= RFC3339(issued[c])
    /\ erased \cap DOMAIN rows = {}

IInv ==
    /\ TypeOK
    /\ TermsKept
    /\ Held
    /\ TableKept
    /\ DeniedForCause
    /\ LogoutOutlivesRestart

\* Cutting a time to whole seconds gives an earlier time.
LEMMA SecondsAreEarlier ==
    ASSUME NEW t \in Nat
    PROVE  RFC3339(t) \in Nat /\ RFC3339(t) <= t
<1> DEFINE k == TicksPerSecond
<1>1. k \in Nat \ {0} /\ t \div k \in Nat
  BY AuthAssumption
<1>2. t % k \in Nat /\ t = k * (t \div k) + (t % k)
  BY <1>1
<1>3. k * (t \div k) = (t \div k) * k /\ k * (t \div k) \in Nat
  BY <1>1
<1>4. k * (t \div k) <= t
  BY <1>1, <1>2, <1>3
<1> QED
  BY <1>3, <1>4 DEF RFC3339

LEMMA InitInv == Init => IInv
BY DEF Init, IInv, TypeOK, TermsKept, Held, TableKept, DeniedForCause,
       LogoutOutlivesRestart

LEMMA LoginAddsKeeps ==
    ASSUME IInv, NEW r \in Requests, NEW c \in Cookies, LoginAdds(r, c)
    PROVE  IInv'
<1>1. TypeOK'
  BY AuthAssumption DEF IInv, TypeOK, Request, PCs, Stored, Live, LoginAdds
<1>2. TermsKept'
  BY AuthAssumption DEF IInv, TypeOK, TermsKept, Stored, Live, LoginAdds
<1>3. Held'
  BY DEF IInv, Held, Stored, LoginAdds
<1>4. TableKept'
  BY DEF IInv, Held, TableKept, Stored, LoginAdds
<1>5. DeniedForCause'
  BY DEF IInv, Held, DeniedForCause, Stored, LoginAdds
<1>6. LogoutOutlivesRestart'
  BY DEF IInv, Held, LogoutOutlivesRestart, Stored, Live, LoginAdds
<1> QED
  BY <1>1, <1>2, <1>3, <1>4, <1>5, <1>6 DEF IInv

LEMMA LoginStoresKeeps ==
    ASSUME IInv, NEW r \in Requests, LoginStores(r)
    PROVE  IInv'
<1>1. TypeOK'
  BY SecondsAreEarlier
     DEF IInv, TypeOK, Held, At, Reply, Without, Stored, LoginStores
<1>2. TermsKept'
  BY SecondsAreEarlier
     DEF IInv, TypeOK, TermsKept, Held, At, Reply, Without, Stored, LoginStores
<1>3. Held'
  BY DEF IInv, Held, At, Reply, Without, LoginStores
<1>4. TableKept'
  BY DEF IInv, Held, TableKept, At, Stored, LoginStores
<1>5. DeniedForCause'
  BY DEF IInv, DeniedForCause, Reply, Without, LoginStores
<1>6. LogoutOutlivesRestart'
  BY DEF IInv, LogoutOutlivesRestart, At, Reply, Without, Stored, LoginStores
<1> QED
  BY <1>1, <1>2, <1>3, <1>4, <1>5, <1>6 DEF IInv

LEMMA LoginFailsKeeps ==
    ASSUME IInv, NEW r \in Requests, LoginFails(r)
    PROVE  IInv'
<1>1. TypeOK'
  BY DEF IInv, TypeOK, Reply, Without, history, LoginFails
<1>2. TermsKept'
  BY DEF IInv, TermsKept, Reply, Without, history, LoginFails
<1>3. Held'
  BY DEF IInv, Held, Reply, Without, history, LoginFails
<1>4. TableKept'
  BY DEF IInv, TableKept, history, LoginFails
<1>5. DeniedForCause'
  BY DEF IInv, DeniedForCause, Reply, Without, history, LoginFails
<1>6. LogoutOutlivesRestart'
  BY DEF IInv, LogoutOutlivesRestart, Reply, Without, history, LoginFails
<1> QED
  BY <1>1, <1>2, <1>3, <1>4, <1>5, <1>6 DEF IInv

LEMMA ArrivesKeeps ==
    ASSUME IInv, NEW r \in Requests, NEW c \in Cookies, NEW logout \in BOOLEAN, Arrives(r, c, logout)
    PROVE  IInv'
<1>1. TypeOK'
  BY DEF IInv, TypeOK, Request, PCs, Stored, Live, Admitted, history, Arrives
<1>2. TermsKept'
  BY DEF IInv, TermsKept, Stored, Live, Admitted, history, Arrives
<1>3. Held'
  BY DEF IInv, Held, Stored, Admitted, history, Arrives
<1>4. TableKept'
  BY DEF IInv, TableKept, history, Arrives
<1>5. DeniedForCause'
  BY DEF IInv, DeniedForCause, Stored, Admitted, history, Arrives
<1>6. LogoutOutlivesRestart'
  BY DEF IInv, LogoutOutlivesRestart, Stored, Live, history, Arrives
<1> QED
  BY <1>1, <1>2, <1>3, <1>4, <1>5, <1>6 DEF IInv

LEMMA FindsKeeps ==
    ASSUME IInv, NEW r \in Requests, Finds(r)
    PROVE  IInv'
<1>1. TypeOK'
  BY DEF IInv, TypeOK, Request, PCs, history, Finds
<1>2. TermsKept'
  BY DEF IInv, TermsKept, history, Finds
<1>3. Held'
  BY DEF IInv, Held, At, history, Finds
<1>4. TableKept'
  BY DEF IInv, TableKept, history, Finds
<1>5. DeniedForCause'
  BY DEF IInv, DeniedForCause, history, Finds
<1>6. LogoutOutlivesRestart'
  BY DEF IInv, LogoutOutlivesRestart, history, Finds
<1> QED
  BY <1>1, <1>2, <1>3, <1>4, <1>5, <1>6 DEF IInv

LEMMA FindsNothingKeeps ==
    ASSUME IInv, NEW r \in Requests, FindsNothing(r)
    PROVE  IInv'
<1>1. TypeOK'
  BY DEF IInv, TypeOK, Request, PCs, Goto, Without, history, FindsNothing
<1>2. TermsKept'
  BY DEF IInv, TermsKept, Goto, Without, history, FindsNothing
<1>3. Held'
  BY DEF IInv, Held, At, Goto, history, FindsNothing
<1>4. TableKept'
  BY DEF IInv, TableKept, Without, history, FindsNothing
<1>5. DeniedForCause'
  BY DEF IInv, Held, TableKept, DeniedForCause, At, Goto, history, FindsNothing
<1>6. LogoutOutlivesRestart'
  BY DEF IInv, LogoutOutlivesRestart, Goto, Without, history, FindsNothing
<1> QED
  BY <1>1, <1>2, <1>3, <1>4, <1>5, <1>6 DEF IInv

LEMMA LookupFailsKeeps ==
    ASSUME IInv, NEW r \in Requests, LookupFails(r)
    PROVE  IInv'
<1>1. TypeOK'
  BY DEF IInv, TypeOK, Reply, Without, history, LookupFails
<1>2. TermsKept'
  BY DEF IInv, TermsKept, Reply, Without, history, LookupFails
<1>3. Held'
  BY DEF IInv, Held, Reply, Without, history, LookupFails
<1>4. TableKept'
  BY DEF IInv, TableKept, history, LookupFails
<1>5. DeniedForCause'
  BY DEF IInv, DeniedForCause, Reply, Without, history, LookupFails
<1>6. LogoutOutlivesRestart'
  BY DEF IInv, LogoutOutlivesRestart, Reply, Without, history, LookupFails
<1> QED
  BY <1>1, <1>2, <1>3, <1>4, <1>5, <1>6 DEF IInv

LEMMA FillsKeeps ==
    ASSUME IInv, NEW r \in Requests, Fills(r)
    PROVE  IInv'
<1>1. TypeOK'
  BY DEF IInv, TypeOK, Request, PCs, At, Goto, Stored, Admitted, history, Fills
<1>2. TermsKept'
  BY DEF IInv, TermsKept, At, Goto, Stored, history, Fills
<1>3. Held'
  BY DEF IInv, Held, At, Goto, Admitted, history, Fills
<1>4. TableKept'
  BY DEF IInv, TableKept, history, Fills
<1>5. DeniedForCause'
  BY DEF IInv, DeniedForCause, Goto, Admitted, history, Fills
<1>6. LogoutOutlivesRestart'
  BY DEF IInv, LogoutOutlivesRestart, At, Goto, Stored, history, Fills
<1> QED
  BY <1>1, <1>2, <1>3, <1>4, <1>5, <1>6 DEF IInv

LEMMA AnswersKeeps ==
    ASSUME IInv, NEW r \in Requests, Answers(r)
    PROVE  IInv'
<1>1. TypeOK'
  BY DEF IInv, TypeOK, Reply, Without, history, Answers
<1>2. TermsKept'
  BY DEF IInv, TermsKept, Reply, Without, history, Answers
<1>3. Held'
  BY DEF IInv, Held, Reply, Without, history, Answers
<1>4. TableKept'
  BY DEF IInv, TableKept, history, Answers
<1>5. DeniedForCause'
  BY DEF IInv, DeniedForCause, Reply, Without, history, Answers
<1>6. LogoutOutlivesRestart'
  BY DEF IInv, LogoutOutlivesRestart, Reply, Without, history, Answers
<1> QED
  BY <1>1, <1>2, <1>3, <1>4, <1>5, <1>6 DEF IInv

LEMMA LogoutDropsKeeps ==
    ASSUME IInv, NEW r \in Requests, LogoutDrops(r)
    PROVE  IInv'
<1>1. TypeOK'
  BY DEF IInv, TypeOK, Request, PCs, At, Goto, Without, LogoutDrops
<1>2. TermsKept'
  BY DEF IInv, TermsKept, Goto, Without, LogoutDrops
<1>3. Held'
  BY DEF IInv, Held, At, Goto, LogoutDrops
<1>4. TableKept'
  BY DEF IInv, TableKept, LogoutDrops
<1>5. DeniedForCause'
  BY DEF IInv, DeniedForCause, Goto, LogoutDrops
<1>6. LogoutOutlivesRestart'
  BY DEF IInv, LogoutOutlivesRestart, At, Goto, Without, LogoutDrops
<1> QED
  BY <1>1, <1>2, <1>3, <1>4, <1>5, <1>6 DEF IInv

LEMMA LogoutErasesKeeps ==
    ASSUME IInv, NEW r \in Requests, LogoutErases(r)
    PROVE  IInv'
<1>1. TypeOK'
  BY DEF IInv, TypeOK, Held, At, Reply, Without, LogoutErases
<1>2. TermsKept'
  BY DEF IInv, TermsKept, Reply, Without, LogoutErases
<1>3. Held'
  BY DEF IInv, Held, At, Reply, Without, LogoutErases
<1>4. TableKept'
  BY DEF IInv, Held, TableKept, At, Without, LogoutErases
<1>5. DeniedForCause'
  BY DEF IInv, DeniedForCause, Reply, Without, LogoutErases
<1>6. LogoutOutlivesRestart'
  BY DEF IInv, LogoutOutlivesRestart, Reply, Without, LogoutErases
<1> QED
  BY <1>1, <1>2, <1>3, <1>4, <1>5, <1>6 DEF IInv

LEMMA TickKeeps ==
    ASSUME IInv, Tick
    PROVE  IInv'
<1>1. TypeOK'
  BY DEF IInv, TypeOK, history, Tick
<1>2. TermsKept'
  BY DEF IInv, TermsKept, history, Tick
<1>3. Held'
  BY DEF IInv, Held, history, Tick
<1>4. TableKept'
  BY SecondsAreEarlier DEF IInv, TypeOK, Held, TableKept, history, Tick
<1>5. DeniedForCause'
  BY SecondsAreEarlier DEF IInv, TypeOK, Held, DeniedForCause, history, Tick
<1>6. LogoutOutlivesRestart'
  BY DEF IInv, LogoutOutlivesRestart, history, Tick
<1> QED
  BY <1>1, <1>2, <1>3, <1>4, <1>5, <1>6 DEF IInv

LEMMA RestartKeeps ==
    ASSUME IInv, Restart
    PROVE  IInv'
<1>1. TypeOK'
  BY DEF IInv, TypeOK, Restart
<1>2. TermsKept'
  BY DEF IInv, TermsKept, Restart
<1>3. Held'
  BY DEF IInv, Held, Restart
<1>4. TableKept'
  BY DEF IInv, TableKept, Restart
<1>5. DeniedForCause'
  BY DEF DeniedForCause, Restart
<1>6. LogoutOutlivesRestart'
  BY DEF IInv, TableKept, LogoutOutlivesRestart, Restart
<1> QED
  BY <1>1, <1>2, <1>3, <1>4, <1>5, <1>6 DEF IInv

LEMMA StutterKeeps ==
    ASSUME IInv, UNCHANGED vars
    PROVE  IInv'
BY DEF vars, history, IInv, TypeOK, TermsKept, Held, TableKept, DeniedForCause,
       LogoutOutlivesRestart, RFC3339

LEMMA NextKeeps == IInv /\ [Next]_vars => IInv'
<1> SUFFICES ASSUME IInv, [Next]_vars
             PROVE  IInv'
  OBVIOUS
<1>1. ASSUME NEW r \in Requests, NEW c \in Cookies, LoginAdds(r, c)
      PROVE  IInv'
  BY <1>1, LoginAddsKeeps
<1>2. ASSUME NEW r \in Requests, NEW c \in Cookies, NEW logout \in BOOLEAN,
             Arrives(r, c, logout)
      PROVE  IInv'
  BY <1>2, ArrivesKeeps
<1>3. ASSUME NEW r \in Requests, LoginStores(r) \/ LoginFails(r)
      PROVE  IInv'
  BY <1>3, LoginStoresKeeps, LoginFailsKeeps
<1>4. ASSUME NEW r \in Requests,
             Finds(r) \/ FindsNothing(r) \/ LookupFails(r) \/ Fills(r)
      PROVE  IInv'
  BY <1>4, FindsKeeps, FindsNothingKeeps, LookupFailsKeeps, FillsKeeps
<1>5. ASSUME NEW r \in Requests, Answers(r) \/ LogoutDrops(r) \/ LogoutErases(r)
      PROVE  IInv'
  BY <1>5, AnswersKeeps, LogoutDropsKeeps, LogoutErasesKeeps
<1>6. CASE Tick
  BY <1>6, TickKeeps
<1>7. CASE Restart
  BY <1>7, RestartKeeps
<1>8. CASE UNCHANGED vars
  BY <1>8, StutterKeeps
<1> QED
  BY <1>1, <1>2, <1>3, <1>4, <1>5, <1>6, <1>7, <1>8 DEF Next

\* In every behaviour the map, the table, the requests and the browsers agree
\* as IInv says (auth.go, sessionstore.go).
THEOREM Agreement == Spec => []IInv
<1>1. IInv /\ [Next]_vars => IInv'
  BY NextKeeps
<1> QED
  BY InitInv, <1>1, PTL DEF Spec

\* Every variable keeps its type.
THEOREM TypesKept == Spec => []TypeOK
BY Agreement, PTL DEF IInv

\* No copy of a session outlives the term its login gave it.
THEOREM TermsAreKept == Spec => []TermsKept
BY Agreement, PTL DEF IInv

\* A browser that did not log out is let in until its term, cut to seconds, is
\* over, across any number of restarts.
THEOREM DenialsHaveCause == Spec => []DeniedForCause
BY Agreement, PTL DEF IInv

\* A logout that reached the table is final from the next start on.
THEOREM LogoutIsFinal == Spec => []LogoutOutlivesRestart
BY Agreement, PTL DEF IInv
=============================================================================
