------------------------- MODULE VoiceServiceListed -------------------------
(***************************************************************************)
(* What the listing of call sessions says of the bindings in memory.  A    *)
(* report of a conversation that comes after hang-up or expiry makes the   *)
(* row of its session active again without a binding (store.go:182); a     *)
(* history variable remembers those sessions until they are bound again.   *)
(***************************************************************************)
EXTENDS VoiceServiceInv

VARIABLE late       \* sessions whose row a report made active without a binding

ReportsLate(r) == r \in DOMAIN reqs /\ ContextPut(r)

ListedInit == Init /\ late = {}

ListedNext ==
    /\ Next
    /\ late' = (late \ DOMAIN bindings')
                   \cup {reqs[r].sid : r \in {q \in Requests : ReportsLate(q)}}

ListedSpec == ListedInit /\ [][ListedNext]_<<vars, late>>

\* Between the requests for a session, its row says "active" only while its
\* binding is in memory, but for a report that came late: call_sessions does not
\* remain "active" after the binding is reaped by TTL (service.go:182-183),
\* released or lost in a restart (store.go:211-212).
ListedIsBound ==
    \A s \in DOMAIN rows :
        Idle(s) /\ rows[s].status = "active" => s \in DOMAIN bindings \cup late

-----------------------------------------------------------------------------
(* The inductive invariant: as long as the requests for one session follow *)
(* one another, what each of them knows of the binding and the row of its  *)
(* session.                                                                *)

OneAtATime ==
    \A r1, r2 \in DOMAIN reqs :
        reqs[r1].sid = reqs[r2].sid /\ reqs[r1].sid # None => r1 = r2

\* A binding that was just written and whose row is still to follow.
Unwritten == {"reread", "persist", "sync"}

Matches(s) ==
    /\ s \in DOMAIN rows
    /\ rows[s].status = "active"
    /\ rows[s].account = bindings[s].account
    /\ rows[s].conv = bindings[s].conv

\* What a request for a session knows of its binding.
HoldsBinding(q) ==
    /\ q.pc \in Unwritten =>
        /\ q.sid \in DOMAIN bindings
        /\ bindings[q.sid].owner = q.owner
        /\ ~bindings[q.sid].expired
        /\ q.pc = "sync" => bindings[q.sid].account = q.acct
        /\ q.pc # "sync" => bindings[q.sid].account = q.use
        /\ q.pc # "reread" => bindings[q.sid].conv = q.conv
    /\ q.pc \in {"ctxget", "ctxput"} => q.sid \notin DOMAIN bindings
    /\ q.pc = "unlist" /\ q.sid \in DOMAIN bindings
        => bindings[q.sid].owner # q.owner

\* What it knows of its row: no conversation is in the row that the request
\* would not write.
HoldsRow(q) ==
    q.sid \in DOMAIN rows \ erased =>
        /\ q.op = "dial" /\ q.pc \in Picking /\ q.conv = None => rows[q.sid].conv = None
        /\ q.pc \in Unwritten /\ bindings[q.sid].conv = None => rows[q.sid].conv = None

\* A report finds the row of a live binding.
HasRow(q) == q.pc = "sync" /\ q.sid \notin erased => q.sid \in DOMAIN rows

RequestListed(q) == q.sid # None => HoldsBinding(q) /\ HoldsRow(q) /\ HasRow(q)

BindingListed(s) ==
    s \notin erased =>
        \/ Matches(s)
        \/ \E r \in DOMAIN reqs : reqs[r].sid = s /\ reqs[r].pc \in Unwritten

Listing ==
    /\ \A r \in DOMAIN reqs : RequestListed(reqs[r])
    /\ \A s \in DOMAIN bindings : BindingListed(s)

\* A row says "active" for a binding, for a late report, or until the request
\* that took its binding away has released it.
RowBound(s) ==
    rows[s].status = "active" =>
        \/ s \in DOMAIN bindings \cup late
        \/ \E r \in DOMAIN reqs : /\ reqs[r].sid = s /\ reqs[r].pc = "unlist"
                                  /\ reqs[r].owner = rows[s].owner

RowsBound == \A s \in DOMAIN rows : RowBound(s)
=============================================================================
