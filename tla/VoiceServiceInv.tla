--------------------------- MODULE VoiceServiceInv --------------------------
(***************************************************************************)
(* The inductive invariant of the voice gateway: what must hold of every   *)
(* binding, row, request and answer, between any two steps, for a session  *)
(* to keep its owner and its user.                                         *)
(***************************************************************************)
EXTENDS VoiceService

\* Account id a was handed out, and as long as it exists its token is one of
\* user u.  A deleted id leads nowhere: AUTOINCREMENT never hands it out again.
Leads(a, u) ==
    /\ a \in 1..(nextId - 1)
    /\ a \in DOMAIN accounts => UserOf[accounts[a].token] = u

\* The conversations that may go with user u: his, and those nobody knows whose.
GoesWith(u) == {None, u} \cup Legacy

BindingOK(s, b) ==
    /\ b.owner = minted[s]
    /\ s \in DOMAIN home
    /\ UserOf[b.token] = home[s]
    /\ Leads(b.account, home[s])
    /\ b.conv \in GoesWith(home[s])

RowOK(s, row) ==
    /\ row.owner = minted[s]
    /\ s \in DOMAIN home
    /\ Leads(row.account, home[s])
    /\ row.conv \in GoesWith(home[s])

FactOK(k) ==
    /\ k.sid \in DOMAIN home
    /\ k.owner = minted[k.sid]
    /\ k.user = home[k.sid]
    /\ Leads(k.acct, k.user)
    /\ k.sid \notin erased => k.sid \in DOMAIN rows

-----------------------------------------------------------------------------
(* Requests: what a request knows at each pc.                              *)

Trying == {"post", "mark", "bind"}          \* a dial that has picked an account
Picking == {"pick", "pickid"} \cup Trying
Stored == {"reread", "persist"}             \* a dial that is bound
Recording == {"ctx", "sync", "ctxget", "ctxput"}

\* The pcs a request of each kind can be at.
PcFits(q) ==
    /\ q.op = "dial" => q.pc \in Picking \cup Stored \cup
                                 {"bound", "lookup", "drop", "unlist"}
    /\ q.op = "title" => q.pc \in Recording \cup
                                  {"bound", "lookup", "pickid", "post", "mark"}
    /\ q.op = "context" => q.pc \in Recording
    /\ q.op = "release" => q.pc \in {"drop", "unlist"}
    /\ q.op = "upload" => q.pc \in {"bound", "post", "mark"}
    /\ q.op = "probe" => q.pc \in {"post", "mark"}
    /\ q.new => q.op = "dial" /\ q.pc \in Picking \cup Stored

SessionOK(q) ==
    q.op # "probe" =>
        /\ q.sid \in DOMAIN minted
        /\ q.owner \in Owners
        /\ ~q.new => q.sid \in DOMAIN home

\* A token is in use, and a 401 for it was really received.
TokenOK(q) ==
    /\ q.pc \in {"post", "mark"} => q.tok \in Tokens
    /\ q.pc = "mark" => q.tok \in rejected

\* A dial past its checks is its owner's and has picked what it says it has.
DialOK(q) ==
    q.op = "dial" =>
        /\ q.pc \in Picking \cup Stored => q.owner = minted[q.sid]
        /\ q.pc \in Trying \cup Stored =>
              q.tok \in Tokens /\ Leads(q.use, UserOf[q.tok])
        /\ q.pc = "pick" /\ q.btok = None => q.acct = 0
        /\ q.pc \in Stored =>
              /\ q.sid \in DOMAIN home
              /\ UserOf[q.tok] = home[q.sid]
              /\ q.conv \in GoesWith(home[q.sid])

\* A re-dial aims at the user of its session.
DialAgainOK(q) ==
    q.op = "dial" /\ ~q.new =>
        /\ q.conv \in GoesWith(home[q.sid])
        /\ q.acct = 0 \/ Leads(q.acct, home[q.sid])
        /\ q.btok = None \/ UserOf[q.btok] = home[q.sid]
        /\ q.pc \in Picking => Sticky(q)
        /\ q.pc \in Trying => UserOf[q.tok] = home[q.sid]

\* The first dial of a session has no binding; a conversation the voice page
\* sends with it comes with the account that leads to its user, unless nobody
\* knows whose it is.
DialNewOK(q) ==
    q.op = "dial" /\ q.new =>
        /\ q.btok = None
        /\ q.pc \in Picking /\ q.conv \in Users => Leads(q.acct, q.conv)
        /\ q.pc \in Trying /\ q.conv \in Users => UserOf[q.tok] = q.conv

TitleOK(q) ==
    q.op = "title" =>
        /\ q.conv \in GoesWith(home[q.sid])
        /\ q.stored \in GoesWith(home[q.sid])
        /\ q.pc = "pickid" => Leads(q.acct, home[q.sid])
        /\ q.pc \in Recording \cup {"post", "mark"} =>
              q.tok \in Tokens /\ UserOf[q.tok] = home[q.sid]

ContextOK(q) ==
    q.op \in {"title", "context"} =>
        /\ q.conv \in GoesWith(home[q.sid])
        /\ q.pc \in {"sync", "ctxput"} => Leads(q.acct, home[q.sid])

\* A dial counts the tokens it has tried; one that must stay with its account,
\* or carries a conversation, tries once.
AttemptsOK(q) ==
    q.op = "dial" =>
        /\ IsFiniteSet(q.excluded)
        /\ q.tries = Cardinality(q.excluded)
        /\ q.pc \in {"bound", "lookup", "pickid"} => q.tries = 0
        /\ q.pc = "pick" => q.tries < MaxAccountAttempts
        /\ q.pc = "pick" /\ Sticky(q) => q.tries = 0
        /\ Sticky(q) => q.tries <= 1
        /\ q.pc = "pick" /\ q.conv # None => q.tries = 0
        /\ q.pc = "post" /\ q.conv # None => q.tries = 1

RequestOK(q) ==
    /\ PcFits(q)
    /\ SessionOK(q)
    /\ TokenOK(q)
    /\ DialOK(q)
    /\ DialAgainOK(q)
    /\ DialNewOK(q)
    /\ TitleOK(q)
    /\ ContextOK(q)
    /\ AttemptsOK(q)

\* The id of a first dial that is not bound yet is nobody else's.
Unborn(q) == q.new /\ q.pc \in Picking

FreshIds ==
    /\ \A r \in DOMAIN reqs : Unborn(reqs[r]) => reqs[r].sid \notin DOMAIN home
    /\ \A r1, r2 \in DOMAIN reqs :
          Unborn(reqs[r1]) /\ Unborn(reqs[r2]) /\ reqs[r1].sid = reqs[r2].sid
              => r1 = r2

Safe ==
    /\ TypeOK
    /\ \A s \in DOMAIN bindings : BindingOK(s, bindings[s])
    /\ \A s \in DOMAIN rows : RowOK(s, rows[s])
    /\ \A k \in known : FactOK(k)
    /\ \A r \in DOMAIN reqs : RequestOK(reqs[r])
    /\ FreshIds
=============================================================================
