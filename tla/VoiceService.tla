---------------------------- MODULE VoiceService ----------------------------
(***************************************************************************)
(* The voice gateway (internal/voice): requests that dial, re-dial, keep   *)
(* alive, rename and release voice sessions, over the account pool and the *)
(* durable call_sessions table.                                            *)
(*                                                                         *)
(* Each HTTP request runs in a goroutine of its own.  A request is a       *)
(* record in reqs; its pc names the next section it will execute.  One     *)
(* action is one critical section (Service.mu or store.DB.mu) or the       *)
(* answer of the upstream; between two of them any other request may run,  *)
(* bindings may pass their TTL, the administrator may edit, the process    *)
(* may be restarted.                                                       *)
(***************************************************************************)
EXTENDS AccountTable, CallSessionTable, Sequences, FiniteSets

CONSTANTS
    AdminOwners,        \* the owners that dial from the voice page
    UserOf,             \* the chatgpt.com user each access token belongs to
    Legacy,             \* conversations saved without the account they are of
    Requests,           \* goroutines that may be in flight together
    Seeded,             \* tokens of the accounts that exist at the start
    Kinds,              \* bound: the operations clients call
    MaxAccountAttempts, \* configuration: accounts one dial may try
    MaxAccounts,        \* bound: account ids handed out
    MaxOps,             \* bound: requests
    MaxEdits            \* bound: administrator's edits and restarts

AllKinds == {"dial", "context", "title", "release", "upload", "probe"}

\* A conversation belongs to the user whose account created it, and is only
\* valid for that user (service.go:993-994): a user names his conversations.  A
\* legacy one is some user's too, but nothing the gateway keeps says whose: the
\* page's row of it is older than the column account_id (schema.go:141-151).
Users == Conversations \ Legacy

ASSUME ServiceAssumption ==
    /\ AdminOwners \subseteq Owners
    /\ Legacy \subseteq Conversations
    /\ UserOf \in [Tokens -> Users]
    /\ None \notin Owners \cup Sessions \cup Conversations \cup Tokens
    /\ Seeded \in Seq(Tokens)
    /\ \A i, j \in DOMAIN Seeded : Seeded[i] = Seeded[j] => i = j
    /\ Kinds \subseteq AllKinds
    /\ MaxAccountAttempts \in Nat \ {0}
    /\ MaxAccounts \in Nat /\ Len(Seeded) <= MaxAccounts
    /\ MaxOps \in Nat /\ MaxEdits \in Nat

VARIABLES
    accounts, nextId,   \* the accounts table and its AUTOINCREMENT counter
    bindings,           \* Service.bindings: session id -> live binding
    rows,               \* the call_sessions table
    reqs,               \* the requests in flight
    \* history
    minted,             \* the owner each session id was made for
    home,               \* the user whose account each session first reached
    known,              \* what clients were told in answers to their dials
    erased,             \* rows the administrator deleted
    rejected,           \* tokens the upstream answered 401 for
    ops, edits          \* how much of MaxOps and MaxEdits is used

stores == <<accounts, nextId, bindings, rows>>
history == <<minted, home, known, erased, rejected>>
vars == <<stores, reqs, history, ops, edits>>

Binding == [owner : Owners, account : Nat, token : Tokens,
            conv : Conversations \cup {None}, expired : BOOLEAN]

PCs == {"bound", "lookup", "pick", "pickid", "post", "mark", "bind", "reread",
        "persist", "ctx", "sync", "ctxget", "ctxput", "drop", "unlist"}

Request ==
    [op       : AllKinds,
     pc       : PCs,
     owner    : Owners \cup {None},
     sid      : Sessions \cup {None},
     new      : BOOLEAN,                \* no voice_session_id was given
     acct     : Nat,                    \* preferredAccountID; 0 is none
     conv     : Conversations \cup {None},  \* the conversation to continue
     stored   : Conversations \cup {None},  \* title: what the session had stored
     btok     : Tokens \cup {None},     \* dial: the token of the binding found
     tok      : Tokens \cup {None},     \* the token in use
     use      : Nat,                    \* dial: the account in use
     tries    : 0..MaxAccountAttempts,  \* dial: accounts tried
     excluded : SUBSET Tokens]          \* dial: their tokens

Fact == [owner : Owners, sid : Sessions, acct : Nat, user : Users]

Init ==
    /\ accounts = [i \in DOMAIN Seeded |-> Normalized(Seeded[i], "", FALSE, FALSE)]
    /\ nextId = Len(Seeded) + 1
    /\ bindings = << >>
    /\ rows = << >>
    /\ reqs = << >>
    /\ minted = << >>
    /\ home = << >>
    /\ known = {}
    /\ erased = {}
    /\ rejected = {}
    /\ ops = 0
    /\ edits = 0

-----------------------------------------------------------------------------
(* How a request moves on.                                                 *)

At(r, pc) == r \in DOMAIN reqs /\ reqs[r].pc = pc

Goto(r, q) == reqs' = [reqs EXCEPT ![r] = q]

\* The handler returns; whether with a result or an error, the request is gone.
Reply(r) == reqs' = Without(reqs, r)

Begin(r, q) ==
    /\ r \notin DOMAIN reqs
    /\ q.op \in Kinds
    /\ ops < MaxOps
    /\ ops' = ops + 1
    /\ reqs' = Inserted(reqs, r, q)

NewRequest(op, pc, owner, sid, conv) ==
    [op |-> op, pc |-> pc, owner |-> owner, sid |-> sid, new |-> FALSE,
     acct |-> 0, conv |-> conv, stored |-> None, btok |-> None, tok |-> None,
     use |-> 0, tries |-> 0, excluded |-> {}]

-----------------------------------------------------------------------------
(* Requests arrive.  Clients use session ids some client was told of; the  *)
(* voice page also sends back the account and the conversation it keeps    *)
(* with a session (voice.html:4692-4707), which may be a legacy one.       *)

KnownSids == {k.sid : k \in known}

\* Facts(o, s): what owner o was told of session s.
Facts(o, s) == {k \in known : k.owner = o /\ k.sid = s}

\* The legacy conversations a caller may name: only the page keeps any.
Kept(o) == IF o \in AdminOwners THEN Legacy ELSE {}

\* What a client that reports or renames may name: the conversation of its call.
NamedBy(o, s) == {None} \cup {k.user : k \in Facts(o, s)} \cup Kept(o)

\* A dial without a session id.  newVoiceSessionID draws a fresh one when the
\* call is bound; nobody sees it before, so it is drawn here.  The page sends a
\* legacy conversation with account 0.
DialNew(r, o, s, a, c) ==
    /\ s \notin DOMAIN minted
    /\ \/ a = 0 /\ c \in {None} \cup Kept(o)
       \/ /\ o \in AdminOwners
          /\ \E k \in known :
                k.owner = o /\ a = k.acct /\ c \in {None, k.user} \cup Legacy
    /\ Begin(r, [NewRequest("dial", IF a > 0 THEN "pickid" ELSE "pick", o, s, c)
                    EXCEPT !.new = TRUE, !.acct = a])
    /\ minted' = Inserted(minted, s, o)
    /\ UNCHANGED <<stores, home, known, erased, rejected, edits>>

\* A dial with a session id.  The public API has no account and conversation.
DialAgain(r, o, s, a, c) ==
    /\ s \in KnownSids
    /\ \/ a = 0 /\ c = None
       \/ /\ o \in AdminOwners
          /\ \E k \in Facts(o, s) :
                a \in {0, k.acct} /\ c \in {None, k.user} \cup Legacy
    /\ Begin(r, [NewRequest("dial", "bound", o, s, c) EXCEPT !.acct = a])
    /\ UNCHANGED <<stores, history, edits>>

Context(r, o, s, c) ==
    /\ s \in KnownSids
    /\ c \in NamedBy(o, s)
    /\ Begin(r, NewRequest("context", "ctx", o, s, c))
    /\ UNCHANGED <<stores, history, edits>>

Title(r, o, s, c) ==
    /\ s \in KnownSids
    /\ c \in NamedBy(o, s)
    /\ Begin(r, NewRequest("title", "bound", o, s, c))
    /\ UNCHANGED <<stores, history, edits>>

Release(r, o, s) ==
    /\ s \in KnownSids
    /\ Begin(r, NewRequest("release", "drop", o, s, None))
    /\ UNCHANGED <<stores, history, edits>>

\* CreateImageUploadCredential and CompleteImageUpload.
Upload(r, o, s) ==
    /\ s \in KnownSids
    /\ Begin(r, NewRequest("upload", "bound", o, s, None))
    /\ UNCHANGED <<stores, history, edits>>

\* ProbeAccountToken: the account is read, then settings/user asked.
Probe(r, i) ==
    /\ i \in DOMAIN accounts
    /\ Begin(r, [NewRequest("probe", "post", None, None, None)
                    EXCEPT !.tok = accounts[i].token])
    /\ UNCHANGED <<stores, history, edits>>

-----------------------------------------------------------------------------
(* The bindings.  cleanupBindingsLocked deletes the bindings past their    *)
(* TTL and, still under Service.mu, marks their rows released; the other   *)
(* sections under store.DB.mu never look at bindings, so the two are one   *)
(* step.                                                                   *)

Expired == {s \in DOMAIN bindings : bindings[s].expired}

Live == [s \in DOMAIN bindings \ Expired |-> bindings[s]]

\* Mutants of ReapedRows: the rows of reaped bindings are left alone, or deleted.
RowsLeft == rows
RowsDropped == [s \in DOMAIN rows \ Expired |-> rows[s]]

ReapedRows ==
    [s \in DOMAIN rows |->
        IF s \in Expired /\ rows[s].owner = bindings[s].owner
        THEN ReleasedRow(rows[s]) ELSE rows[s]]

Refreshed(s) == [Live EXCEPT ![s].expired = FALSE]

BoundTo(s, o) == s \in DOMAIN Live /\ Live[s].owner = o
BoundToOther(s, o) == s \in DOMAIN Live /\ Live[s].owner # o

\* A title is fetched with token tok for the conversation the client names, or
\* else the stored one; one that is not stored yet is recorded first.
AimTitle(r, tok, stored) ==
    LET q == reqs[r]
        conv == Merged(stored, q.conv)
    IN  \/ conv = None /\ Reply(r)
        \/ /\ conv # None
           /\ Goto(r, [q EXCEPT !.tok = tok, !.conv = conv,
                                !.pc = IF conv = stored THEN "post" ELSE "ctx"])

\* boundVoiceSession, as the first step of a dial, a title or an upload.
BoundElsewhere(r) ==
    /\ At(r, "bound")
    /\ BoundToOther(reqs[r].sid, reqs[r].owner)
    /\ bindings' = Live
    /\ rows' = ReapedRows
    /\ Reply(r)
    /\ UNCHANGED <<accounts, nextId, history, ops, edits>>

NotBound(r) ==
    LET q == reqs[r] IN
    /\ At(r, "bound")
    /\ q.sid \notin DOMAIN Live
    /\ bindings' = Live
    /\ rows' = ReapedRows
    /\ IF q.op = "upload" THEN Reply(r) ELSE Goto(r, [q EXCEPT !.pc = "lookup"])
    /\ UNCHANGED <<accounts, nextId, history, ops, edits>>

Bound(r) ==
    LET q == reqs[r]
        b == Live[q.sid]
    IN
    /\ At(r, "bound")
    /\ BoundTo(q.sid, q.owner)
    /\ bindings' = Refreshed(q.sid)
    /\ rows' = ReapedRows
    /\ \/ /\ q.op = "dial"
          /\ Goto(r, [q EXCEPT !.pc = "pick", !.btok = b.token,
                               !.acct = IF @ > 0 THEN @ ELSE b.account,
                               !.conv = Merged(b.conv, @)])
       \/ q.op = "title" /\ AimTitle(r, b.token, b.conv)
       \/ q.op = "upload" /\ Goto(r, [q EXCEPT !.pc = "post", !.tok = b.token])
    /\ UNCHANGED <<accounts, nextId, history, ops, edits>>

\* Mutant of Lookup: the conversation is taken from the row, the account is not.
LookupWithoutAccount(r) ==
    LET q == reqs[r] IN
    /\ At(r, "lookup")
    /\ \/ ~Owned(rows, q.owner, q.sid) /\ Reply(r)
       \/ /\ q.op = "dial" /\ Owned(rows, q.owner, q.sid)
          /\ Goto(r, [q EXCEPT !.pc = "pick",
                               !.conv = Merged(rows[q.sid].conv, @)])
    /\ UNCHANGED <<stores, history, ops, edits>>

\* No binding: the durable row tells which account to go back to.  An account
\* the caller of a dial named goes before it.
Lookup(r) ==
    LET q == reqs[r]
        row == rows[q.sid]
        account == IF q.acct > 0 THEN q.acct ELSE row.account
    IN
    /\ At(r, "lookup")
    /\ \/ ~Owned(rows, q.owner, q.sid) /\ Reply(r)
       \/ /\ q.op = "dial" /\ Owned(rows, q.owner, q.sid)
          /\ Goto(r, [q EXCEPT !.pc = IF account > 0 THEN "pickid" ELSE "pick",
                               !.acct = account,
                               !.conv = Merged(row.conv, @)])
       \/ /\ q.op = "title" /\ Owned(rows, q.owner, q.sid)
          /\ IF row.account = 0 THEN Reply(r)
             ELSE Goto(r, [q EXCEPT !.pc = "pickid", !.acct = row.account,
                                    !.stored = row.conv])
    /\ UNCHANGED <<stores, history, ops, edits>>

-----------------------------------------------------------------------------
(* Choosing the account of a dial.                                         *)

\* Mutant of Sticky: only a token binds, not an account id.
StickyByToken(q) == q.btok # None

\* An account or a token the session must stay with is known.
Sticky(q) == q.acct > 0 \/ q.btok # None

\* Mutant of Chosen: the token is not remembered as tried.
ChosenUnrecorded(r, i) ==
    Goto(r, [reqs[r] EXCEPT !.pc = "post", !.tok = accounts[i].token, !.use = i,
                            !.tries = @ + 1])

Chosen(r, i) ==
    LET q == reqs[r] IN
    Goto(r, [q EXCEPT !.pc = "post", !.tok = accounts[i].token, !.use = i,
                      !.tries = @ + 1,
                      !.excluded = @ \cup {accounts[i].token}])

\* The sticky account is gone: the session is released and the dial fails.
\* Without a session id ReleaseSession does nothing.
GiveUp(r) ==
    IF reqs[r].new THEN Reply(r) ELSE Goto(r, [reqs[r] EXCEPT !.pc = "drop"])

\* Pick(preferredToken): the account that holds the binding's token, else the
\* account by its id.
PickBoundToken(r) ==
    LET q == reqs[r]
        found == PickableByToken(accounts, q.btok, q.excluded)
    IN
    /\ At(r, "pick")
    /\ q.btok # None
    /\ \/ \E i \in found : Chosen(r, i)
       \/ /\ found = {}
          /\ IF q.acct > 0 THEN Goto(r, [q EXCEPT !.pc = "pickid"]) ELSE GiveUp(r)
    /\ UNCHANGED <<stores, history, ops, edits>>

\* Mutant of PickAny: with nothing left to pick the loop tries again.
PickAnyAgain(r) ==
    /\ At(r, "pick")
    /\ reqs[r].btok = None
    /\ \E i \in Pickable(accounts, reqs[r].excluded) : Chosen(r, i)
    /\ UNCHANGED <<stores, history, ops, edits>>

\* Pick(""): any available account not tried yet.  Which one is the subject of
\* AccountPool; here every one may be.
PickAny(r) ==
    LET q == reqs[r]
        found == Pickable(accounts, q.excluded)
    IN
    /\ At(r, "pick")
    /\ q.btok = None
    /\ \/ \E i \in found : Chosen(r, i)
       \/ found = {} /\ Reply(r)
    /\ UNCHANGED <<stores, history, ops, edits>>

PickByID(r) ==
    LET q == reqs[r]
        found == PickableById(accounts, q.acct, q.excluded)
    IN
    /\ At(r, "pickid")
    /\ q.op = "dial"
    /\ \/ \E i \in found : Chosen(r, i)
       \/ found = {} /\ GiveUp(r)
    /\ UNCHANGED <<stores, history, ops, edits>>

\* The title of a session without a binding is fetched with the account its row
\* names, whatever that account's token now is.
PickForTitle(r) ==
    LET q == reqs[r]
        found == PickableById(accounts, q.acct, {})
    IN
    /\ At(r, "pickid")
    /\ q.op = "title"
    /\ \/ \E i \in found : AimTitle(r, accounts[i].token, q.stored)
       \/ found = {} /\ Reply(r)
    /\ UNCHANGED <<stores, history, ops, edits>>

-----------------------------------------------------------------------------
(* The upstream answers.                                                   *)

\* 200 or 201 with an SDP answer.
Accepted(r) ==
    /\ At(r, "post")
    /\ reqs[r].op = "dial"
    /\ Goto(r, [reqs[r] EXCEPT !.pc = "bind"])
    /\ UNCHANGED <<stores, history, ops, edits>>

\* A network error, a block page, any status but 200, 201 and 401.
Refused(r) ==
    /\ At(r, "post")
    /\ reqs[r].op = "dial"
    /\ Reply(r)
    /\ UNCHANGED <<stores, history, ops, edits>>

\* Whatever else than 401 the upstream says of a title, an upload or a probe is
\* passed on, and no state depends on it.
TitleAnswered(r) ==
    /\ At(r, "post")
    /\ reqs[r].op = "title"
    /\ Reply(r)
    /\ UNCHANGED <<stores, history, ops, edits>>

\* An upload that is completed may ask twice; a 401 counts the first time only.
UploadAnswered(r) ==
    /\ At(r, "post")
    /\ reqs[r].op = "upload"
    /\ Reply(r)
    /\ UNCHANGED <<stores, history, ops, edits>>

ProbeAnswered(r) ==
    /\ At(r, "post")
    /\ reqs[r].op = "probe"
    /\ Reply(r)
    /\ UNCHANGED <<stores, history, ops, edits>>

Unauthorized(r) ==
    LET q == reqs[r] IN
    /\ At(r, "post")
    /\ rejected' = rejected \cup {q.tok}
    /\ Goto(r, [q EXCEPT !.pc = "mark"])
    /\ UNCHANGED <<stores, minted, home, known, erased, ops, edits>>

\* Mutant of MarkInvalid: attempt <= MaxAccountAttempts.
MarkInvalidOnceMore(r) ==
    LET q == reqs[r] IN
    /\ At(r, "mark")
    /\ accounts' = Invalidated(accounts, q.tok)
    /\ IF q.op = "dial" /\ ~Sticky(q) /\ q.tries <= MaxAccountAttempts
       THEN Goto(r, [q EXCEPT !.pc = "pick", !.conv = None]) ELSE Reply(r)
    /\ UNCHANGED <<nextId, bindings, rows, history, ops, edits>>

\* Mutant of MarkInvalid: the account picked is disabled, whatever its token.
MarkInvalidById(r) ==
    LET q == reqs[r] IN
    /\ At(r, "mark")
    /\ accounts' = [i \in DOMAIN accounts |->
                       IF i = q.use
                       THEN Normalized(accounts[i].token, "", TRUE, TRUE)
                       ELSE accounts[i]]
    /\ Reply(r)
    /\ UNCHANGED <<nextId, bindings, rows, history, ops, edits>>

\* Mutant of MarkInvalid: the next account is asked for the old conversation.
MarkInvalidKeepsConv(r) ==
    LET q == reqs[r] IN
    /\ At(r, "mark")
    /\ accounts' = Invalidated(accounts, q.tok)
    /\ IF q.op = "dial" /\ ~Sticky(q) /\ q.tries < MaxAccountAttempts
       THEN Goto(r, [q EXCEPT !.pc = "pick"]) ELSE Reply(r)
    /\ UNCHANGED <<nextId, bindings, rows, history, ops, edits>>

\* MarkInvalid, and where a 401 leaves the request.  A dial that is not bound
\* to an account goes on with another one, without the old conversation.
MarkInvalid(r) ==
    LET q == reqs[r] IN
    /\ At(r, "mark")
    /\ accounts' = Invalidated(accounts, q.tok)
    /\ \/ q.op # "dial" /\ Reply(r)
       \/ /\ q.op = "dial" /\ q.tok = q.btok
          /\ Goto(r, [q EXCEPT !.pc = "drop"])
       \/ /\ q.op = "dial" /\ q.tok # q.btok
          /\ Sticky(q) \/ q.tries = MaxAccountAttempts
          /\ Reply(r)
       \/ /\ q.op = "dial"
          /\ ~Sticky(q) /\ q.tries < MaxAccountAttempts
          /\ Goto(r, [q EXCEPT !.pc = "pick", !.conv = None])
    /\ UNCHANGED <<nextId, bindings, rows, history, ops, edits>>

-----------------------------------------------------------------------------
(* A dial succeeds: bind, read back, persist.                              *)

Bind(r) ==
    LET q == reqs[r]
        conv == IF BoundTo(q.sid, q.owner)
                THEN Merged(Live[q.sid].conv, q.conv) ELSE q.conv
        binding == [owner |-> q.owner, account |-> q.use, token |-> q.tok,
                    conv |-> conv, expired |-> FALSE]
    IN
    /\ At(r, "bind")
    /\ bindings' = Inserted(Live, q.sid, binding)
    /\ rows' = ReapedRows
    /\ home' = IF q.sid \in DOMAIN home THEN home
               ELSE Inserted(home, q.sid, UserOf[q.tok])
    /\ Goto(r, [q EXCEPT !.pc = "reread"])
    /\ UNCHANGED <<accounts, nextId, minted, known, erased, rejected, ops, edits>>

Reread(r) ==
    LET q == reqs[r]
        found == BoundTo(q.sid, q.owner)
    IN
    /\ At(r, "reread")
    /\ bindings' = IF found THEN Refreshed(q.sid) ELSE Live
    /\ rows' = ReapedRows
    /\ Goto(r, [q EXCEPT !.pc = "persist",
                         !.conv = IF found THEN Live[q.sid].conv ELSE @])
    /\ UNCHANGED <<accounts, nextId, history, ops, edits>>

Persist(r) ==
    LET q == reqs[r] IN
    /\ At(r, "persist")
    /\ rows' = Upserted(rows, q.sid, q.owner, q.use, q.conv)
    /\ known' = known \cup {[owner |-> q.owner, sid |-> q.sid,
                             acct |-> q.use, user |-> UserOf[q.tok]]}
    /\ Reply(r)
    /\ UNCHANGED <<accounts, nextId, bindings, minted, home, erased, rejected,
                   ops, edits>>

-----------------------------------------------------------------------------
(* UpdateSessionContext, as a request of its own or for a title.           *)

Recorded(r) ==
    LET q == reqs[r] IN
    IF q.op = "title" THEN Goto(r, [q EXCEPT !.pc = "post"]) ELSE Reply(r)

ContextBound(r) ==
    LET q == reqs[r]
        conv == Merged(Live[q.sid].conv, q.conv)
    IN
    /\ At(r, "ctx")
    /\ BoundTo(q.sid, q.owner)
    /\ bindings' = [Refreshed(q.sid) EXCEPT ![q.sid].conv = conv]
    /\ rows' = ReapedRows
    /\ Goto(r, [q EXCEPT !.pc = "sync", !.acct = Live[q.sid].account,
                         !.conv = conv])
    /\ UNCHANGED <<accounts, nextId, history, ops, edits>>

ContextUnbound(r) ==
    LET q == reqs[r] IN
    /\ At(r, "ctx")
    /\ ~BoundTo(q.sid, q.owner)
    /\ bindings' = Live
    /\ rows' = ReapedRows
    /\ IF q.sid \in DOMAIN Live THEN Reply(r)
       ELSE Goto(r, [q EXCEPT !.pc = "ctxget"])
    /\ UNCHANGED <<accounts, nextId, history, ops, edits>>

\* UpdateUpstream after the binding was updated; a missing row is only logged.
ContextSync(r) ==
    LET q == reqs[r] IN
    /\ At(r, "sync")
    /\ rows' = IF Owned(rows, q.owner, q.sid)
               THEN Continued(rows, q.sid, q.acct, q.conv) ELSE rows
    /\ Recorded(r)
    /\ UNCHANGED <<accounts, nextId, bindings, history, ops, edits>>

ContextGet(r) ==
    LET q == reqs[r] IN
    /\ At(r, "ctxget")
    /\ IF Owned(rows, q.owner, q.sid)
       THEN Goto(r, [q EXCEPT !.pc = "ctxput", !.acct = rows[q.sid].account])
       ELSE Reply(r)
    /\ UNCHANGED <<stores, history, ops, edits>>

ContextPut(r) ==
    LET q == reqs[r] IN
    /\ At(r, "ctxput")
    /\ \/ /\ Owned(rows, q.owner, q.sid)
          /\ rows' = Continued(rows, q.sid, q.acct, q.conv)
          /\ Recorded(r)
       \/ /\ ~Owned(rows, q.owner, q.sid)
          /\ rows' = rows
          /\ Reply(r)
    /\ UNCHANGED <<accounts, nextId, bindings, history, ops, edits>>

-----------------------------------------------------------------------------
(* ReleaseSession, as a request of its own or by a dial that failed.       *)

DropBinding(r) ==
    LET q == reqs[r] IN
    /\ At(r, "drop")
    /\ bindings' = IF q.sid \in DOMAIN bindings /\ bindings[q.sid].owner = q.owner
                   THEN Without(bindings, q.sid) ELSE bindings
    /\ Goto(r, [q EXCEPT !.pc = "unlist"])
    /\ UNCHANGED <<accounts, nextId, rows, history, ops, edits>>

Unlist(r) ==
    LET q == reqs[r] IN
    /\ At(r, "unlist")
    /\ rows' = Released(rows, q.owner, q.sid)
    /\ Reply(r)
    /\ UNCHANGED <<accounts, nextId, bindings, history, ops, edits>>

-----------------------------------------------------------------------------
(* Time, restarts and the administrator.                                   *)

\* VOICE_SESSION_TTL_SECONDS pass without a use; the binding stays in the map
\* until the next cleanup.  The TTL is assumed to be longer than the local steps
\* of a request that has just refreshed the binding and is about to write its
\* row; it may well be shorter than an upstream call.
PassTTL(s) ==
    /\ s \in DOMAIN bindings
    /\ ~bindings[s].expired
    /\ \A r \in DOMAIN reqs :
          reqs[r].sid = s => reqs[r].pc \notin {"reread", "persist", "sync"}
    /\ bindings' = [bindings EXCEPT ![s].expired = TRUE]
    /\ UNCHANGED <<accounts, nextId, rows, reqs, history, ops, edits>>

Edit == edits < MaxEdits /\ edits' = edits + 1

\* The process stops wherever its requests are; the next one marks every
\* active row released before it serves (app.go:76).
Restart ==
    /\ Edit
    /\ bindings' = << >>
    /\ reqs' = << >>
    /\ rows' = AllReleased(rows)
    /\ UNCHANGED <<accounts, nextId, history, ops>>

DeleteRow(s) ==
    /\ Edit
    /\ s \in DOMAIN rows
    /\ rows' = Without(rows, s)
    /\ erased' = erased \cup {s}
    /\ UNCHANGED <<accounts, nextId, bindings, reqs, minted, home, known,
                   rejected, ops>>

CreateAccount(t) ==
    /\ Edit
    /\ nextId <= MaxAccounts
    /\ ~TokenTaken(accounts, t, 0)
    /\ accounts' = Inserted(accounts, nextId, Normalized(t, "", FALSE, FALSE))
    /\ nextId' = nextId + 1
    /\ UNCHANGED <<bindings, rows, reqs, history, ops>>

\* An edit disables, re-enables or gives the account a fresh token.  That the
\* fresh token is one of the same chatgpt.com user is assumed of the
\* administrator: the code cannot check it.
UpdateAccount(i, t, disabled) ==
    /\ Edit
    /\ i \in DOMAIN accounts
    /\ UserOf[t] = UserOf[accounts[i].token]
    /\ ~TokenTaken(accounts, t, i)
    /\ accounts' = [accounts EXCEPT ![i] =
                        Normalized(t, "", disabled, @.invalid)]
    /\ UNCHANGED <<nextId, bindings, rows, reqs, history, ops>>

DeleteAccount(i) ==
    /\ Edit
    /\ i \in DOMAIN accounts
    /\ accounts' = Without(accounts, i)
    /\ UNCHANGED <<nextId, bindings, rows, reqs, history, ops>>

-----------------------------------------------------------------------------

Arrive(r) ==
    \/ \E o \in Owners, s \in Sessions :
           \/ \E a \in 0..MaxAccounts, c \in Conversations \cup {None} :
                  DialNew(r, o, s, a, c) \/ DialAgain(r, o, s, a, c)
           \/ \E c \in Conversations \cup {None} : Context(r, o, s, c) \/ Title(r, o, s, c)
           \/ Release(r, o, s)
           \/ Upload(r, o, s)
    \/ \E i \in 1..MaxAccounts : Probe(r, i)

\* An upstream call ends, by an answer or by its timeout.
UpstreamEnds(r) ==
    \/ Accepted(r) \/ Refused(r) \/ Unauthorized(r)
    \/ TitleAnswered(r) \/ UploadAnswered(r) \/ ProbeAnswered(r)

LocalStep(r) ==
    \/ BoundElsewhere(r) \/ NotBound(r) \/ Bound(r) \/ Lookup(r)
    \/ PickBoundToken(r) \/ PickAny(r) \/ PickByID(r) \/ PickForTitle(r)
    \/ MarkInvalid(r)
    \/ Bind(r) \/ Reread(r) \/ Persist(r)
    \/ ContextBound(r) \/ ContextUnbound(r) \/ ContextSync(r)
    \/ ContextGet(r) \/ ContextPut(r)
    \/ DropBinding(r) \/ Unlist(r)

Step(r) == LocalStep(r) \/ UpstreamEnds(r)

Environment ==
    \/ \E s \in Sessions : PassTTL(s) \/ DeleteRow(s)
    \/ \E t \in Tokens :
           \/ CreateAccount(t)
           \/ \E i \in 1..MaxAccounts, d \in BOOLEAN : UpdateAccount(i, t, d)
    \/ \E i \in 1..MaxAccounts : DeleteAccount(i)
    \/ Restart

Next == Environment \/ \E r \in Requests : Arrive(r) \/ Step(r)

Spec == Init /\ [][Next]_vars

\* The scheduler runs every goroutine and the two mutexes are never held across
\* a call that blocks: a request that can take its next step in the gateway
\* takes it.  Nothing is owed by the upstream: behind the launcher script of the
\* Docker image (Dockerfile:97-99) a call may outlive its timeout (curl.go:76).
FairSpec == Spec /\ \A r \in Requests : WF_vars(LocalStep(r))

-----------------------------------------------------------------------------
(* Properties.                                                             *)

\* Every variable has its type; a session is in a table only under an id that
\* was made for a caller.
TypeOK ==
    /\ nextId \in 1..(MaxAccounts + 1)
    /\ DOMAIN accounts \subseteq 1..(nextId - 1)
    /\ accounts \in [DOMAIN accounts -> AccountRow]
    /\ DOMAIN bindings \subseteq DOMAIN minted
    /\ bindings \in [DOMAIN bindings -> Binding]
    /\ DOMAIN rows \subseteq DOMAIN minted
    /\ rows \in [DOMAIN rows -> CallRow]
    /\ DOMAIN reqs \subseteq Requests
    /\ reqs \in [DOMAIN reqs -> Request]
    /\ DOMAIN minted \subseteq Sessions
    /\ minted \in [DOMAIN minted -> Owners]
    /\ DOMAIN home \subseteq DOMAIN minted
    /\ home \in [DOMAIN home -> Users]
    /\ known \subseteq Fact
    /\ erased \subseteq Sessions
    /\ rejected \subseteq Tokens
    /\ ops \in 0..MaxOps
    /\ edits \in 0..MaxEdits

\* A session id belongs to the caller it was made for, for good: whichever
\* requests of whichever callers interleave, across TTL, release and restart,
\* neither the binding nor the durable row nor an answer is another caller's
\* (bindVoiceSession and Upsert both overwrite the owner they find).
SessionKeepsOwner ==
    /\ \A s \in DOMAIN bindings : bindings[s].owner = minted[s]
    /\ \A s \in DOMAIN rows : rows[s].owner = minted[s]
    /\ \A k \in known : k.sid \in DOMAIN minted /\ k.owner = minted[k.sid]

\* The upstream is never asked to continue a conversation with the token of a
\* user who does not own it: "never silently switch: the chatgpt.com
\* conversation_id is only valid for the account that created it"
\* (service.go:993-994).  Nobody knows whose a legacy one is: it may be asked
\* for with any account, but with one only; a dial that goes on to another
\* account after a 401 carries no conversation (service.go:1104-1108).
ConversationStaysHome ==
    \A r \in DOMAIN reqs :
        LET q == reqs[r] IN
        q.pc = "post" =>
            /\ q.op \in {"dial", "title"} /\ q.conv \in Users
                  => UserOf[q.tok] = q.conv
            /\ q.op = "dial" /\ q.conv # None => q.tries = 1

\* A session that has been answered once stays with that user: no re-dial,
\* token refresh, 401, restart or expiry moves it to another one's account.
SessionStaysHome ==
    /\ \A k \in known : k.sid \in DOMAIN home /\ home[k.sid] = k.user
    /\ \A s \in DOMAIN bindings :
          s \in DOMAIN home /\ home[s] = UserOf[bindings[s].token]

\* A dial never asks the upstream twice with one token, tries no more accounts
\* than configured, and a session that is bound to an account tries only it.
AttemptsCounted ==
    \A r \in DOMAIN reqs :
        LET q == reqs[r] IN
        q.op = "dial" =>
            /\ q.tries = Cardinality(q.excluded)
            /\ q.tries <= MaxAccountAttempts
            /\ Sticky(q) => q.tries <= 1

\* What a client was told it can come back to stays there, through release,
\* expiry and restart, unless the administrator deletes the row: the caller
\* finds a row of his that names an account.
KnownResumable ==
    \A k \in known :
        k.sid \notin erased =>
            Owned(rows, k.owner, k.sid) /\ rows[k.sid].account > 0

\* Only the account whose present token the upstream rejected is taken out of
\* the pool: a late 401 for a token that was replaced meanwhile disables
\* nothing.
OnlyRejectedDisabled ==
    [][\A i \in DOMAIN accounts \cap DOMAIN accounts' :
          Available(accounts[i]) /\ ~Available(accounts'[i])
              => accounts[i].token \in rejected \/ edits' # edits]_vars

\* Nobody is asking for the session.
Idle(s) == \A r \in DOMAIN reqs : reqs[r].sid # s

\* Between the requests for a session its live binding is listed as active, with
\* the account and the conversation it really has, whatever is asked for other
\* sessions meanwhile (service.go:1040-1228; store.go:76-182).
BoundIsListed ==
    \A s \in DOMAIN bindings \ erased :
        Idle(s) =>
            /\ s \in DOMAIN rows
            /\ rows[s].status = "active"
            /\ rows[s].account = bindings[s].account
            /\ rows[s].conv = bindings[s].conv

\* Every request whose upstream calls end is answered, however its accounts are
\* rejected meanwhile and though the calls of the requests beside it hang for
\* ever (service.go:1036-1141).
RequestsAnswered ==
    \A r \in Requests :
        []<>~At(r, "post") => (r \in DOMAIN reqs ~> r \notin DOMAIN reqs)
=============================================================================
