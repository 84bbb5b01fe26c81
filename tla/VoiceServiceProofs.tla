------------------------- MODULE VoiceServiceProofs -------------------------
(***************************************************************************)
(* Proofs about the voice gateway, for any sets of callers, sessions,      *)
(* tokens and requests and any bounds: Safe of VoiceServiceInv is          *)
(* inductive, and the safety properties of a session follow from it; so    *)
(* does that the gateway implements StickySession.  As long as the         *)
(* requests for one session follow one another, Listing and RowsBound of   *)
(* VoiceServiceListed are inductive too, and the listing of the call       *)
(* sessions is what the bindings are.                                      *)
(*                                                                         *)
(* Safe is taken apart by the variable it speaks of.  A step that lets the *)
(* world only grow (Grows) keeps what was known of each binding, row and   *)
(* request; what is left per action is the one binding, row or request it  *)
(* writes.                                                                 *)
(***************************************************************************)
EXTENDS VoiceServiceSticky, VoiceServiceListed, FiniteSetTheorems, TLAPS

USE DEF GoesWith

\* A conversation is a user's or a legacy one, and never the empty string.
LEMMA ConversationKinds ==
    /\ Users \subseteq Conversations /\ Users \cap Legacy = {}
    /\ Conversations \subseteq Users \cup Legacy
    /\ None \notin Users /\ None \notin Legacy /\ Legacy \subseteq Conversations
  BY ServiceAssumption DEF Users

-----------------------------------------------------------------------------
(* What the operators on the accounts table return.                        *)

\* What normalizeAccount (pool.go:518-534) returns is a row whose two columns
\* that say "disabled" agree.
LEMMA NormalizedIsRow ==
    ASSUME NEW t \in Tokens, NEW s \in StatusInputs,
           NEW d \in BOOLEAN, NEW v \in BOOLEAN
    PROVE  /\ Normalized(t, s, d, v) \in AccountRow
           /\ Normalized(t, s, d, v).token = t
           /\ Normalized(t, s, d, v).disabled
                <=> Normalized(t, s, d, v).status = "disabled"
           /\ Normalized(t, s, d, v).invalid => Normalized(t, s, d, v).disabled
  BY DEF Normalized, AccountRow, Statuses, StatusInputs

\* MarkInvalid (pool.go:422-438) writes rows and leaves every token alone.
LEMMA InvalidatedIsTable ==
    ASSUME NEW table, table \in [DOMAIN table -> AccountRow], NEW t
    PROVE  /\ DOMAIN Invalidated(table, t) = DOMAIN table
           /\ Invalidated(table, t) \in [DOMAIN table -> AccountRow]
           /\ \A i \in DOMAIN table :
                /\ Invalidated(table, t)[i].token = table[i].token
                /\ \/ Invalidated(table, t)[i] = table[i]
                   \/ /\ table[i].token = t
                      /\ Invalidated(table, t)[i].disabled
                      /\ Invalidated(table, t)[i].status = "disabled"
  BY DEF Invalidated, AccountRow, Statuses, StatusInputs

-----------------------------------------------------------------------------
(* Safe, part by part.                                                     *)

WorldOK ==
    /\ nextId \in 1..(MaxAccounts + 1)
    /\ DOMAIN accounts \subseteq 1..(nextId - 1)
    /\ accounts \in [DOMAIN accounts -> AccountRow]
    /\ DOMAIN minted \subseteq Sessions
    /\ minted \in [DOMAIN minted -> Owners]
    /\ DOMAIN home \subseteq DOMAIN minted
    /\ home \in [DOMAIN home -> Users]
    /\ known \subseteq Fact
    /\ erased \subseteq Sessions
    /\ rejected \subseteq Tokens
    /\ ops \in 0..MaxOps
    /\ edits \in 0..MaxEdits

BindingsOK ==
    /\ DOMAIN bindings \subseteq DOMAIN minted
    /\ bindings \in [DOMAIN bindings -> Binding]
    /\ \A s \in DOMAIN bindings : BindingOK(s, bindings[s])

RowsOK ==
    /\ DOMAIN rows \subseteq DOMAIN minted
    /\ rows \in [DOMAIN rows -> CallRow]
    /\ \A s \in DOMAIN rows : RowOK(s, rows[s])

KnownOK == \A k \in known : FactOK(k)

RequestsOK ==
    /\ DOMAIN reqs \subseteq Requests
    /\ reqs \in [DOMAIN reqs -> Request]
    /\ \A r \in DOMAIN reqs : RequestOK(reqs[r])
    /\ FreshIds

\* Safe is the conjunction of its parts, before and after a step.
LEMMA Parts ==
    /\ Safe <=> WorldOK /\ BindingsOK /\ RowsOK /\ KnownOK /\ RequestsOK
    /\ Safe' <=> WorldOK' /\ BindingsOK' /\ RowsOK' /\ KnownOK' /\ RequestsOK'
  BY DEF Safe, TypeOK, WorldOK, BindingsOK, RowsOK, KnownOK, RequestsOK

-----------------------------------------------------------------------------
(* What every step leaves true of the world.                               *)

\* Session ids keep their caller and their user, account ids their user.
Grows ==
    /\ DOMAIN minted \subseteq DOMAIN minted'
    /\ \A s \in DOMAIN minted : minted'[s] = minted[s]
    /\ DOMAIN home \subseteq DOMAIN home'
    /\ \A s \in DOMAIN home : home'[s] = home[s]
    /\ nextId <= nextId'
    /\ \A a \in 1..(nextId - 1) :
          a \in DOMAIN accounts' =>
              /\ a \in DOMAIN accounts
              /\ UserOf[accounts'[a].token] = UserOf[accounts[a].token]
    /\ rejected \subseteq rejected'

\* Ids handed out stay handed out, to the user they were handed out for.
LEMMA LeadsKept ==
    ASSUME WorldOK, WorldOK', Grows, NEW a, NEW u, Leads(a, u)
    PROVE  Leads(a, u)'
  BY DEF WorldOK, Grows, Leads

\* A binding, a row and a request that nobody writes stay as right as they were.
LEMMA BindingKept ==
    ASSUME WorldOK, WorldOK', Grows,
           NEW s \in DOMAIN minted, NEW b, BindingOK(s, b)
    PROVE  BindingOK(s, b)'
  BY LeadsKept DEF Grows, BindingOK, Leads, WorldOK

\* A sound row stays sound, whatever else the step does.
LEMMA RowKept ==
    ASSUME WorldOK, WorldOK', Grows,
           NEW s \in DOMAIN minted, NEW row, RowOK(s, row)
    PROVE  RowOK(s, row)'
  BY LeadsKept DEF Grows, RowOK, Leads, WorldOK

\* What a request knows stays true while other requests move.
LEMMA RequestKept ==
    ASSUME WorldOK, WorldOK', Grows, NEW q \in Request, RequestOK(q)
    PROVE  RequestOK(q)'
  <1> USE LeadsKept
  <1>1. PcFits(q)'
    BY DEF RequestOK, PcFits
  <1>2. SessionOK(q)'
    BY DEF RequestOK, SessionOK, Grows
  <1>3. TokenOK(q)'
    BY DEF RequestOK, TokenOK, Grows
  <1>4. DialOK(q)'
    BY DEF RequestOK, DialOK, Grows, Leads, WorldOK, SessionOK
  <1>5. DialAgainOK(q)'
    BY DEF RequestOK, DialAgainOK, SessionOK, Grows, Leads, WorldOK
  <1>6. DialNewOK(q)'
    BY DEF RequestOK, DialNewOK, Leads, WorldOK, Grows
  <1>7. TitleOK(q)'
    BY DEF RequestOK, TitleOK, SessionOK, DialNewOK, PcFits, Grows, Leads, WorldOK
  <1>8. ContextOK(q)'
    BY DEF RequestOK, ContextOK, SessionOK, PcFits, Grows, Leads, WorldOK
  <1>9. AttemptsOK(q)'
    BY DEF RequestOK, AttemptsOK
  <1> QED
    BY <1>1, <1>2, <1>3, <1>4, <1>5, <1>6, <1>7, <1>8, <1>9 DEF RequestOK

\* Bindings that are only dropped, expired or refreshed stay right.
Thinned ==
    /\ DOMAIN bindings' \subseteq DOMAIN bindings
    /\ bindings' \in [DOMAIN bindings' -> Binding]
    /\ \A s \in DOMAIN bindings' :
          /\ bindings'[s].owner = bindings[s].owner
          /\ bindings'[s].account = bindings[s].account
          /\ bindings'[s].token = bindings[s].token
          /\ bindings'[s].conv = bindings[s].conv

\* Dropping, refreshing or expiring bindings leaves the rest sound.
LEMMA ThinnedOK ==
    ASSUME WorldOK, WorldOK', Grows, BindingsOK, Thinned
    PROVE  BindingsOK'
  <1>1. ASSUME NEW s \in DOMAIN bindings'
        PROVE  BindingOK(s, bindings[s])'
    <2>1. s \in DOMAIN minted /\ BindingOK(s, bindings[s])
      BY <1>1 DEF BindingsOK, Thinned
    <2> QED
      BY <1>1, <2>1, LeadsKept DEF BindingOK, Leads, Thinned, Grows, WorldOK
  <1>2. DOMAIN bindings' \subseteq DOMAIN minted'
    BY DEF BindingsOK, Thinned, Grows
  <1> QED
    BY <1>1, <1>2 DEF BindingsOK, Thinned

\* Rows whose status alone changes stay right.
Restated ==
    /\ DOMAIN rows' \subseteq DOMAIN rows
    /\ rows' \in [DOMAIN rows' -> CallRow]
    /\ \A s \in DOMAIN rows' :
          /\ rows'[s].owner = rows[s].owner
          /\ rows'[s].account = rows[s].account
          /\ rows'[s].conv = rows[s].conv

\* Changing the status of rows leaves them sound.
LEMMA RestatedOK ==
    ASSUME WorldOK, WorldOK', Grows, RowsOK, Restated
    PROVE  RowsOK'
  <1>1. ASSUME NEW s \in DOMAIN rows'
        PROVE  RowOK(s, rows[s])'
    <2>1. s \in DOMAIN minted /\ RowOK(s, rows[s])
      BY <1>1 DEF RowsOK, Restated
    <2> QED
      BY <1>1, <2>1, LeadsKept DEF RowOK, Leads, Restated, Grows, WorldOK
  <1>2. DOMAIN rows' \subseteq DOMAIN minted'
    BY DEF RowsOK, Restated, Grows
  <1> QED
    BY <1>1, <1>2 DEF RowsOK, Restated

\* The cleanup of expired bindings (service.go:165-192) only thins the bindings
\* and restates the rows.
LEMMA Reaping ==
    ASSUME BindingsOK, RowsOK
    PROVE  /\ bindings' = Live => Thinned
           /\ \A s : bindings' = Refreshed(s) => Thinned
           /\ rows' = ReapedRows => Restated /\ DOMAIN rows' = DOMAIN rows
  <1>1. bindings' = Live => Thinned
    BY DEF Live, Expired, Thinned, BindingsOK
  <1>2. ASSUME NEW s, bindings' = Refreshed(s)
        PROVE  Thinned
    <2>1. DOMAIN bindings' \subseteq DOMAIN bindings
      BY <1>2 DEF Refreshed, Live
    <2>2. ASSUME NEW t \in DOMAIN bindings'
          PROVE  /\ bindings'[t] \in Binding
                 /\ bindings'[t].owner = bindings[t].owner
                 /\ bindings'[t].account = bindings[t].account
                 /\ bindings'[t].token = bindings[t].token
                 /\ bindings'[t].conv = bindings[t].conv
      <3>1. PICK b \in Binding : b = bindings[t]
        BY <2>1, <2>2 DEF BindingsOK
      <3>2. bindings'[t] = b \/ bindings'[t] = [b EXCEPT !.expired = FALSE]
        BY <1>2, <2>2, <3>1 DEF Refreshed, Live
      <3> QED
        BY <3>1, <3>2 DEF Binding
    <2>3. bindings' = [t \in DOMAIN bindings' |-> bindings'[t]]
      BY <1>2 DEF Refreshed, Live
    <2> QED
      BY <2>1, <2>2, <2>3 DEF Thinned
  <1>3. rows' = ReapedRows => Restated /\ DOMAIN rows' = DOMAIN rows
    BY DEF ReapedRows, ReleasedRow, Restated, RowsOK, CallRow
  <1> QED
    BY <1>1, <1>2, <1>3

\* What clients were told stays true while no row is lost.
LEMMA KnownKept ==
    ASSUME WorldOK, WorldOK', Grows, KnownOK, known' \subseteq known,
           erased \subseteq erased',
           \A s \in DOMAIN rows : s \in DOMAIN rows' \/ s \in erased'
    PROVE  KnownOK'
  <1> SUFFICES ASSUME NEW k \in known' PROVE FactOK(k)'
    BY DEF KnownOK
  <1>1. FactOK(k) /\ k.sid \in DOMAIN minted
    BY DEF KnownOK, FactOK, WorldOK
  <1>2. Leads(k.acct, k.user)'
    BY <1>1, LeadsKept DEF FactOK
  <1> QED
    BY <1>1, <1>2 DEF FactOK, Grows

\* Requests that are answered leave the others as they were.
LEMMA RepliesOK ==
    ASSUME WorldOK, WorldOK', Grows, RequestsOK, home' = home,
           DOMAIN reqs' \subseteq DOMAIN reqs,
           reqs' = [r \in DOMAIN reqs' |-> reqs[r]]
    PROVE  RequestsOK'
  <1>1. \A r \in DOMAIN reqs' : r \in DOMAIN reqs /\ reqs'[r] = reqs[r]
    OBVIOUS
  <1>2. ASSUME NEW r \in DOMAIN reqs'
        PROVE  reqs'[r] \in Request /\ RequestOK(reqs[r])'
    <2>1. PICK q \in Request : q = reqs[r] /\ RequestOK(q)
      BY <1>1 DEF RequestsOK
    <2>2. q = reqs'[r] /\ RequestOK(q)'
      BY <1>1, <2>1, RequestKept
    <2> QED
      BY <2>2
  <1>4. FreshIds'
    BY <1>1 DEF RequestsOK, FreshIds, Unborn
  <1> QED
    BY <1>1, <1>2, <1>4 DEF RequestsOK

\* One request moves on, or a new one begins; the others stay as they were.
LEMMA MoveOK ==
    ASSUME WorldOK, WorldOK', Grows, RequestsOK,
           NEW r \in Requests, NEW q \in Request, RequestOK(q)',
           reqs' = [p \in DOMAIN reqs \cup {r} |-> IF p = r THEN q ELSE reqs[p]],
           Unborn(q) => q.sid \notin DOMAIN home',
           \A p \in DOMAIN reqs \ {r} :
              Unborn(reqs[p]) =>
                  /\ reqs[p].sid \notin DOMAIN home'
                  /\ ~(Unborn(q) /\ reqs[p].sid = q.sid)
    PROVE  RequestsOK'
  <1>1. /\ DOMAIN reqs' = DOMAIN reqs \cup {r}
        /\ reqs'[r] = q
        /\ \A p \in DOMAIN reqs' \ {r} : p \in DOMAIN reqs /\ reqs'[p] = reqs[p]
    OBVIOUS
  <1>2. ASSUME NEW p \in DOMAIN reqs'
        PROVE  reqs'[p] \in Request /\ RequestOK(reqs[p])'
    <2>1. CASE p = r
      BY <1>1, <2>1
    <2>2. CASE p # r
      <3>1. PICK x \in Request : x = reqs[p] /\ RequestOK(x)
        BY <1>1, <2>2 DEF RequestsOK
      <3>2. x = reqs'[p] /\ RequestOK(x)'
        BY <1>1, <2>2, <3>1, RequestKept
      <3> QED
        BY <3>2
    <2> QED
      BY <2>1, <2>2
  <1>3. FreshIds'
    <2>1. ASSUME NEW p \in DOMAIN reqs', Unborn(reqs'[p])
          PROVE  reqs'[p].sid \notin DOMAIN home'
      BY <1>1, <2>1
    <2>2. \A p \in DOMAIN reqs' :
             Unborn(reqs'[p]) => reqs'[p].sid \notin DOMAIN home'
      BY <2>1
    <2>3. \A p1, p2 \in DOMAIN reqs' :
             Unborn(reqs'[p1]) /\ Unborn(reqs'[p2])
                 /\ reqs'[p1].sid = reqs'[p2].sid => p1 = p2
      <3> TAKE p1, p2 \in DOMAIN reqs'
      <3> HAVE Unborn(reqs'[p1]) /\ Unborn(reqs'[p2])
                   /\ reqs'[p1].sid = reqs'[p2].sid
      <3> QED
        BY <1>1 DEF RequestsOK, FreshIds
    <2> QED
      BY <2>2, <2>3 DEF FreshIds, Unborn
  <1> QED
    BY <1>1, <1>2, <1>3 DEF RequestsOK

\* A request that is there moves on without a session being born.
LEMMA GotoOK ==
    ASSUME WorldOK, WorldOK', Grows, RequestsOK, home' = home,
           NEW r \in DOMAIN reqs, NEW q \in Request, RequestOK(q)', Goto(r, q),
           Unborn(q) => Unborn(reqs[r]) /\ q.sid = reqs[r].sid
    PROVE  RequestsOK'
  <1>1. r \in Requests
    BY DEF RequestsOK
  <1>2. reqs' = [p \in DOMAIN reqs \cup {r} |-> IF p = r THEN q ELSE reqs[p]]
    BY DEF Goto, RequestsOK
  <1>3. Unborn(q) => q.sid \notin DOMAIN home'
    BY DEF RequestsOK, FreshIds
  <1>4. \A p \in DOMAIN reqs \ {r} :
           Unborn(reqs[p]) =>
               /\ reqs[p].sid \notin DOMAIN home'
               /\ ~(Unborn(q) /\ reqs[p].sid = q.sid)
    BY DEF RequestsOK, FreshIds
  <1> QED
    BY <1>1, <1>2, <1>3, <1>4, MoveOK

\* The requests that remain after one is answered are sound.
LEMMA ReplyOK ==
    ASSUME WorldOK, WorldOK', Grows, RequestsOK, home' = home, NEW r, Reply(r)
    PROVE  RequestsOK'
  BY RepliesOK DEF Reply, Without, RequestsOK

-----------------------------------------------------------------------------
(* Steps that leave the accounts and the history alone: they are safe when *)
(* they are safe for bindings, rows and requests.                          *)

Still == UNCHANGED <<accounts, nextId, history, ops, edits>>

\* A step that leaves accounts and history alone keeps the world as it is.
LEMMA StillGrows ==
    ASSUME WorldOK, Still
    PROVE  WorldOK' /\ Grows /\ home' = home
  BY DEF WorldOK, Still, Grows, history

\* Such a step is safe if its bindings, rows and requests are, and no row
\* disappears.
LEMMA StillSafe ==
    ASSUME Safe, Still,
           BindingsOK', RowsOK', RequestsOK', DOMAIN rows \subseteq DOMAIN rows'
    PROVE  Safe'
  <1>1. WorldOK /\ KnownOK
    BY Parts
  <1>2. WorldOK' /\ Grows
    BY <1>1, StillGrows
  <1>3. KnownOK'
    BY <1>1, <1>2, KnownKept DEF Still, history
  <1> QED
    BY <1>2, <1>3, Parts

\* A request that only moves on, or is answered.
LEMMA StoresStill ==
    ASSUME Safe, Still, bindings' = bindings, rows' = rows, RequestsOK'
    PROVE  Safe'
  <1>1. WorldOK /\ BindingsOK /\ RowsOK
    BY Parts
  <1>2. WorldOK' /\ Grows
    BY <1>1, StillGrows
  <1>3. Thinned /\ Restated
    BY <1>1 DEF Thinned, Restated, BindingsOK, RowsOK
  <1> QED
    BY <1>1, <1>2, <1>3, ThinnedOK, RestatedOK, StillSafe

\* A request that looks its binding up, which also reaps the expired ones.
LEMMA LookupSafe ==
    ASSUME Safe, Still, Thinned, rows' = ReapedRows, RequestsOK'
    PROVE  Safe'
  <1>1. WorldOK /\ BindingsOK /\ RowsOK
    BY Parts
  <1>2. WorldOK' /\ Grows
    BY <1>1, StillGrows
  <1>3. Restated /\ DOMAIN rows' = DOMAIN rows
    BY <1>1, Reaping
  <1> QED
    BY <1>1, <1>2, <1>3, ThinnedOK, RestatedOK, StillSafe

-----------------------------------------------------------------------------
(* What the requests' own moves preserve.                                  *)

\* The request that takes a step is one that is there and right.
LEMMA Asker ==
    ASSUME Safe, NEW r \in DOMAIN reqs
    PROVE  /\ r \in Requests
           /\ reqs[r] \in Request
           /\ RequestOK(reqs[r])
           /\ WorldOK /\ BindingsOK /\ RowsOK /\ RequestsOK
  BY Parts DEF RequestsOK

\* A request that moves on knowing what it must know leaves all requests sound.
LEMMA MovesOn ==
    ASSUME Safe, Still, NEW r \in DOMAIN reqs, NEW n \in Request, RequestOK(n),
           Goto(r, n), Unborn(n) => Unborn(reqs[r]) /\ n.sid = reqs[r].sid
    PROVE  RequestsOK'
  <1>1. WorldOK /\ RequestsOK
    BY Parts
  <1>2. WorldOK' /\ Grows /\ home' = home
    BY <1>1, StillGrows
  <1>3. RequestOK(n)'
    BY <1>1, <1>2, RequestKept
  <1> QED
    BY <1>1, <1>2, <1>3, GotoOK

\* A request that is answered leaves all requests sound.
LEMMA Answered ==
    ASSUME Safe, Still, NEW r, Reply(r)
    PROVE  RequestsOK'
  BY Parts, StillGrows, ReplyOK

\* A title is asked for with a token of the session's user, and for a
\* conversation of his (service.go:359-473).
LEMMA AimTitleOK ==
    ASSUME Safe, Still, NEW r \in DOMAIN reqs,
           NEW tok \in Tokens, NEW stored \in Conversations \cup {None},
           reqs[r].op = "title", UserOf[tok] = home[reqs[r].sid],
           stored \in GoesWith(home[reqs[r].sid]),
           AimTitle(r, tok, stored)
    PROVE  RequestsOK'
  <1> DEFINE q == reqs[r]
             conv == Merged(stored, q.conv)
             n == [q EXCEPT !.tok = tok, !.conv = conv,
                            !.pc = IF conv = stored THEN "post" ELSE "ctx"]
  <1>1. q \in Request /\ RequestOK(q)
    BY Asker
  <1>2. CASE Reply(r)
    BY <1>2, Answered
  <1>3. CASE conv # None /\ Goto(r, n)
    <2>1. n \in Request
      <3> DEFINE pc == IF conv = stored THEN "post" ELSE "ctx"
      <3>1. conv \in Conversations \cup {None}
        BY <1>1 DEF Request, Merged
      <3>2. pc \in PCs
        BY DEF PCs
      <3>3. n = [q EXCEPT !.tok = tok, !.conv = conv, !.pc = pc]
        OBVIOUS
      <3> HIDE DEF conv, pc, n, q
      <3> QED
        BY <1>1, <3>1, <3>2, <3>3 DEF Request
    <2>2. RequestOK(n)
      BY <1>1 DEF Request, RequestOK, PcFits, SessionOK, TokenOK, DialOK,
                  DialAgainOK, DialNewOK, TitleOK, ContextOK, AttemptsOK,
                  Merged, Recording, Trying, Stored, Picking
    <2>3. ~Unborn(n)
      BY <1>1 DEF Request, RequestOK, PcFits, Unborn
    <2> QED
      BY <1>3, <2>1, <2>2, <2>3, MovesOn
  <1> QED
    BY <1>2, <1>3 DEF AimTitle

\* A dial takes an account it has not tried, one that leads to the user of its
\* session and of its conversation (service.go:1036-1073).
LEMMA ChosenOK ==
    ASSUME Safe, Still, NEW r \in DOMAIN reqs, NEW i \in DOMAIN accounts,
           reqs[r].op = "dial", reqs[r].pc \in {"pick", "pickid"},
           accounts[i].token \notin reqs[r].excluded,
           reqs[r].new /\ reqs[r].conv \in Users
               => UserOf[accounts[i].token] = reqs[r].conv,
           ~reqs[r].new => UserOf[accounts[i].token] = home[reqs[r].sid],
           Chosen(r, i)
    PROVE  RequestsOK'
  <1> DEFINE q == reqs[r]
             tok == accounts[i].token
             n == [q EXCEPT !.pc = "post", !.tok = tok, !.use = i,
                            !.tries = @ + 1, !.excluded = @ \cup {tok}]
  <1>1. q \in Request /\ RequestOK(q)
    BY Asker
  <1>2. /\ tok \in Tokens /\ i \in 1..(nextId - 1) /\ i \in Nat
        /\ Leads(i, UserOf[tok])
    BY Parts DEF WorldOK, AccountRow, Leads
  <1> HIDE DEF tok
  <1>3. /\ IsFiniteSet(q.excluded \cup {tok})
        /\ q.tries + 1 = Cardinality(q.excluded \cup {tok})
    <2>1. /\ IsFiniteSet(q.excluded) /\ q.tries = Cardinality(q.excluded)
          /\ tok \notin q.excluded
      BY <1>1 DEF tok, RequestOK, AttemptsOK
    <2>2. ASSUME NEW S, NEW k \in Nat, IsFiniteSet(S), k = Cardinality(S), tok \notin S
          PROVE  IsFiniteSet(S \cup {tok}) /\ k + 1 = Cardinality(S \cup {tok})
      BY <2>2, FS_AddElement
    <2>3. q.tries \in Nat
      BY <1>1 DEF Request
    <2> HIDE DEF q
    <2> QED
      BY <2>1, <2>2, <2>3
  <1>4. q.tries \in 0..(MaxAccountAttempts - 1)
    BY <1>1, ServiceAssumption DEF RequestOK, AttemptsOK, Request
  <1>5. n \in Request
    <2>1. /\ q.tries + 1 \in 0..MaxAccountAttempts
          /\ q.excluded \cup {tok} \in SUBSET Tokens
          /\ tok \in Tokens \cup {None}
          /\ "post" \in PCs
      BY <1>1, <1>2, <1>4, ServiceAssumption DEF Request, PCs
    <2> QED
      BY <1>1, <1>2, <2>1 DEF Request
  <1>6. RequestOK(n)
    <2>1. PcFits(n) /\ SessionOK(n) /\ TokenOK(n)
      BY <1>1, <1>2 DEF Request, RequestOK, PcFits, SessionOK, TokenOK,
                        Trying, Picking
    <2>2. DialOK(n) /\ DialAgainOK(n) /\ DialNewOK(n)
      BY <1>1, <1>2 DEF tok, Request, RequestOK, DialOK, DialAgainOK, DialNewOK,
                        Trying, Picking, Stored, Sticky
    <2>3. TitleOK(n) /\ ContextOK(n)
      BY DEF TitleOK, ContextOK
    <2>4. AttemptsOK(n)
      BY <1>1, <1>3, <1>4 DEF Request, RequestOK, AttemptsOK, Sticky
    <2> QED
      BY <2>1, <2>2, <2>3, <2>4 DEF RequestOK
  <1>7. Unborn(n) => Unborn(q) /\ n.sid = q.sid
    BY <1>1 DEF Request, Unborn, Picking
  <1>8. Goto(r, n)
    BY DEF Chosen, tok
  <1> HIDE DEF n
  <1> QED
    BY <1>5, <1>6, <1>7, <1>8, MovesOn

\* A dial whose account is gone is answered, or releases its session first.
LEMMA GiveUpOK ==
    ASSUME Safe, Still, NEW r \in DOMAIN reqs, reqs[r].op = "dial", GiveUp(r)
    PROVE  RequestsOK'
  <1> DEFINE q == reqs[r]
             n == [q EXCEPT !.pc = "drop"]
  <1>1. q \in Request /\ RequestOK(q)
    BY Asker
  <1>2. CASE q.new /\ Reply(r)
    BY <1>2, Answered
  <1>3. CASE ~q.new /\ Goto(r, n)
    <2>1. n \in Request
      BY <1>1 DEF Request, PCs
    <2>2. RequestOK(n)
      BY <1>1, <1>3 DEF Request, RequestOK, PcFits, SessionOK, TokenOK, DialOK,
                  DialAgainOK, DialNewOK, TitleOK, ContextOK, AttemptsOK, Sticky,
                  Recording, Trying, Stored, Picking
    <2>3. ~Unborn(n)
      BY <1>1, <1>3 DEF Request, Unborn
    <2> QED
      BY <1>3, <2>1, <2>2, <2>3, MovesOn
  <1> QED
    BY <1>2, <1>3 DEF GiveUp

-----------------------------------------------------------------------------
(* The steps of a request, in the order of VoiceService.                   *)

\* A request whose session is live but another caller's changes nothing.
LEMMA BoundElsewhereSafe ==
    ASSUME Safe, NEW r, BoundElsewhere(r)
    PROVE  Safe'
  BY Parts, Reaping, Answered, LookupSafe DEF BoundElsewhere, Still, At

\* A request whose session is not live goes on to the durable row.
LEMMA NotBoundSafe ==
    ASSUME Safe, NEW r, NotBound(r)
    PROVE  Safe'
  <1> DEFINE q == reqs[r]
             n == [q EXCEPT !.pc = "lookup"]
  <1>1. r \in DOMAIN reqs /\ q.pc = "bound" /\ Still
    BY DEF NotBound, At, Still
  <1>2. q \in Request /\ RequestOK(q)
    BY <1>1, Asker
  <1>3. Thinned /\ rows' = ReapedRows
    BY Parts, Reaping DEF NotBound
  <1>4. RequestsOK'
    <2>1. CASE q.op = "upload"
      BY <1>1, <2>1, Answered DEF NotBound
    <2>2. CASE q.op # "upload"
      <3>1. n \in Request /\ RequestOK(n) /\ ~Unborn(n)
        BY <1>1, <1>2, <2>2 DEF Unborn, Request, PCs, RequestOK, PcFits, SessionOK, TokenOK, DialOK,
                      DialAgainOK, DialNewOK, TitleOK, ContextOK, AttemptsOK, Sticky,
                      Recording, Trying, Stored, Picking
      <3>2. Goto(r, n)
        BY <2>2 DEF NotBound
      <3> HIDE DEF n
      <3> QED
        BY <1>1, <3>1, <3>2, MovesOn
    <2> QED
      BY <2>1, <2>2
  <1> QED
    BY <1>1, <1>3, <1>4, LookupSafe

\* A request that finds its binding takes account, token and conversation of
\* it: all of the session's user.
LEMMA BoundSafe ==
    ASSUME Safe, NEW r, Bound(r)
    PROVE  Safe'
  <1> DEFINE q == reqs[r]
             b == Live[q.sid]
             n == [q EXCEPT !.pc = "pick", !.btok = b.token,
                            !.acct = IF @ > 0 THEN @ ELSE b.account,
                            !.conv = Merged(b.conv, @)]
             m == [q EXCEPT !.pc = "post", !.tok = b.token]
  <1>1. r \in DOMAIN reqs /\ q.pc = "bound" /\ BoundTo(q.sid, q.owner) /\ Still
    BY DEF Bound, At, Still
  <1>2. q \in Request /\ RequestOK(q) /\ ~q.new
    BY <1>1, Asker DEF RequestOK, PcFits, Picking, Stored, Trying
  <1>3. Thinned /\ rows' = ReapedRows
    BY Parts, Reaping DEF Bound
  <1>4. /\ b \in Binding /\ BindingOK(q.sid, b)
        /\ q.owner = minted[q.sid]
    BY <1>1, Parts DEF BindingsOK, BoundTo, Live, BindingOK
  <1>5. /\ b.token \in Tokens /\ b.account \in Nat /\ b.conv \in Conversations \cup {None}
        /\ UserOf[b.token] = home[q.sid]
        /\ Leads(b.account, home[q.sid])
        /\ b.conv \in GoesWith(home[q.sid])
    BY <1>4 DEF BindingOK, Binding
  <1> HIDE DEF b
  <1>6. b.token # None
    BY <1>5, ServiceAssumption
  <1>7. RequestsOK'
    <2>1. CASE q.op = "dial" /\ Goto(r, n)
      <3> DEFINE account == IF q.acct > 0 THEN q.acct ELSE b.account
                 conv == Merged(b.conv, q.conv)
      <3>1. /\ account \in Nat /\ (account = 0 \/ Leads(account, home[q.sid]))
            /\ conv \in Conversations \cup {None} /\ conv \in GoesWith(home[q.sid])
        BY <1>2, <1>5, <2>1 DEF Request, RequestOK, DialAgainOK, Merged
      <3>2. n = [q EXCEPT !.pc = "pick", !.btok = b.token, !.acct = account,
                          !.conv = conv]
        OBVIOUS
      <3> HIDE DEF account, conv, n
      <3>3. n \in Request
        BY <1>2, <1>5, <3>1, <3>2 DEF Request, PCs
      <3>4. RequestOK(n) /\ ~Unborn(n)
        BY <1>1, <1>2, <1>4, <1>5, <1>6, <2>1, <3>1, <3>2, ServiceAssumption
        DEF Unborn, Request, PCs, RequestOK, PcFits, SessionOK, TokenOK, DialOK,
                    DialAgainOK, DialNewOK, TitleOK, ContextOK, AttemptsOK, Sticky,
                    Recording, Trying, Stored, Picking
      <3> QED
        BY <1>1, <2>1, <3>3, <3>4, MovesOn
    <2>2. CASE q.op = "title" /\ AimTitle(r, b.token, b.conv)
      BY <1>1, <1>5, <2>2, AimTitleOK
    <2>3. CASE q.op = "upload" /\ Goto(r, m)
      <3>1. m \in Request /\ RequestOK(m) /\ ~Unborn(m)
        BY <1>1, <1>2, <1>5, <2>3 DEF Unborn, Request, PCs, RequestOK, PcFits, SessionOK, TokenOK, DialOK,
                      DialAgainOK, DialNewOK, TitleOK, ContextOK, AttemptsOK, Sticky,
                      Recording, Trying, Stored, Picking
      <3> HIDE DEF m
      <3> QED
        BY <1>1, <2>3, <3>1, MovesOn
    <2> QED
      BY <2>1, <2>2, <2>3 DEF Bound, b
  <1> QED
    BY <1>1, <1>3, <1>7, LookupSafe

\* The durable row aims a dial or a title at its session's user.
LEMMA LookupRowSafe ==
    ASSUME Safe, NEW r, Lookup(r)
    PROVE  Safe'
  <1> DEFINE q == reqs[r]
             row == rows[q.sid]
             account == IF q.acct > 0 THEN q.acct ELSE row.account
             conv == Merged(row.conv, q.conv)
             n == [q EXCEPT !.pc = IF account > 0 THEN "pickid" ELSE "pick",
                            !.acct = account, !.conv = conv]
             m == [q EXCEPT !.pc = "pickid", !.acct = row.account,
                            !.stored = row.conv]
  <1>1. /\ r \in DOMAIN reqs /\ q.pc = "lookup" /\ Still
        /\ bindings' = bindings /\ rows' = rows
    BY DEF Lookup, At, Still, stores
  <1>2. q \in Request /\ RequestOK(q) /\ ~q.new
    BY <1>1, Asker DEF RequestOK, PcFits, Picking, Stored, Trying
  <1>3. ASSUME Owned(rows, q.owner, q.sid)
        PROVE  /\ q.owner = minted[q.sid]
               /\ row.account \in Nat /\ row.account > 0
               /\ Leads(row.account, home[q.sid])
               /\ row.conv \in Conversations \cup {None} /\ row.conv \in GoesWith(home[q.sid])
    BY <1>3, Parts DEF RowsOK, RowOK, Owned, CallRow, Leads, WorldOK
  <1> HIDE DEF row
  <1>4. RequestsOK'
    <2>1. CASE Reply(r)
      BY <1>1, <2>1, Answered
    <2>2. CASE q.op = "dial" /\ Owned(rows, q.owner, q.sid) /\ Goto(r, n)
      <3>1. /\ account \in Nat /\ account > 0 /\ Leads(account, home[q.sid])
            /\ conv \in Conversations \cup {None} /\ conv \in GoesWith(home[q.sid])
        BY <1>2, <1>3, <2>2 DEF Request, RequestOK, DialAgainOK, Merged
      <3>2. n = [q EXCEPT !.pc = "pickid", !.acct = account, !.conv = conv]
        BY <3>1
      <3> HIDE DEF account, conv, n
      <3>3. n \in Request
        BY <1>2, <3>1, <3>2 DEF Request, PCs
      <3>4. RequestOK(n) /\ ~Unborn(n)
        BY <1>1, <1>2, <1>3, <2>2, <3>1, <3>2, ServiceAssumption
        DEF Unborn, Request, PCs, RequestOK, PcFits, SessionOK, TokenOK, DialOK,
                    DialAgainOK, DialNewOK, TitleOK, ContextOK, AttemptsOK, Sticky,
                    Recording, Trying, Stored, Picking
      <3> QED
        BY <1>1, <2>2, <3>3, <3>4, MovesOn
    <2>3. CASE q.op = "title" /\ Owned(rows, q.owner, q.sid) /\ Goto(r, m)
      <3>1. PICK a \in Nat, c \in Conversations \cup {None} :
               /\ a = row.account /\ c = row.conv
               /\ Leads(a, home[q.sid]) /\ c \in GoesWith(home[q.sid])
        BY <1>3, <2>3
      <3>2. m = [q EXCEPT !.pc = "pickid", !.acct = a, !.stored = c]
        BY <3>1
      <3> HIDE DEF m
      <3>3. m \in Request
        <4>1. "pickid" \in PCs
          BY DEF PCs
        <4> QED
          BY <1>2, <3>2, <4>1 DEF Request
      <3>4. RequestOK(m) /\ ~Unborn(m)
        BY <1>1, <1>2, <1>3, <2>3, <3>1, <3>2
        DEF Unborn, Request, RequestOK, PcFits, SessionOK, TokenOK, DialOK,
            DialAgainOK, DialNewOK, TitleOK, ContextOK, AttemptsOK, Sticky,
            Recording, Trying, Stored, Picking
      <3> QED
        BY <1>1, <2>3, <3>3, <3>4, MovesOn
    <2> QED
      BY <2>1, <2>2, <2>3 DEF Lookup, row
  <1> QED
    BY <1>1, <1>4, StoresStill

\* A dial with a bound token picks the account that holds it, or goes on to
\* the account by its id.
LEMMA PickBoundTokenSafe ==
    ASSUME Safe, NEW r, PickBoundToken(r)
    PROVE  Safe'
  <1> DEFINE q == reqs[r]
             n == [q EXCEPT !.pc = "pickid"]
  <1>1. /\ r \in DOMAIN reqs /\ q.pc = "pick" /\ q.btok # None /\ Still
        /\ bindings' = bindings /\ rows' = rows
    BY DEF PickBoundToken, At, Still, stores
  <1>2. q \in Request /\ RequestOK(q)
    BY <1>1, Asker
  <1>3. /\ q.op = "dial" /\ ~q.new /\ UserOf[q.btok] = home[q.sid]
    BY <1>1, <1>2 DEF Request, AllKinds, RequestOK, PcFits, Recording, DialNewOK,
                      DialAgainOK
  <1>4. RequestsOK'
    <2>1. ASSUME NEW i \in PickableByToken(accounts, q.btok, q.excluded),
                 Chosen(r, i)
          PROVE  RequestsOK'
      <3>1. /\ i \in DOMAIN accounts
            /\ accounts[i].token = q.btok /\ accounts[i].token \notin q.excluded
        BY DEF PickableByToken, Pickable, Holders
      <3> QED
        BY <1>1, <1>3, <2>1, <3>1, ChosenOK
    <2>2. CASE q.acct > 0 /\ Goto(r, n)
      <3>1. n \in Request /\ RequestOK(n) /\ ~Unborn(n)
        BY <1>1, <1>2, <1>3, <2>2 DEF Unborn, Request, PCs, RequestOK, PcFits, SessionOK, TokenOK, DialOK,
                      DialAgainOK, DialNewOK, TitleOK, ContextOK, AttemptsOK, Sticky,
                      Recording, Trying, Stored, Picking
      <3> HIDE DEF n
      <3> QED
        BY <1>1, <2>2, <3>1, MovesOn
    <2>3. CASE GiveUp(r)
      BY <1>1, <1>3, <2>3, GiveUpOK
    <2> QED
      BY <2>1, <2>2, <2>3 DEF PickBoundToken
  <1> QED
    BY <1>1, <1>4, StoresStill

\* Only the first dial of a session may pick any account, and it has no
\* conversation to continue.
LEMMA PickAnySafe ==
    ASSUME Safe, NEW r, PickAny(r)
    PROVE  Safe'
  <1> DEFINE q == reqs[r]
  <1>1. /\ r \in DOMAIN reqs /\ q.pc = "pick" /\ q.btok = None /\ Still
        /\ bindings' = bindings /\ rows' = rows
    BY DEF PickAny, At, Still, stores
  <1>2. q \in Request /\ RequestOK(q)
    BY <1>1, Asker
  <1>3. q.op = "dial"
    BY <1>1, <1>2 DEF Request, AllKinds, RequestOK, PcFits, Recording
  <1>4. q.acct = 0 /\ q.new
    BY <1>1, <1>2, <1>3 DEF RequestOK, DialOK, DialAgainOK, Sticky, Picking
  <1>5. q.conv \notin Users
    BY <1>1, <1>2, <1>3, <1>4, Parts DEF RequestOK, DialNewOK, Leads, WorldOK, Picking
  <1>6. RequestsOK'
    <2>1. ASSUME NEW i \in Pickable(accounts, q.excluded), Chosen(r, i)
          PROVE  RequestsOK'
      <3>1. i \in DOMAIN accounts /\ accounts[i].token \notin q.excluded
        BY DEF Pickable
      <3> QED
        BY <1>1, <1>3, <1>4, <1>5, <2>1, <3>1, ChosenOK
    <2>2. CASE Reply(r)
      BY <1>1, <2>2, Answered
    <2> QED
      BY <2>1, <2>2 DEF PickAny
  <1> QED
    BY <1>1, <1>6, StoresStill

\* The account a dial names is one of the right user
\* (service.go:931-933).
LEMMA PickByIDSafe ==
    ASSUME Safe, NEW r, PickByID(r)
    PROVE  Safe'
  <1> DEFINE q == reqs[r]
  <1>1. /\ r \in DOMAIN reqs /\ q.pc = "pickid" /\ q.op = "dial" /\ Still
        /\ bindings' = bindings /\ rows' = rows
    BY DEF PickByID, At, Still, stores
  <1>2. q \in Request /\ RequestOK(q)
    BY <1>1, Asker
  <1>3. RequestsOK'
    <2>1. ASSUME NEW i \in PickableById(accounts, q.acct, q.excluded), Chosen(r, i)
          PROVE  RequestsOK'
      <3>1. /\ i = q.acct /\ i \in DOMAIN accounts /\ i # 0
            /\ accounts[i].token \in Tokens
            /\ accounts[i].token \notin q.excluded
        BY Parts DEF PickableById, Pickable, WorldOK, AccountRow
      <3>2. /\ q.new /\ q.conv \in Users => UserOf[accounts[i].token] = q.conv
            /\ ~q.new => UserOf[accounts[i].token] = home[q.sid]
        BY <1>1, <1>2, <2>1, <3>1 DEF RequestOK, DialNewOK, DialAgainOK, Leads,
                                      Picking
      <3> QED
        BY <1>1, <2>1, <3>1, <3>2, ChosenOK
    <2>2. CASE GiveUp(r)
      BY <1>1, <2>2, GiveUpOK
    <2> QED
      BY <2>1, <2>2 DEF PickByID
  <1> QED
    BY <1>1, <1>3, StoresStill

\* So is the account the row names to a title (service.go:389-402).
LEMMA PickForTitleSafe ==
    ASSUME Safe, NEW r, PickForTitle(r)
    PROVE  Safe'
  <1> DEFINE q == reqs[r]
  <1>1. /\ r \in DOMAIN reqs /\ q.pc = "pickid" /\ q.op = "title" /\ Still
        /\ bindings' = bindings /\ rows' = rows
    BY DEF PickForTitle, At, Still, stores
  <1>2. q \in Request /\ RequestOK(q)
    BY <1>1, Asker
  <1>3. RequestsOK'
    <2>1. ASSUME NEW i \in PickableById(accounts, q.acct, {}),
                 AimTitle(r, accounts[i].token, q.stored)
          PROVE  RequestsOK'
      <3>1. /\ i = q.acct /\ i \in DOMAIN accounts /\ i # 0
            /\ accounts[i].token \in Tokens
        BY Parts DEF PickableById, Pickable, WorldOK, AccountRow
      <3>2. /\ UserOf[accounts[i].token] = home[q.sid]
            /\ q.stored \in Conversations \cup {None} /\ q.stored \in GoesWith(home[q.sid])
        BY <1>1, <1>2, <2>1, <3>1 DEF RequestOK, TitleOK, Leads, Request
      <3> QED
        BY <1>1, <2>1, <3>1, <3>2, AimTitleOK
    <2>2. CASE Reply(r)
      BY <1>1, <2>2, Answered
    <2> QED
      BY <2>1, <2>2 DEF PickForTitle
  <1> QED
    BY <1>1, <1>3, StoresStill

-----------------------------------------------------------------------------

\* An accepted dial goes on to be bound with the token just used
\* (service.go:1127).
LEMMA AcceptedSafe ==
    ASSUME Safe, NEW r, Accepted(r)
    PROVE  Safe'
  <1> DEFINE q == reqs[r]
             n == [q EXCEPT !.pc = "bind"]
  <1>1. /\ r \in DOMAIN reqs /\ q.pc = "post" /\ Still
        /\ bindings' = bindings /\ rows' = rows
    BY DEF Accepted, At, Still, stores
  <1>2. q \in Request /\ RequestOK(q)
    BY <1>1, Asker
  <1>3. q.op = "dial" /\ Goto(r, n)
    BY DEF Accepted
  <1>4. n \in Request /\ RequestOK(n) /\ (Unborn(n) => Unborn(q) /\ n.sid = q.sid)
    BY <1>1, <1>2, <1>3
    DEF Unborn, Request, PCs, RequestOK, PcFits, SessionOK, TokenOK, DialOK,
        DialAgainOK, DialNewOK, TitleOK, ContextOK, AttemptsOK, Sticky,
        Recording, Trying, Stored, Picking
  <1>5. RequestsOK'
    <2> HIDE DEF n
    <2> QED
      BY <1>1, <1>3, <1>4, MovesOn
  <1> QED
    BY <1>1, <1>5, StoresStill

\* Any other answer but a 401 ends the request (service.go:1076-1082,
\* 1113-1125).
LEMMA RefusedSafe ==
    ASSUME Safe, NEW r,
           Refused(r) \/ TitleAnswered(r) \/ UploadAnswered(r) \/ ProbeAnswered(r)
    PROVE  Safe'
  BY Answered, StoresStill
  DEF Refused, TitleAnswered, UploadAnswered, ProbeAnswered, Still, stores

\* Steps that change the world but no binding and no row.
LEMMA WorldSafe ==
    ASSUME Safe, WorldOK', Grows, bindings' = bindings, rows' = rows,
           known' = known, erased' = erased, RequestsOK'
    PROVE  Safe'
  <1>1. WorldOK /\ BindingsOK /\ RowsOK /\ KnownOK
    BY Parts
  <1>2. Thinned /\ Restated
    BY <1>1 DEF Thinned, Restated, BindingsOK, RowsOK
  <1>3. KnownOK'
    BY <1>1, KnownKept
  <1> QED
    BY <1>1, <1>2, <1>3, ThinnedOK, RestatedOK, Parts

\* A 401 is remembered against the token that was sent.
LEMMA UnauthorizedSafe ==
    ASSUME Safe, NEW r, Unauthorized(r)
    PROVE  Safe'
  <1> DEFINE q == reqs[r]
             n == [q EXCEPT !.pc = "mark"]
  <1>1. /\ r \in DOMAIN reqs /\ q.pc = "post" /\ Goto(r, n)
        /\ rejected' = rejected \cup {q.tok}
        /\ UNCHANGED <<stores, minted, home, known, erased, ops, edits>>
    BY DEF Unauthorized, At
  <1>2. q \in Request /\ RequestOK(q) /\ WorldOK /\ RequestsOK
    BY <1>1, Asker
  <1>3. WorldOK' /\ Grows
    BY <1>1, <1>2 DEF WorldOK, Grows, RequestOK, TokenOK, stores
  <1>4. n \in Request /\ (Unborn(n) => Unborn(q) /\ n.sid = q.sid)
    BY <1>1, <1>2 DEF Request, PCs, Unborn, Picking, Trying
  <1>5. PICK x \in Request : x = n
    BY <1>4
  <1>6. RequestOK(x)'
    <2>1. PICK y \in Request : y = q /\ RequestOK(y)
      BY <1>2
    <2>2. RequestOK(y)'
      BY <1>2, <1>3, <2>1, RequestKept
    <2>3. x = [y EXCEPT !.pc = "mark"] /\ y.pc = "post" /\ y.tok \in rejected'
      BY <1>1, <1>5, <2>1
    <2> HIDE DEF q, n
    <2>4. (PcFits(x) /\ SessionOK(x) /\ TokenOK(x) /\ DialOK(x))'
      BY <2>1, <2>2, <2>3 DEF Request, RequestOK, PcFits, SessionOK, TokenOK,
                              DialOK, Leads, Trying, Stored, Picking, Recording
    <2>5. (DialAgainOK(x) /\ DialNewOK(x) /\ TitleOK(x) /\ ContextOK(x))'
      BY <2>1, <2>2, <2>3 DEF Request, RequestOK, DialAgainOK, DialNewOK, TitleOK,
                ContextOK, Leads, Trying, Stored, Picking, Recording, Sticky
    <2>6. AttemptsOK(x)'
      BY <2>1, <2>2, <2>3 DEF Request, RequestOK, AttemptsOK, Sticky
    <2> QED
      BY <2>4, <2>5, <2>6 DEF RequestOK
  <1>7. RequestsOK'
    BY <1>1, <1>2, <1>3, <1>4, <1>5, <1>6, GotoOK
  <1> QED
    BY <1>1, <1>3, <1>7, WorldSafe DEF stores

\* Disabling the account that holds a rejected token moves nobody.
LEMMA MarkInvalidSafe ==
    ASSUME Safe, NEW r, MarkInvalid(r)
    PROVE  Safe'
  <1> DEFINE q == reqs[r]
             n == [q EXCEPT !.pc = "drop"]
             m == [q EXCEPT !.pc = "pick", !.conv = None]
  <1>1. /\ r \in DOMAIN reqs /\ q.pc = "mark"
        /\ accounts' = Invalidated(accounts, q.tok)
        /\ UNCHANGED <<nextId, bindings, rows, history, ops, edits>>
    BY DEF MarkInvalid, At
  <1>2. q \in Request /\ RequestOK(q) /\ WorldOK /\ RequestsOK
    BY <1>1, Asker
  <1>3. WorldOK' /\ Grows
    <2>1. /\ DOMAIN accounts' = DOMAIN accounts
          /\ accounts' \in [DOMAIN accounts -> AccountRow]
          /\ \A i \in DOMAIN accounts : accounts'[i].token = accounts[i].token
      BY <1>1, <1>2, InvalidatedIsTable DEF WorldOK
    <2> QED
      BY <1>1, <1>2, <2>1 DEF WorldOK, Grows, history
  <1>4. RequestsOK'
    <2>1. CASE Reply(r)
      BY <1>1, <1>2, <1>3, <2>1, ReplyOK DEF history
    <2>2. CASE q.op = "dial" /\ q.tok = q.btok /\ Goto(r, n)
      <3>1. ~q.new
        BY <1>1, <1>2, <2>2, ServiceAssumption DEF RequestOK, DialNewOK, TokenOK
      <3>2. n \in Request /\ RequestOK(n) /\ ~Unborn(n)
        BY <1>1, <1>2, <2>2, <3>1 DEF Unborn, Request, PCs, RequestOK, PcFits, SessionOK, TokenOK, DialOK,
                      DialAgainOK, DialNewOK, TitleOK, ContextOK, AttemptsOK, Sticky,
                      Recording, Trying, Stored, Picking
      <3>3. PICK x \in Request : x = n /\ RequestOK(x)
        BY <3>2
      <3>4. RequestOK(x)'
        BY <1>2, <1>3, <3>3, RequestKept
      <3> QED
        BY <1>1, <1>2, <1>3, <2>2, <3>2, <3>3, <3>4, GotoOK DEF history
    <2>3. CASE /\ q.op = "dial" /\ ~Sticky(q) /\ q.tries < MaxAccountAttempts
               /\ Goto(r, m)
      <3>1. q.acct = 0 /\ q.btok = None /\ q.new
        BY <1>1, <1>2, <2>3 DEF Request, RequestOK, DialAgainOK, Sticky, Picking,
                                Trying
      <3>2. m \in Request
        BY <1>2 DEF Request, PCs
      <3>3. PcFits(m) /\ SessionOK(m) /\ TokenOK(m) /\ TitleOK(m) /\ ContextOK(m)
        BY <1>1, <1>2, <2>3 DEF Request, RequestOK, PcFits, SessionOK, TokenOK,
                                TitleOK, ContextOK, Picking
      <3>4. DialOK(m) /\ DialAgainOK(m) /\ DialNewOK(m)
        BY <1>1, <1>2, <2>3, <3>1, ConversationKinds
        DEF Request, RequestOK, DialOK, DialAgainOK, DialNewOK, Picking, Trying, Stored
      <3>5. AttemptsOK(m)
        BY <1>1, <1>2, <2>3 DEF Request, RequestOK, AttemptsOK, Sticky
      <3>6. m \in Request /\ RequestOK(m) /\ (Unborn(m) => Unborn(q) /\ m.sid = q.sid)
        BY <1>1, <1>2, <3>2, <3>3, <3>4, <3>5 DEF Request, RequestOK, Unborn, Picking, Trying
      <3>7. PICK x \in Request : x = m /\ RequestOK(x)
        BY <3>6
      <3>8. RequestOK(x)'
        BY <1>2, <1>3, <3>7, RequestKept
      <3> QED
        BY <1>1, <1>2, <1>3, <2>3, <3>6, <3>7, <3>8, GotoOK DEF history
    <2> QED
      BY <2>1, <2>2, <2>3 DEF MarkInvalid
  <1> QED
    BY <1>1, <1>3, <1>4, WorldSafe DEF history

-----------------------------------------------------------------------------
(* Writing one binding and one row.                                        *)

\* Writing one sound binding, possibly in place of another.
LEMMA BindingWritten ==
    ASSUME WorldOK, WorldOK', Grows, BindingsOK,
           NEW s \in DOMAIN minted, NEW b \in Binding, BindingOK(s, b)',
           DOMAIN bindings' \subseteq DOMAIN bindings \cup {s},
           bindings' = [t \in DOMAIN bindings' |-> IF t = s THEN b ELSE bindings[t]]
    PROVE  BindingsOK'
  <1>1. ASSUME NEW t \in DOMAIN bindings'
        PROVE  /\ t \in DOMAIN minted'
               /\ bindings'[t] \in Binding
               /\ BindingOK(t, bindings[t])'
    <2>1. CASE t = s
      <3>1. bindings'[t] = b
        BY <2>1
      <3> QED
        BY <2>1, <3>1 DEF Grows
    <2>2. CASE t # s
      <3>1. t \in DOMAIN minted
        BY <2>2 DEF BindingsOK
      <3>2. PICK x \in Binding : x = bindings[t] /\ BindingOK(t, x)
        BY <2>2 DEF BindingsOK
      <3>3. x = bindings'[t] /\ BindingOK(t, x)'
        BY <2>2, <3>1, <3>2, BindingKept
      <3> QED
        BY <3>1, <3>3 DEF Grows
    <2> QED
      BY <2>1, <2>2
  <1>2. bindings' \in [DOMAIN bindings' -> Binding]
    BY <1>1
  <1> QED
    BY <1>1, <1>2 DEF BindingsOK

\* Writing one sound row, possibly in place of another.
LEMMA RowWritten ==
    ASSUME WorldOK, WorldOK', Grows, RowsOK,
           NEW s \in DOMAIN minted, NEW row \in CallRow, RowOK(s, row)',
           rows' = [t \in DOMAIN rows \cup {s} |-> IF t = s THEN row ELSE rows[t]]
    PROVE  RowsOK'
  <1>1. ASSUME NEW t \in DOMAIN rows'
        PROVE  /\ t \in DOMAIN minted'
               /\ rows'[t] \in CallRow
               /\ RowOK(t, rows[t])'
    <2>1. CASE t = s
      <3>1. rows'[t] = row
        BY <2>1
      <3> QED
        BY <2>1, <3>1 DEF Grows
    <2>2. CASE t # s
      <3>1. t \in DOMAIN minted
        BY <2>2 DEF RowsOK
      <3>2. PICK x \in CallRow : x = rows[t] /\ RowOK(t, x)
        BY <2>2 DEF RowsOK
      <3>3. x = rows'[t] /\ RowOK(t, x)'
        BY <2>2, <3>1, <3>2, RowKept
      <3> QED
        BY <3>1, <3>3 DEF Grows
    <2> QED
      BY <2>1, <2>2
  <1>2. rows' \in [DOMAIN rows' -> CallRow]
    BY <1>1
  <1> QED
    BY <1>1, <1>2 DEF RowsOK

\* The first bind of a session settles its user; a later one finds that the
\* token in use is one of the same user (service.go:194-233).
LEMMA BindSafe ==
    ASSUME Safe, NEW r, Bind(r)
    PROVE  Safe'
  <1> DEFINE q == reqs[r]
             u == UserOf[q.tok]
             conv == IF BoundTo(q.sid, q.owner)
                     THEN Merged(Live[q.sid].conv, q.conv) ELSE q.conv
             binding == [owner |-> q.owner, account |-> q.use, token |-> q.tok,
                         conv |-> conv, expired |-> FALSE]
             n == [q EXCEPT !.pc = "reread"]
  <1>1. /\ r \in DOMAIN reqs /\ q.pc = "bind" /\ Goto(r, n)
        /\ bindings' = Inserted(Live, q.sid, binding)
        /\ rows' = ReapedRows
        /\ home' = IF q.sid \in DOMAIN home THEN home ELSE Inserted(home, q.sid, u)
        /\ UNCHANGED <<accounts, nextId, minted, known, erased, rejected, ops, edits>>
    BY DEF Bind, At
  <1>2. /\ q \in Request /\ RequestOK(q) /\ r \in Requests
        /\ WorldOK /\ BindingsOK /\ RowsOK /\ KnownOK /\ RequestsOK
    BY <1>1, Asker, Parts
  <1>3. q.op = "dial"
    BY <1>1, <1>2 DEF Request, AllKinds, RequestOK, PcFits, Recording
  <1>4. /\ q.tok \in Tokens /\ Leads(q.use, u) /\ q.owner = minted[q.sid]
        /\ q.sid \in DOMAIN minted /\ q.owner \in Owners /\ u \in Users
    BY <1>1, <1>2, <1>3, ServiceAssumption
    DEF RequestOK, DialOK, SessionOK, Trying, Picking, Users
  <1>5. q.sid \in DOMAIN home => home[q.sid] = u
    BY <1>1, <1>2, <1>3 DEF RequestOK, DialAgainOK, RequestsOK, FreshIds, Unborn,
                            Trying, Picking
  <1>6. /\ q.conv \in Conversations \cup {None}
        /\ q.conv \in GoesWith(u)
    BY <1>1, <1>2, <1>3, <1>5, ConversationKinds
    DEF Request, RequestOK, DialAgainOK, DialNewOK, SessionOK, Trying, Picking
  <1>7. conv \in Conversations \cup {None} /\ conv \in GoesWith(u)
    BY <1>2, <1>4, <1>5, <1>6 DEF BoundTo, Live, BindingsOK, BindingOK, Binding, Merged
  <1> HIDE DEF u, conv
  <1>8. /\ WorldOK' /\ Grows
        /\ q.sid \in DOMAIN home' /\ home'[q.sid] = u
        /\ DOMAIN home' = DOMAIN home \cup {q.sid}
    BY <1>1, <1>2, <1>4, <1>5 DEF WorldOK, Grows, Inserted
  <1>9. BindingsOK'
    <2>1. PICK b : b = binding
      OBVIOUS
    <2>2. PICK s : s = q.sid
      OBVIOUS
    <2>3. b \in Binding
      BY <1>2, <1>4, <1>7, <2>1 DEF Binding, Request
    <2>4. BindingOK(s, b)'
      <3>1. /\ b.owner = minted'[s] /\ s \in DOMAIN home' /\ home'[s] = u
            /\ b.token = q.tok /\ b.account = q.use /\ b.conv \in GoesWith(u)
            /\ UserOf[b.token] = u
        BY <1>1, <1>4, <1>7, <1>8, <2>1, <2>2 DEF u
      <3>2. b.account \in 1..(nextId' - 1)
        BY <1>1, <1>4, <3>1 DEF Leads
      <3>3. b.account \in DOMAIN accounts' => UserOf[accounts'[b.account].token] = u
        BY <1>1, <1>4, <3>1 DEF Leads
      <3> QED
        BY <3>1, <3>2, <3>3 DEF BindingOK, Leads
    <2>5. /\ DOMAIN bindings' \subseteq DOMAIN bindings \cup {s}
          /\ bindings' = [t \in DOMAIN bindings' |-> IF t = s THEN b ELSE bindings[t]]
      BY <1>1, <2>1, <2>2 DEF Inserted, Live, Expired
    <2> QED
      BY <1>2, <1>4, <1>8, <2>2, <2>3, <2>4, <2>5, BindingWritten
  <1>10. RowsOK' /\ DOMAIN rows' = DOMAIN rows
    BY <1>1, <1>2, <1>8, Reaping, RestatedOK
  <1>11. RequestsOK'
    <2>1. PICK y \in Request : y = q /\ RequestOK(y)
      BY <1>2
    <2>2. RequestOK(y)'
      BY <1>2, <1>8, <2>1, RequestKept
    <2>3. PICK x \in Request : x = n
      <3>1. n \in Request
        BY <1>2 DEF Request, PCs
      <3> QED
        BY <3>1
    <2>4. /\ x = [y EXCEPT !.pc = "reread"] /\ y.pc = "bind" /\ y.op = "dial"
          /\ y.sid \in DOMAIN home' /\ home'[y.sid] = u /\ u = UserOf[y.tok]
          /\ y.conv \in GoesWith(u)
      BY <1>1, <1>3, <1>6, <1>8, <2>1, <2>3 DEF u
    <2>5. RequestOK(x)'
      <3> HIDE DEF q, n
      <3>1. (PcFits(x) /\ SessionOK(x) /\ TokenOK(x) /\ DialOK(x))'
        BY <2>1, <2>2, <2>4 DEF Request, RequestOK, PcFits, SessionOK, TokenOK,
                                DialOK, Leads, Trying, Stored, Picking
      <3>2. (DialAgainOK(x) /\ DialNewOK(x) /\ TitleOK(x) /\ ContextOK(x))'
        BY <2>1, <2>2, <2>4 DEF Request, RequestOK, DialAgainOK, DialNewOK,
                TitleOK, ContextOK, Leads, Trying, Stored, Picking, Sticky
      <3>3. AttemptsOK(x)'
        BY <2>1, <2>2, <2>4 DEF Request, RequestOK, AttemptsOK, Sticky
      <3> QED
        BY <3>1, <3>2, <3>3 DEF RequestOK
    <2>6. ~Unborn(x)
      BY <2>1, <2>4 DEF Request, Unborn, Picking, Trying
    <2>7. reqs' = [p \in DOMAIN reqs \cup {r} |-> IF p = r THEN x ELSE reqs[p]]
      BY <1>1, <1>2, <2>3 DEF Goto, RequestsOK
    <2>8. \A p \in DOMAIN reqs \ {r} :
             Unborn(reqs[p]) => reqs[p].sid \notin DOMAIN home'
      BY <1>1, <1>2, <1>3, <1>8 DEF RequestsOK, FreshIds, Unborn, RequestOK,
                               SessionOK, Picking, Trying
    <2> QED
      BY <1>2, <1>8, <2>5, <2>6, <2>7, <2>8, MoveOK
  <1>12. KnownOK'
    BY <1>1, <1>2, <1>8, <1>10, KnownKept
  <1> QED
    BY <1>8, <1>9, <1>10, <1>11, <1>12, Parts

\* What a dial reads back is its session's, whoever bound it meanwhile.
LEMMA RereadSafe ==
    ASSUME Safe, NEW r, Reread(r)
    PROVE  Safe'
  <1> DEFINE q == reqs[r]
             found == BoundTo(q.sid, q.owner)
             conv == IF found THEN Live[q.sid].conv ELSE q.conv
             n == [q EXCEPT !.pc = "persist", !.conv = conv]
  <1>1. /\ r \in DOMAIN reqs /\ q.pc = "reread" /\ Still /\ Goto(r, n)
        /\ bindings' = IF found THEN Refreshed(q.sid) ELSE Live
        /\ rows' = ReapedRows
    BY DEF Reread, At, Still
  <1>2. q \in Request /\ RequestOK(q) /\ BindingsOK /\ RowsOK
    BY <1>1, Asker
  <1>3. q.op = "dial"
    BY <1>1, <1>2 DEF Request, AllKinds, RequestOK, PcFits, Recording
  <1>4. conv \in Conversations \cup {None} /\ conv \in GoesWith(home[q.sid])
    BY <1>1, <1>2, <1>3 DEF BoundTo, Live, BindingsOK, BindingOK, Binding,
                            Request, RequestOK, DialOK, Stored
  <1> HIDE DEF conv
  <1>5. n \in Request
    BY <1>2, <1>4 DEF Request, PCs
  <1>6. RequestOK(n) /\ ~Unborn(n)
    BY <1>1, <1>2, <1>3, <1>4 DEF Unborn, Request, PCs, RequestOK, PcFits, SessionOK, TokenOK, DialOK,
                      DialAgainOK, DialNewOK, TitleOK, ContextOK, AttemptsOK, Sticky,
                      Recording, Trying, Stored, Picking
  <1> HIDE DEF n
  <1>7. RequestsOK'
    BY <1>1, <1>5, <1>6, MovesOn
  <1>8. Thinned
    BY <1>1, <1>2, Reaping
  <1> QED
    BY <1>1, <1>7, <1>8, LookupSafe

\* The row and the answer name the session's caller, an account that leads to
\* its user, and a conversation of his (service.go:1136-1156).
LEMMA PersistSafe ==
    ASSUME Safe, NEW r, Persist(r)
    PROVE  Safe'
  <1> DEFINE q == reqs[r]
             fact == [owner |-> q.owner, sid |-> q.sid, acct |-> q.use,
                      user |-> UserOf[q.tok]]
             isNew == q.sid \notin DOMAIN rows
             account == IF q.use > 0 \/ isNew THEN q.use ELSE rows[q.sid].account
             conv == IF isNew THEN q.conv ELSE Merged(rows[q.sid].conv, q.conv)
             row == [owner |-> q.owner, account |-> account, conv |-> conv,
                     status |-> "active"]
  <1>1. /\ r \in DOMAIN reqs /\ q.pc = "persist" /\ Reply(r)
        /\ rows' = [s \in DOMAIN rows \cup {q.sid} |->
                       IF s = q.sid THEN row ELSE rows[s]]
        /\ known' = known \cup {fact}
        /\ UNCHANGED <<accounts, nextId, bindings, minted, home, erased, rejected,
                       ops, edits>>
    BY DEF Persist, At, Upserted
  <1>2. /\ q \in Request /\ RequestOK(q)
        /\ WorldOK /\ BindingsOK /\ RowsOK /\ KnownOK /\ RequestsOK
    BY <1>1, Asker, Parts
  <1>3. q.op = "dial"
    BY <1>1, <1>2 DEF Request, AllKinds, RequestOK, PcFits, Recording
  <1>4. /\ q.owner = minted[q.sid] /\ q.owner \in Owners
        /\ q.sid \in DOMAIN minted /\ q.sid \in Sessions
        /\ q.sid \in DOMAIN home /\ UserOf[q.tok] = home[q.sid]
        /\ Leads(q.use, home[q.sid]) /\ home[q.sid] \in Users
        /\ q.use \in Nat /\ q.use > 0
        /\ q.conv \in Conversations \cup {None} /\ q.conv \in GoesWith(home[q.sid])
    BY <1>1, <1>2, <1>3 DEF Request, RequestOK, DialOK, SessionOK, Stored, WorldOK,
                            Leads
  <1>5. WorldOK' /\ Grows /\ home' = home
    BY <1>1, <1>2, <1>4 DEF WorldOK, Grows, Fact
  <1>6. /\ row \in CallRow
        /\ row.owner = q.owner /\ row.account = q.use
        /\ row.conv \in GoesWith(home[q.sid])
    <2>1. account = q.use
      BY <1>4
    <2>2. conv \in Conversations \cup {None} /\ conv \in GoesWith(home[q.sid])
      BY <1>2, <1>4 DEF CallRow, RowsOK, RowOK, Merged
    <2> HIDE DEF account, conv
    <2> QED
      BY <1>4, <2>1, <2>2 DEF CallRow, Users
  <1> HIDE DEF row
  <1>7. RowsOK'
    <2>1. PICK s, x : s = q.sid /\ x = row
      OBVIOUS
    <2>2. x \in CallRow /\ RowOK(s, x)'
      BY <1>1, <1>4, <1>6, <2>1 DEF RowOK, Leads
    <2> QED
      BY <1>1, <1>2, <1>4, <1>5, <2>1, <2>2, RowWritten
  <1>8. BindingsOK'
    BY <1>1, <1>2, <1>5, ThinnedOK DEF Thinned, BindingsOK
  <1>9. RequestsOK'
    BY <1>1, <1>2, <1>5, ReplyOK
  <1>10. KnownOK'
    <2> SUFFICES ASSUME NEW k \in known' PROVE FactOK(k)'
      BY DEF KnownOK
    <2>1. CASE k = fact
      <3>1. /\ k.sid \in DOMAIN home' /\ k.owner = minted'[k.sid]
            /\ k.user = home'[k.sid]
            /\ k.acct \in 1..(nextId' - 1)
            /\ k.acct \in DOMAIN accounts' => UserOf[accounts'[k.acct].token] = k.user
            /\ k.sid \in DOMAIN rows'
        BY <1>1, <1>4, <2>1 DEF Leads
      <3> QED
        BY <3>1 DEF FactOK, Leads
    <2>2. CASE k \in known
      BY <1>1, <1>2, <2>2 DEF KnownOK, FactOK, Leads
    <2> QED
      BY <1>1, <2>1, <2>2
  <1> QED
    BY <1>5, <1>7, <1>8, <1>9, <1>10, Parts

-----------------------------------------------------------------------------
(* UpdateSessionContext.                                                   *)

\* A context that is recorded for a title lets the title go on.
LEMMA RecordedOK ==
    ASSUME Safe, Still, NEW r \in DOMAIN reqs,
           reqs[r].op \in {"title", "context"}, reqs[r].pc \in Recording, Recorded(r)
    PROVE  RequestsOK'
  <1> DEFINE q == reqs[r]
             n == [q EXCEPT !.pc = "post"]
  <1>1. q \in Request /\ RequestOK(q)
    BY Asker
  <1>2. CASE q.op = "title" /\ Goto(r, n)
    <2>1. n \in Request /\ RequestOK(n) /\ ~Unborn(n)
      BY <1>1, <1>2 DEF Unborn, Request, PCs, RequestOK, PcFits, SessionOK, TokenOK, DialOK,
                      DialAgainOK, DialNewOK, TitleOK, ContextOK, AttemptsOK, Sticky,
                      Recording, Trying, Stored, Picking
    <2> HIDE DEF n
    <2> QED
      BY <1>2, <2>1, MovesOn
  <1>3. CASE Reply(r)
    BY <1>3, Answered
  <1> QED
    BY <1>2, <1>3 DEF Recorded

\* UpdateUpstream leaves a row with the session's caller and user.
LEMMA ContinuedOK ==
    ASSUME Safe, Still, NEW r \in DOMAIN reqs,
           reqs[r].op \in {"title", "context"}, reqs[r].pc \in {"sync", "ctxput"},
           Owned(rows, reqs[r].owner, reqs[r].sid),
           rows' = Continued(rows, reqs[r].sid, reqs[r].acct, reqs[r].conv)
    PROVE  RowsOK' /\ DOMAIN rows' = DOMAIN rows
  <1> DEFINE q == reqs[r]
             old == rows[q.sid]
             account == IF q.acct > 0 THEN q.acct ELSE old.account
             conv == Merged(old.conv, q.conv)
             row == [owner |-> old.owner, account |-> account, conv |-> conv,
                     status |-> "active"]
  <1>1. q \in Request /\ RequestOK(q) /\ WorldOK /\ RowsOK
    BY Asker
  <1>2. WorldOK' /\ Grows
    BY <1>1, StillGrows
  <1>3. /\ q.sid \in DOMAIN rows /\ q.sid \in DOMAIN minted
        /\ old \in CallRow /\ RowOK(q.sid, old)
    BY <1>1 DEF Owned, RowsOK
  <1>4. /\ q.acct \in Nat /\ Leads(q.acct, home[q.sid])
        /\ q.conv \in Conversations \cup {None} /\ q.conv \in GoesWith(home[q.sid])
    BY <1>1 DEF Request, RequestOK, ContextOK
  <1>5. /\ row \in CallRow /\ row.owner = minted[q.sid]
        /\ Leads(row.account, home[q.sid])
        /\ row.conv \in GoesWith(home[q.sid])
    <2>1. account \in Nat /\ Leads(account, home[q.sid])
      BY <1>3, <1>4 DEF RowOK, CallRow
    <2>2. conv \in Conversations \cup {None} /\ conv \in GoesWith(home[q.sid])
      BY <1>3, <1>4 DEF RowOK, CallRow, Merged, Users
    <2> HIDE DEF account, conv
    <2> QED
      BY <1>3, <2>1, <2>2 DEF CallRow, RowOK, Users
  <1>6. /\ rows' = [t \in DOMAIN rows \cup {q.sid} |->
                       IF t = q.sid THEN row ELSE rows[t]]
    BY <1>1, <1>3 DEF Continued, RowsOK
  <1>7. RowOK(q.sid, row)
    BY <1>3, <1>5 DEF RowOK
  <1> HIDE DEF row
  <1>8. PICK s, x : s = q.sid /\ x = row
    OBVIOUS
  <1>9. RowOK(s, x)'
    BY <1>1, <1>2, <1>3, <1>7, <1>8, RowKept
  <1> QED
    BY <1>1, <1>2, <1>3, <1>5, <1>6, <1>8, <1>9, RowWritten

\* A report merges a conversation of the session's user into its binding
\* (service.go:282-292).
LEMMA ContextBoundSafe ==
    ASSUME Safe, NEW r, ContextBound(r)
    PROVE  Safe'
  <1> DEFINE q == reqs[r]
             old == Live[q.sid]
             conv == Merged(old.conv, q.conv)
             new == [old EXCEPT !.expired = FALSE, !.conv = conv]
             n == [q EXCEPT !.pc = "sync", !.acct = old.account, !.conv = conv]
  <1>1. /\ r \in DOMAIN reqs /\ q.pc = "ctx" /\ BoundTo(q.sid, q.owner) /\ Still
        /\ bindings' = [Refreshed(q.sid) EXCEPT ![q.sid].conv = conv]
        /\ rows' = ReapedRows /\ Goto(r, n)
    BY DEF ContextBound, At, Still
  <1>2. /\ q \in Request /\ RequestOK(q) /\ q.op \in {"title", "context"}
        /\ WorldOK /\ BindingsOK /\ RowsOK
    BY <1>1, Asker DEF RequestOK, PcFits, Recording, Request, AllKinds, Picking,
                       Stored, Trying
  <1>3. WorldOK' /\ Grows
    BY <1>1, <1>2, StillGrows
  <1>4. /\ old \in Binding /\ BindingOK(q.sid, old)
        /\ q.sid \in DOMAIN minted /\ q.sid \in DOMAIN bindings
    BY <1>1, <1>2 DEF BindingsOK, BoundTo, Live, BindingOK
  <1>5. /\ old.account \in Nat /\ Leads(old.account, home[q.sid])
        /\ conv \in Conversations \cup {None} /\ conv \in GoesWith(home[q.sid])
    BY <1>2, <1>4 DEF BindingOK, Binding, Request, RequestOK, ContextOK, Merged
  <1>6. bindings' = [t \in DOMAIN bindings' |-> IF t = q.sid THEN new ELSE bindings[t]]
        /\ DOMAIN bindings' \subseteq DOMAIN bindings \cup {q.sid}
    BY <1>1 DEF Refreshed, Live, Expired, BoundTo
  <1> HIDE DEF old, conv
  <1>7. new \in Binding /\ BindingOK(q.sid, new)
    BY <1>4, <1>5 DEF Binding, BindingOK
  <1> HIDE DEF new
  <1>8. BindingsOK'
    <2>1. PICK s, b : s = q.sid /\ b = new
      OBVIOUS
    <2>2. BindingOK(s, b)'
      BY <1>2, <1>3, <1>4, <1>7, <2>1, BindingKept
    <2> QED
      BY <1>2, <1>3, <1>4, <1>6, <1>7, <2>1, <2>2, BindingWritten
  <1>9. RowsOK' /\ DOMAIN rows' = DOMAIN rows
    BY <1>1, <1>2, <1>3, Reaping, RestatedOK
  <1>10. RequestsOK'
    <2>1. n \in Request
      <3>1. PICK a \in Nat, c \in Conversations \cup {None} : a = old.account /\ c = conv
        BY <1>5
      <3>2. "sync" \in PCs
        BY DEF PCs
      <3>3. n = [q EXCEPT !.pc = "sync", !.acct = a, !.conv = c]
        BY <3>1
      <3> HIDE DEF n, q
      <3> QED
        BY <1>2, <3>2, <3>3 DEF Request
    <2>2. RequestOK(n) /\ ~Unborn(n)
      BY <1>1, <1>2, <1>5 DEF Unborn, Request, PCs, RequestOK, PcFits, SessionOK, TokenOK, DialOK,
                      DialAgainOK, DialNewOK, TitleOK, ContextOK, AttemptsOK, Sticky,
                      Recording, Trying, Stored, Picking
    <2> HIDE DEF n
    <2> QED
      BY <1>1, <2>1, <2>2, MovesOn
  <1> QED
    BY <1>1, <1>8, <1>9, <1>10, StillSafe

\* A report for a session that is not bound goes to the rows (service.go:300).
LEMMA ContextUnboundSafe ==
    ASSUME Safe, NEW r, ContextUnbound(r)
    PROVE  Safe'
  <1> DEFINE q == reqs[r]
             n == [q EXCEPT !.pc = "ctxget"]
  <1>1. /\ r \in DOMAIN reqs /\ q.pc = "ctx" /\ Still
        /\ bindings' = Live /\ rows' = ReapedRows
    BY DEF ContextUnbound, At, Still
  <1>2. q \in Request /\ RequestOK(q) /\ BindingsOK /\ RowsOK
    BY <1>1, Asker
  <1>3. RequestsOK'
    <2>1. CASE Goto(r, n)
      <3>1. n \in Request /\ RequestOK(n) /\ ~Unborn(n)
        BY <1>1, <1>2 DEF Unborn, Request, PCs, RequestOK, PcFits, SessionOK, TokenOK, DialOK,
                      DialAgainOK, DialNewOK, TitleOK, ContextOK, AttemptsOK, Sticky,
                      Recording, Trying, Stored, Picking
      <3> HIDE DEF n
      <3> QED
        BY <1>1, <2>1, <3>1, MovesOn
    <2>2. CASE Reply(r)
      BY <1>1, <2>2, Answered
    <2> QED
      BY <2>1, <2>2 DEF ContextUnbound
  <1> QED
    BY <1>1, <1>2, <1>3, Reaping, LookupSafe

\* The row takes over what the binding has learned (service.go:293-298).
LEMMA ContextSyncSafe ==
    ASSUME Safe, NEW r, ContextSync(r)
    PROVE  Safe'
  <1> DEFINE q == reqs[r]
  <1>1. /\ r \in DOMAIN reqs /\ q.pc = "sync" /\ Still /\ bindings' = bindings
        /\ Recorded(r)
    BY DEF ContextSync, At, Still
  <1>2. /\ q \in Request /\ RequestOK(q) /\ q.op \in {"title", "context"}
        /\ WorldOK /\ BindingsOK /\ RowsOK
    BY <1>1, Asker DEF RequestOK, PcFits, Recording, Request, AllKinds, Picking,
                       Stored, Trying
  <1>3. WorldOK' /\ Grows
    BY <1>1, <1>2, StillGrows
  <1>4. RequestsOK'
    BY <1>1, <1>2, RecordedOK DEF Recording
  <1>5. RowsOK' /\ DOMAIN rows' = DOMAIN rows
    <2>1. CASE Owned(rows, q.owner, q.sid)
      BY <1>1, <1>2, <2>1, ContinuedOK DEF ContextSync
    <2>2. CASE rows' = rows
      BY <1>2, <1>3, <2>2, RestatedOK DEF Restated, RowsOK
    <2> QED
      BY <2>1, <2>2 DEF ContextSync
  <1>6. BindingsOK'
    BY <1>1, <1>2, <1>3, ThinnedOK DEF Thinned, BindingsOK
  <1> QED
    BY <1>1, <1>4, <1>5, <1>6, StillSafe

\* The account of the row, read for the write that follows (service.go:306).
LEMMA ContextGetSafe ==
    ASSUME Safe, NEW r, ContextGet(r)
    PROVE  Safe'
  <1> DEFINE q == reqs[r]
             n == [q EXCEPT !.pc = "ctxput", !.acct = rows[q.sid].account]
  <1>1. /\ r \in DOMAIN reqs /\ q.pc = "ctxget" /\ Still
        /\ bindings' = bindings /\ rows' = rows
    BY DEF ContextGet, At, Still, stores
  <1>2. q \in Request /\ RequestOK(q) /\ RowsOK
    BY <1>1, Asker
  <1>3. RequestsOK'
    <2>1. CASE Owned(rows, q.owner, q.sid) /\ Goto(r, n)
      <3>1. rows[q.sid].account \in Nat /\ Leads(rows[q.sid].account, home[q.sid])
        BY <1>2, <2>1 DEF Owned, RowsOK, RowOK, CallRow
      <3>2. n \in Request
        BY <1>2, <3>1 DEF Request, PCs
      <3>3. RequestOK(n) /\ ~Unborn(n)
        BY <1>1, <1>2, <3>1 DEF Unborn, Request, PCs, RequestOK, PcFits, SessionOK, TokenOK, DialOK,
                      DialAgainOK, DialNewOK, TitleOK, ContextOK, AttemptsOK, Sticky,
                      Recording, Trying, Stored, Picking
      <3> HIDE DEF n
      <3> QED
        BY <1>1, <2>1, <3>2, <3>3, MovesOn
    <2>2. CASE Reply(r)
      BY <1>1, <2>2, Answered
    <2> QED
      BY <2>1, <2>2 DEF ContextGet
  <1> QED
    BY <1>1, <1>3, StoresStill

\* A report without a binding updates the row its owner has
\* (service.go:313-331).
LEMMA ContextPutSafe ==
    ASSUME Safe, NEW r, ContextPut(r)
    PROVE  Safe'
  <1> DEFINE q == reqs[r]
  <1>1. /\ r \in DOMAIN reqs /\ q.pc = "ctxput" /\ Still /\ bindings' = bindings
    BY DEF ContextPut, At, Still
  <1>2. /\ q \in Request /\ RequestOK(q) /\ q.op \in {"title", "context"}
        /\ WorldOK /\ BindingsOK /\ RowsOK
    BY <1>1, Asker DEF RequestOK, PcFits, Recording, Request, AllKinds, Picking,
                       Stored, Trying
  <1>3. WorldOK' /\ Grows
    BY <1>1, <1>2, StillGrows
  <1>4. CASE /\ Owned(rows, q.owner, q.sid)
             /\ rows' = Continued(rows, q.sid, q.acct, q.conv)
             /\ Recorded(r)
    <2>1. RequestsOK'
      BY <1>1, <1>2, <1>4, RecordedOK DEF Recording
    <2>2. RowsOK' /\ DOMAIN rows' = DOMAIN rows
      BY <1>1, <1>2, <1>4, ContinuedOK
    <2>3. BindingsOK'
      BY <1>1, <1>2, <1>3, ThinnedOK DEF Thinned, BindingsOK
    <2> QED
      BY <1>1, <2>1, <2>2, <2>3, StillSafe
  <1>5. CASE rows' = rows /\ Reply(r)
    BY <1>1, <1>5, Answered, StoresStill
  <1> QED
    BY <1>4, <1>5 DEF ContextPut

-----------------------------------------------------------------------------
(* ReleaseSession.                                                         *)

\* Dropping a binding loses nothing the rows do not have (service.go:555-562).
LEMMA DropBindingSafe ==
    ASSUME Safe, NEW r, DropBinding(r)
    PROVE  Safe'
  <1> DEFINE q == reqs[r]
             n == [q EXCEPT !.pc = "unlist"]
  <1>1. /\ r \in DOMAIN reqs /\ q.pc = "drop" /\ Still /\ rows' = rows /\ Goto(r, n)
    BY DEF DropBinding, At, Still
  <1>2. /\ q \in Request /\ RequestOK(q) /\ WorldOK /\ BindingsOK /\ RowsOK
    BY <1>1, Asker
  <1>3. n \in Request /\ RequestOK(n) /\ ~Unborn(n)
    BY <1>1, <1>2 DEF Unborn, Request, PCs, RequestOK, PcFits, SessionOK, TokenOK, DialOK,
                      DialAgainOK, DialNewOK, TitleOK, ContextOK, AttemptsOK, Sticky,
                      Recording, Trying, Stored, Picking
  <1> HIDE DEF n
  <1>4. RequestsOK'
    BY <1>1, <1>3, MovesOn
  <1>5. Thinned
    BY <1>2 DEF DropBinding, Without, Thinned, BindingsOK
  <1>6. WorldOK' /\ Grows
    BY <1>1, <1>2, StillGrows
  <1> QED
    BY <1>1, <1>2, <1>4, <1>5, <1>6, ThinnedOK, RestatedOK, StillSafe
    DEF Restated, RowsOK

\* Marking the row released keeps its owner and account (service.go:563-567).
LEMMA UnlistSafe ==
    ASSUME Safe, NEW r, Unlist(r)
    PROVE  Safe'
  <1> DEFINE q == reqs[r]
  <1>1. /\ Still /\ bindings' = bindings /\ Reply(r)
        /\ rows' = Released(rows, q.owner, q.sid)
    BY DEF Unlist, Still
  <1>2. WorldOK /\ BindingsOK /\ RowsOK
    BY Parts
  <1>3. WorldOK' /\ Grows
    BY <1>1, <1>2, StillGrows
  <1>4. RequestsOK'
    BY <1>1, Answered
  <1>5. Restated /\ DOMAIN rows' = DOMAIN rows
    BY <1>1, <1>2 DEF Released, ReleasedRow, Restated, RowsOK, CallRow
  <1>6. BindingsOK'
    BY <1>1, <1>2, <1>3, ThinnedOK DEF Thinned, BindingsOK
  <1> QED
    BY <1>1, <1>2, <1>3, <1>4, <1>5, <1>6, RestatedOK, StillSafe

-----------------------------------------------------------------------------
(* Requests arrive.                                                        *)

\* What a request is when it arrives.
LEMMA NewRequestIsRequest ==
    ASSUME NEW op \in AllKinds, NEW pc \in PCs, NEW o \in Owners \cup {None},
           NEW s \in Sessions \cup {None}, NEW c \in Conversations \cup {None}
    PROVE  NewRequest(op, pc, o, s, c) \in Request
  BY ServiceAssumption DEF NewRequest, Request

\* What clients were told of a session leads to its user.
LEMMA ToldRight ==
    ASSUME Safe
    PROVE  /\ \A s \in KnownSids :
                /\ s \in Sessions /\ s \in DOMAIN minted
                /\ s \in DOMAIN home /\ home[s] \in Users
           /\ \A k \in known : k.acct \in Nat /\ k.user \in Users /\ Leads(k.acct, k.user)
           /\ \A o, s : \A k \in Facts(o, s) :
                k \in known /\ k.owner = o /\ k.user = home[s]
  BY Parts DEF KnownSids, Facts, KnownOK, FactOK, WorldOK, Fact

\* A request that arrives knowing only what is so.
LEMMA ArrivesSafe ==
    ASSUME Safe, NEW r \in Requests, NEW n \in Request, RequestOK(n), ~n.new,
           Begin(r, n), UNCHANGED <<stores, history, edits>>
    PROVE  Safe'
  <1>1. WorldOK /\ RequestsOK
    BY Parts
  <1>2. WorldOK' /\ Grows
    BY <1>1, ServiceAssumption DEF WorldOK, Grows, Begin, stores, history
  <1>3. RequestOK(n)'
    BY <1>1, <1>2, RequestKept
  <1>4. reqs' = [p \in DOMAIN reqs \cup {r} |-> IF p = r THEN n ELSE reqs[p]]
    BY DEF Begin, Inserted
  <1>5. \A p \in DOMAIN reqs \ {r} : Unborn(reqs[p]) => reqs[p].sid \notin DOMAIN home'
    BY <1>1 DEF RequestsOK, FreshIds, history
  <1>6. RequestsOK'
    BY <1>1, <1>2, <1>3, <1>4, <1>5, MoveOK DEF Unborn
  <1> QED
    BY <1>2, <1>6, WorldSafe DEF stores, history

\* A first dial brings a session id of its own, and a user's conversation only
\* with the account that leads to him.
LEMMA DialNewSafe ==
    ASSUME Safe, NEW r \in Requests, NEW o \in Owners, NEW s \in Sessions,
           NEW a \in 0..MaxAccounts, NEW c \in Conversations \cup {None},
           DialNew(r, o, s, a, c)
    PROVE  Safe'
  <1> DEFINE pc == IF a > 0 THEN "pickid" ELSE "pick"
             y == NewRequest("dial", pc, o, s, c)
             n == [y EXCEPT !.new = TRUE, !.acct = a]
  <1>1. /\ s \notin DOMAIN minted /\ Begin(r, n)
        /\ minted' = Inserted(minted, s, o)
        /\ UNCHANGED <<stores, home, known, erased, rejected, edits>>
    BY DEF DialNew
  <1>2. WorldOK /\ RequestsOK
    BY Parts
  <1>3. WorldOK' /\ Grows /\ s \in DOMAIN minted' /\ minted'[s] = o
    BY <1>1, <1>2, ServiceAssumption DEF WorldOK, Grows, Begin, Inserted, stores
  <1>4. /\ a \in Nat /\ pc \in {"pickid", "pick"}
        /\ pc = "pick" => a = 0
        /\ c \in Users => Leads(a, c)
    BY ToldRight, ServiceAssumption, ConversationKinds DEF DialNew, Kept
  <1> HIDE DEF pc
  <1>5. y \in Request
    <2>1. /\ "dial" \in AllKinds /\ pc \in PCs
          /\ o \in Owners \cup {None} /\ s \in Sessions \cup {None}
      BY <1>4 DEF AllKinds, PCs
    <2> QED
      BY <2>1, NewRequestIsRequest
  <1>6. /\ y.op = "dial" /\ y.pc = pc /\ y.owner = o /\ y.sid = s /\ y.conv = c
        /\ y.stored = None /\ y.btok = None /\ y.tries = 0 /\ y.excluded = {}
    BY DEF NewRequest
  <1> HIDE DEF y
  <1>7. /\ n.op = "dial" /\ n.pc = pc /\ n.owner = o /\ n.sid = s /\ n.new
        /\ n.acct = a /\ n.conv = c /\ n.stored = None /\ n.btok = None
        /\ n.tries = 0 /\ n.excluded = {}
        /\ n \in Request
    <2>1. n \in Request
      BY <1>4, <1>5 DEF Request
    <2>2. n.new /\ n.acct = a
      BY <1>5 DEF Request
    <2>3. /\ n.op = y.op /\ n.pc = y.pc /\ n.owner = y.owner /\ n.sid = y.sid
          /\ n.conv = y.conv /\ n.stored = y.stored /\ n.btok = y.btok
          /\ n.tries = y.tries /\ n.excluded = y.excluded
      BY <1>5 DEF Request
    <2> QED
      BY <1>6, <2>1, <2>2, <2>3
  <1> HIDE DEF n
  <1>8. PICK x \in Request : x = n
    BY <1>7
  <1>9. c \in Users => Leads(a, c)'
    BY <1>1, <1>4 DEF Leads, stores
  <1>10. RequestOK(x)'
    <2>1. IsFiniteSet({}) /\ Cardinality({}) = 0 /\ 0 < MaxAccountAttempts
      BY FS_EmptySet, ServiceAssumption
    <2>2. (PcFits(x) /\ SessionOK(x) /\ TokenOK(x) /\ TitleOK(x) /\ ContextOK(x))'
      BY <1>3, <1>4, <1>7, <1>8 DEF PcFits, SessionOK, TokenOK, TitleOK, ContextOK,
                                    Picking
    <2>3. (DialOK(x) /\ DialAgainOK(x) /\ DialNewOK(x))'
      BY <1>3, <1>4, <1>7, <1>8, <1>9 DEF DialOK, DialAgainOK, DialNewOK, Trying,
                                    Stored, Picking
    <2>4. AttemptsOK(x)'
      BY <1>4, <1>7, <1>8, <2>1 DEF AttemptsOK
    <2> QED
      BY <2>2, <2>3, <2>4 DEF RequestOK
  <1>11. reqs' = [p \in DOMAIN reqs \cup {r} |-> IF p = r THEN x ELSE reqs[p]]
    BY <1>1, <1>8 DEF Begin, Inserted
  <1>12. s \notin DOMAIN home' /\ x.sid = s
    BY <1>1, <1>2, <1>7, <1>8 DEF WorldOK
  <1>13. \A p \in DOMAIN reqs \ {r} :
            Unborn(reqs[p]) => reqs[p].sid \notin DOMAIN home' /\ reqs[p].sid # s
    <2> SUFFICES ASSUME NEW p \in DOMAIN reqs \ {r}, Unborn(reqs[p])
                 PROVE  reqs[p].sid \notin DOMAIN home' /\ reqs[p].sid # s
      OBVIOUS
    <2>1. reqs[p].sid \in DOMAIN minted
      BY <1>2 DEF RequestsOK, RequestOK, PcFits, SessionOK, Unborn
    <2> QED
      BY <1>1, <1>2, <2>1 DEF RequestsOK, FreshIds
  <1>14. RequestsOK'
    BY <1>2, <1>3, <1>10, <1>11, <1>12, <1>13, MoveOK
  <1> QED
    BY <1>1, <1>3, <1>14, WorldSafe DEF stores

\* The other requests name a session some client was told of, and of it only
\* what its own caller was told.
LEMMA ArriveSafe ==
    ASSUME Safe, NEW r \in Requests, Arrive(r)
    PROVE  Safe'
  <1>1. ASSUME NEW x \in Request,
               x.new = FALSE, x.stored = None, x.btok = None, x.tries = 0, x.excluded = {},
               x.op \in {"dial", "context", "title", "release", "upload"},
               x.op = "context" => x.pc = "ctx",
               x.op \in {"dial", "title", "upload"} => x.pc = "bound",
               x.op = "release" => x.pc = "drop",
               x.sid \in KnownSids, x.owner \in Owners,
               x.acct = 0 \/ Leads(x.acct, home[x.sid]),
               x.conv \in GoesWith(home[x.sid]),
               Begin(r, x), UNCHANGED <<stores, history, edits>>
        PROVE  Safe'
    <2>1. x.sid \in DOMAIN minted /\ x.sid \in DOMAIN home
      BY <1>1, ToldRight
    <2>2. IsFiniteSet({}) /\ Cardinality({}) = 0
      BY FS_EmptySet
    <2>3. PcFits(x) /\ SessionOK(x) /\ TokenOK(x) /\ DialOK(x) /\ DialNewOK(x)
      BY <1>1, <2>1 DEF PcFits, SessionOK, TokenOK, DialOK, DialNewOK,
                        Recording, Picking, Stored, Trying
    <2>4. DialAgainOK(x) /\ TitleOK(x) /\ ContextOK(x) /\ AttemptsOK(x)
      BY <1>1, <2>2 DEF DialAgainOK, TitleOK, ContextOK, AttemptsOK,
                        Recording, Picking, Stored, Trying, Sticky
    <2> QED
      BY <1>1, <2>3, <2>4, ArrivesSafe DEF RequestOK
  <1>3. ASSUME NEW o \in Owners, NEW s \in Sessions,
               NEW a \in 0..MaxAccounts, NEW c \in Conversations \cup {None},
               DialAgain(r, o, s, a, c)
        PROVE  Safe'
    <2> DEFINE y == NewRequest("dial", "bound", o, s, c)
               x == [y EXCEPT !.acct = a]
    <2>1. Begin(r, x) /\ UNCHANGED <<stores, history, edits>>
      BY <1>3 DEF DialAgain
    <2>2. /\ s \in KnownSids /\ a \in Nat
          /\ a = 0 \/ Leads(a, home[s])
          /\ c \in GoesWith(home[s])
      BY <1>3, ToldRight, ServiceAssumption DEF DialAgain
    <2>3. y \in Request
      <3>1. /\ "dial" \in AllKinds /\ "bound" \in PCs
            /\ o \in Owners \cup {None} /\ s \in Sessions \cup {None}
        BY <2>2, ToldRight DEF AllKinds, PCs
      <3> QED
        BY <3>1, NewRequestIsRequest
    <2>4. /\ y.stored = None /\ y.btok = None /\ y.tries = 0 /\ y.excluded = {}
          /\ y.op = "dial" /\ y.pc = "bound" /\ y.owner = o /\ y.sid = s
          /\ y.conv = c /\ y.new = FALSE
      BY DEF NewRequest
    <2> HIDE DEF y
    <2>5. /\ x \in Request /\ x.new = FALSE
          /\ x.stored = None /\ x.btok = None /\ x.tries = 0 /\ x.excluded = {}
          /\ x.op = "dial" /\ x.pc = "bound" /\ x.owner = o /\ x.sid = s
          /\ x.conv = c /\ x.acct = a
      BY <2>2, <2>3, <2>4 DEF Request
    <2> HIDE DEF x
    <2> QED
      BY <1>1, <2>1, <2>2, <2>5
  <1>4. ASSUME NEW o \in Owners, NEW s \in Sessions, NEW c \in Conversations \cup {None},
               \/ Context(r, o, s, c)
               \/ Title(r, o, s, c)
               \/ c = None /\ (Release(r, o, s) \/ Upload(r, o, s))
        PROVE  Safe'
    <2>1. s \in KnownSids /\ c \in GoesWith(home[s]) /\ UNCHANGED <<stores, history, edits>>
      BY <1>4, ToldRight DEF Context, Title, Release, Upload, NamedBy, Kept
    <2>2. PICK op \in {"context", "title", "release", "upload"},
               pc \in {"ctx", "bound", "drop"} :
             /\ Begin(r, NewRequest(op, pc, o, s, c))
             /\ op = "context" => pc = "ctx"
             /\ op \in {"title", "upload"} => pc = "bound"
             /\ op = "release" => pc = "drop"
      BY <1>4 DEF Context, Title, Release, Upload
    <2> DEFINE x == NewRequest(op, pc, o, s, c)
    <2>3. op \in AllKinds /\ pc \in PCs
      BY DEF AllKinds, PCs
    <2>4. x \in Request
      <3>1. o \in Owners \cup {None} /\ s \in Sessions \cup {None}
        BY <2>1, ToldRight
      <3> QED
        BY <2>3, <3>1, NewRequestIsRequest
    <2>5. /\ x.new = FALSE
          /\ x.stored = None /\ x.btok = None /\ x.tries = 0 /\ x.excluded = {}
          /\ x.op = op /\ x.pc = pc /\ x.owner = o /\ x.sid = s
          /\ x.conv = c /\ x.acct = 0
      BY DEF NewRequest
    <2>6. Begin(r, x)
      BY <2>2
    <2> HIDE DEF x
    <2> QED
      BY <1>1, <2>1, <2>2, <2>4, <2>5, <2>6
  <1>5. ASSUME NEW i \in 1..MaxAccounts, Probe(r, i)
        PROVE  Safe'
    <2> DEFINE y == NewRequest("probe", "post", None, None, None)
               x == [y EXCEPT !.tok = accounts[i].token]
    <2>1. Begin(r, x) /\ UNCHANGED <<stores, history, edits>>
      BY <1>5 DEF Probe
    <2>2. accounts[i].token \in Tokens
      BY <1>5, Parts DEF Probe, WorldOK, AccountRow
    <2>3. y \in Request
      <3>1. /\ "probe" \in AllKinds /\ "post" \in PCs
            /\ None \in Owners \cup {None} /\ None \in Sessions \cup {None}
            /\ None \in Conversations \cup {None}
        BY DEF AllKinds, PCs
      <3> QED
        BY <3>1, NewRequestIsRequest
    <2>4. y.new = FALSE /\ y.op = "probe" /\ y.pc = "post"
      BY DEF NewRequest
    <2> HIDE DEF y
    <2>5. /\ x \in Request /\ x.new = FALSE
          /\ x.op = "probe" /\ x.pc = "post" /\ x.tok = accounts[i].token
      BY <2>2, <2>3, <2>4 DEF Request
    <2> HIDE DEF x
    <2>6. RequestOK(x)
      BY <2>2, <2>5 DEF Request, PCs, RequestOK, PcFits, SessionOK, TokenOK, DialOK,
            DialAgainOK, DialNewOK, TitleOK, ContextOK, AttemptsOK, Sticky,
            Recording, Trying, Stored, Picking
    <2> QED
      BY <2>1, <2>5, <2>6, ArrivesSafe
  <1>6. None \in Conversations \cup {None}
    OBVIOUS
  <1> QED
    BY <1>3, <1>4, <1>5, <1>6, DialNewSafe DEF Arrive

-----------------------------------------------------------------------------
(* Time, restarts and the administrator.                                   *)

\* An edit that keeps the user of every account id in use keeps the world.
LEMMA AccountsEdited ==
    ASSUME WorldOK, UNCHANGED <<history, ops>>, edits' \in 0..MaxEdits,
           nextId' \in 1..(MaxAccounts + 1), nextId <= nextId',
           DOMAIN accounts' \subseteq 1..(nextId' - 1),
           accounts' \in [DOMAIN accounts' -> AccountRow],
           \A a \in 1..(nextId - 1) :
              a \in DOMAIN accounts' =>
                  /\ a \in DOMAIN accounts
                  /\ UserOf[accounts'[a].token] = UserOf[accounts[a].token]
    PROVE  WorldOK' /\ Grows
  BY DEF WorldOK, Grows, history

\* An edit of the accounts that gives no id to another user is safe.
LEMMA AccountEditSafe ==
    ASSUME Safe, WorldOK', Grows,
           UNCHANGED <<bindings, rows, reqs, history, ops>>
    PROVE  Safe'
  <1>1. WorldOK /\ RequestsOK
    BY Parts
  <1>2. RequestsOK'
    BY <1>1, RepliesOK DEF history, RequestsOK
  <1> QED
    BY <1>2, WorldSafe DEF history

\* Edits stay within their bound.
LEMMA EditCounts ==
    ASSUME WorldOK, Edit
    PROVE  edits' \in 0..MaxEdits
  BY ServiceAssumption DEF WorldOK, Edit

\* Neither time nor a restart nor an edit takes a session from its caller or
\* its user.
LEMMA EnvironmentSafe ==
    ASSUME Safe, Environment
    PROVE  Safe'
  <1>1. WorldOK /\ BindingsOK /\ RowsOK /\ KnownOK /\ RequestsOK
    BY Parts
  <1>2. ASSUME NEW s \in Sessions, PassTTL(s)
        PROVE  Safe'
    <2>1. Still /\ rows' = rows /\ reqs' = reqs
      BY <1>2 DEF PassTTL, Still
    <2>2. WorldOK' /\ Grows /\ home' = home
      BY <1>1, <2>1, StillGrows
    <2>3. Thinned
      BY <1>1, <1>2 DEF PassTTL, Thinned, BindingsOK, Binding
    <2>4. RequestsOK'
      BY <1>1, <2>1, <2>2, RepliesOK DEF RequestsOK
    <2> QED
      BY <1>1, <2>1, <2>2, <2>3, <2>4, ThinnedOK, RestatedOK, StillSafe
      DEF Restated, RowsOK
  <1>3. ASSUME NEW s \in Sessions, DeleteRow(s)
        PROVE  Safe'
    <2>1. WorldOK' /\ Grows /\ home' = home
      BY <1>1, <1>3, ServiceAssumption DEF DeleteRow, Edit, WorldOK, Grows
    <2>2. Restated /\ Thinned
      BY <1>1, <1>3 DEF DeleteRow, Without, Restated, Thinned, RowsOK, BindingsOK
    <2>3. RequestsOK'
      BY <1>1, <1>3, <2>1, RepliesOK DEF DeleteRow, RequestsOK
    <2>4. KnownOK'
      BY <1>1, <1>3, <2>1, KnownKept DEF DeleteRow, Without
    <2> QED
      BY <1>1, <2>1, <2>2, <2>3, <2>4, ThinnedOK, RestatedOK, Parts
  <1>4. ASSUME NEW t \in Tokens, CreateAccount(t)
        PROVE  Safe'
    <2>1. PICK row \in AccountRow : row = Normalized(t, "", FALSE, FALSE)
      <3>1. Normalized(t, "", FALSE, FALSE) \in AccountRow
        BY NormalizedIsRow DEF StatusInputs
      <3> QED
        BY <3>1
    <2>2. /\ nextId \in 1..MaxAccounts /\ nextId' = nextId + 1
          /\ nextId \notin 1..(nextId - 1) /\ MaxAccounts \in Nat
          /\ edits' \in 0..MaxEdits
      <3>1. nextId <= MaxAccounts /\ nextId' = nextId + 1 /\ Edit
        BY <1>4 DEF CreateAccount
      <3>2. nextId \in 1..(MaxAccounts + 1) /\ MaxAccounts \in Nat
        BY <1>1, ServiceAssumption DEF WorldOK
      <3> QED
        BY <1>1, <3>1, <3>2, EditCounts
    <2>3. accounts' = [i \in DOMAIN accounts \cup {nextId} |->
                         IF i = nextId THEN row ELSE accounts[i]]
      BY <1>4, <2>1 DEF CreateAccount, Inserted
    <2>4. /\ DOMAIN accounts' \subseteq 1..(nextId' - 1)
          /\ accounts' \in [DOMAIN accounts' -> AccountRow]
          /\ \A a \in 1..(nextId - 1) :
                a \in DOMAIN accounts' =>
                    a \in DOMAIN accounts /\ accounts'[a] = accounts[a]
      <3>1. DOMAIN accounts \subseteq 1..(nextId - 1)
        BY <1>1 DEF WorldOK
      <3>2. \A a \in DOMAIN accounts : accounts[a] \in AccountRow
        BY <1>1 DEF WorldOK
      <3>3. /\ DOMAIN accounts' = DOMAIN accounts \cup {nextId}
            /\ accounts'[nextId] = row
            /\ \A a \in DOMAIN accounts' \ {nextId} : accounts'[a] = accounts[a]
        BY <2>3
      <3>4. DOMAIN accounts' \subseteq 1..(nextId' - 1)
        BY <2>2, <3>1, <3>3
      <3>5. \A a \in DOMAIN accounts' : accounts'[a] \in AccountRow
        BY <3>2, <3>3
      <3>6. accounts' \in [DOMAIN accounts' -> AccountRow]
        BY <2>3, <3>5
      <3> QED
        BY <2>2, <3>3, <3>4, <3>6
    <2>5. WorldOK' /\ Grows
      <3>1. /\ UNCHANGED <<history, ops>> /\ MaxAccounts \in Nat
            /\ nextId' \in 1..(MaxAccounts + 1) /\ nextId <= nextId'
        <4>1. UNCHANGED <<history, ops>>
          BY <1>4 DEF CreateAccount
        <4> QED
          BY <2>2, <4>1
      <3> QED
        BY <1>1, <2>2, <2>4, <3>1, AccountsEdited
    <2> QED
      BY <1>4, <2>5, AccountEditSafe DEF CreateAccount
  <1>5. ASSUME NEW t \in Tokens, NEW i \in 1..MaxAccounts, NEW d \in BOOLEAN,
               UpdateAccount(i, t, d)
        PROVE  Safe'
    <2>1. accounts[i].invalid \in BOOLEAN
      BY <1>1, <1>5 DEF UpdateAccount, WorldOK, AccountRow
    <2>2. PICK row \in AccountRow :
            row = Normalized(t, "", d, accounts[i].invalid) /\ row.token = t
      <3>1. /\ Normalized(t, "", d, accounts[i].invalid) \in AccountRow
            /\ Normalized(t, "", d, accounts[i].invalid).token = t
        <4>1. PICK s \in StatusInputs : s = ""
          BY DEF StatusInputs
        <4>2. PICK v \in BOOLEAN : v = accounts[i].invalid
          BY <2>1
        <4>3. /\ Normalized(t, s, d, v) \in AccountRow
              /\ Normalized(t, s, d, v).token = t
          BY NormalizedIsRow
        <4> QED
          BY <4>1, <4>2, <4>3
      <3> QED
        BY <3>1
    <2>3. accounts' = [accounts EXCEPT ![i] = row]
      BY <1>5, <2>2 DEF UpdateAccount
    <2>4. /\ DOMAIN accounts' = DOMAIN accounts
          /\ accounts' \in [DOMAIN accounts -> AccountRow]
          /\ \A a \in DOMAIN accounts :
                UserOf[accounts'[a].token] = UserOf[accounts[a].token]
      <3>1. i \in DOMAIN accounts /\ UserOf[t] = UserOf[accounts[i].token]
        BY <1>5 DEF UpdateAccount
      <3>2. accounts \in [DOMAIN accounts -> AccountRow]
        BY <1>1 DEF WorldOK
      <3> QED
        BY <2>2, <2>3, <3>1, <3>2
    <2>5. edits' \in 0..MaxEdits
      <3>1. Edit
        BY <1>5 DEF UpdateAccount
      <3> QED
        BY <1>1, <3>1, EditCounts
    <2>6. WorldOK' /\ Grows
      <3>1. /\ UNCHANGED <<history, ops>> /\ nextId' = nextId
            /\ nextId \in 1..(MaxAccounts + 1) /\ MaxAccounts \in Nat
            /\ DOMAIN accounts \subseteq 1..(nextId - 1)
        BY <1>1, <1>5, ServiceAssumption DEF UpdateAccount, WorldOK
      <3> QED
        BY <1>1, <2>4, <2>5, <3>1, AccountsEdited
    <2> QED
      BY <1>5, <2>6, AccountEditSafe DEF UpdateAccount
  <1>6. ASSUME NEW i \in 1..MaxAccounts, DeleteAccount(i)
        PROVE  Safe'
    <2>1. accounts' = [a \in DOMAIN accounts \ {i} |-> accounts[a]]
      BY <1>6 DEF DeleteAccount, Without
    <2>2. edits' \in 0..MaxEdits
      <3>1. Edit
        BY <1>6 DEF DeleteAccount
      <3> QED
        BY <1>1, <3>1, EditCounts
    <2>3. /\ UNCHANGED <<history, ops>> /\ nextId' = nextId
          /\ nextId \in 1..(MaxAccounts + 1) /\ MaxAccounts \in Nat
          /\ DOMAIN accounts \subseteq 1..(nextId - 1)
          /\ accounts \in [DOMAIN accounts -> AccountRow]
      BY <1>1, <1>6, ServiceAssumption DEF DeleteAccount, WorldOK
    <2>4. /\ DOMAIN accounts' = DOMAIN accounts \ {i}
          /\ \A a \in DOMAIN accounts' : accounts'[a] = accounts[a]
      BY <2>1
    <2>5. accounts' \in [DOMAIN accounts' -> AccountRow]
      BY <2>1, <2>3, <2>4
    <2>6. WorldOK' /\ Grows
      BY <1>1, <2>2, <2>3, <2>4, <2>5, AccountsEdited
    <2> QED
      BY <1>6, <2>6, AccountEditSafe DEF DeleteAccount
  <1>7. CASE Restart
    <2>1. WorldOK' /\ Grows /\ home' = home
      BY <1>1, <1>7, ServiceAssumption DEF Restart, Edit, WorldOK, Grows, history
    <2>2. DOMAIN bindings' = {} /\ DOMAIN reqs' = {}
      BY <1>7 DEF Restart
    <2>3. BindingsOK' /\ RequestsOK'
      BY <2>2 DEF BindingsOK, RequestsOK, FreshIds
    <2>4. Restated /\ DOMAIN rows' = DOMAIN rows
      BY <1>1, <1>7 DEF Restart, AllReleased, ReleasedRow, Restated, RowsOK, CallRow
    <2>5. KnownOK'
      BY <1>1, <1>7, <2>1, <2>4, KnownKept DEF Restart, history
    <2> QED
      BY <1>1, <2>1, <2>3, <2>4, <2>5, RestatedOK, Parts
  <1> QED
    BY <1>2, <1>3, <1>4, <1>5, <1>6, <1>7 DEF Environment

-----------------------------------------------------------------------------
(* The theorems.                                                           *)

\* The accounts of the start lead to themselves; nothing else is there yet.
LEMMA InitSafe == Init => Safe
  <1> SUFFICES ASSUME Init PROVE Safe
    OBVIOUS
  <1>1. /\ DOMAIN Seeded = 1..Len(Seeded) /\ Len(Seeded) \in Nat
        /\ \A i \in DOMAIN Seeded : Seeded[i] \in Tokens
    BY ServiceAssumption
  <1>2. accounts \in [DOMAIN accounts -> AccountRow] /\ DOMAIN accounts = DOMAIN Seeded
    <2>1. \A i \in DOMAIN Seeded : Normalized(Seeded[i], "", FALSE, FALSE) \in AccountRow
      BY <1>1, NormalizedIsRow DEF StatusInputs
    <2>2. accounts = [i \in DOMAIN Seeded |-> Normalized(Seeded[i], "", FALSE, FALSE)]
      BY DEF Init
    <2> QED
      BY <2>1, <2>2
  <1>3. nextId \in 1..(MaxAccounts + 1) /\ DOMAIN accounts \subseteq 1..(nextId - 1)
    <2>1. nextId = Len(Seeded) + 1
      BY DEF Init
    <2>2. MaxAccounts \in Nat /\ Len(Seeded) <= MaxAccounts
      BY ServiceAssumption
    <2> QED
      BY <1>1, <1>2, <2>1, <2>2
  <1>4. WorldOK
    <2>1. /\ minted = << >> /\ home = << >>
          /\ known = {} /\ erased = {} /\ rejected = {}
          /\ ops = 0 /\ edits = 0
      BY DEF Init
    <2>2. ops \in 0..MaxOps /\ edits \in 0..MaxEdits
      BY <2>1, ServiceAssumption
    <2> QED
      BY <1>2, <1>3, <2>1, <2>2 DEF WorldOK
  <1>5. BindingsOK /\ RowsOK /\ KnownOK /\ RequestsOK
    <2>1. bindings = << >> /\ rows = << >> /\ reqs = << >> /\ known = {}
      BY DEF Init
    <2> QED
      BY <2>1 DEF BindingsOK, RowsOK, KnownOK, RequestsOK, FreshIds
  <1> QED
    BY <1>4, <1>5, Parts

\* Every step of a request is safe.
LEMMA RequestStepSafe ==
    ASSUME Safe, NEW r \in Requests, Step(r)
    PROVE  Safe'
  BY BoundElsewhereSafe, NotBoundSafe, BoundSafe, LookupRowSafe,
     PickBoundTokenSafe, PickAnySafe, PickByIDSafe, PickForTitleSafe,
     AcceptedSafe, RefusedSafe, UnauthorizedSafe, MarkInvalidSafe,
     BindSafe, RereadSafe, PersistSafe,
     ContextBoundSafe, ContextUnboundSafe, ContextSyncSafe,
     ContextGetSafe, ContextPutSafe, DropBindingSafe, UnlistSafe
  DEF Step, LocalStep, UpstreamEnds

\* Every step, of any request or of the environment, keeps Safe.
LEMMA StepSafe == Safe /\ [Next]_vars => Safe'
  <1> SUFFICES ASSUME Safe, [Next]_vars PROVE Safe'
    OBVIOUS
  <1>1. CASE Environment
    BY <1>1, EnvironmentSafe
  <1>2. ASSUME NEW r \in Requests, Arrive(r) PROVE Safe'
    BY <1>2, ArriveSafe
  <1>3. ASSUME NEW r \in Requests, Step(r) PROVE Safe'
    BY <1>3, RequestStepSafe
  <1>4. CASE UNCHANGED vars
    <2>1. Still /\ bindings' = bindings /\ rows' = rows /\ reqs' = reqs
      BY <1>4 DEF vars, stores, Still
    <2>2. WorldOK /\ RequestsOK
      BY Parts
    <2>3. RequestsOK'
      BY <2>1, <2>2, StillGrows, RepliesOK DEF RequestsOK
    <2> QED
      BY <2>1, <2>3, StoresStill
  <1> QED
    BY <1>1, <1>2, <1>3, <1>4 DEF Next

\* In every reachable state of the gateway, whatever the callers, sessions,
\* tokens and bounds, Safe holds.
THEOREM GatewaySafe == Spec => []Safe
  BY InitSafe, StepSafe, PTL DEF Spec

\* The types hold throughout.
THEOREM GatewayTypeOK == Spec => []TypeOK
  <1>1. Safe => TypeOK
    BY DEF Safe
  <1> QED
    BY <1>1, GatewaySafe, PTL

\* A session id never leaves the caller it was made for: bindVoiceSession and
\* Upsert may overwrite an owner, but no request gets there with another one.
THEOREM OwnersStay == Spec => []SessionKeepsOwner
  <1>1. Safe => SessionKeepsOwner
    BY DEF Safe, SessionKeepsOwner, BindingOK, RowOK, FactOK, TypeOK
  <1> QED
    BY <1>1, GatewaySafe, PTL

\* The upstream is asked to continue a user's conversation only with a token of
\* his (service.go:993-994), and no conversation with a second account: not even
\* one that nobody knows the user of (service.go:995, 1104-1108).
THEOREM ConversationsStayHome == Spec => []ConversationStaysHome
  <1>1. Safe => ConversationStaysHome
    <2> SUFFICES ASSUME Safe, NEW r \in DOMAIN reqs, reqs[r].pc = "post"
                 PROVE  /\ reqs[r].op \in {"dial", "title"} /\ reqs[r].conv \in Users
                              => UserOf[reqs[r].tok] = reqs[r].conv
                        /\ reqs[r].op = "dial" /\ reqs[r].conv # None
                              => reqs[r].tries = 1
      BY DEF ConversationStaysHome
    <2>1. RequestOK(reqs[r])
      BY Asker
    <2>2. ASSUME reqs[r].op \in {"dial", "title"}, reqs[r].conv \in Users
          PROVE  UserOf[reqs[r].tok] = reqs[r].conv
      BY <2>1, <2>2, ConversationKinds
      DEF RequestOK, DialAgainOK, DialNewOK, TitleOK, Picking, Trying
    <2>3. reqs[r].op = "dial" /\ reqs[r].conv # None => reqs[r].tries = 1
      BY <2>1 DEF RequestOK, AttemptsOK
    <2> QED
      BY <2>2, <2>3
  <1> QED
    BY <1>1, GatewaySafe, PTL

\* A session stays with the user whose account it first reached.
THEOREM SessionsStayHome == Spec => []SessionStaysHome
  <1>1. Safe => SessionStaysHome
    BY DEF Safe, SessionStaysHome, BindingOK, FactOK
  <1> QED
    BY <1>1, GatewaySafe, PTL

\* A client can come back to every session it was told of, unless the
\* administrator deleted the row.
THEOREM KnownStayResumable == Spec => []KnownResumable
  <1>1. Safe => KnownResumable
    <2> SUFFICES ASSUME Safe, NEW k \in known, k.sid \notin erased
                 PROVE  Owned(rows, k.owner, k.sid) /\ rows[k.sid].account > 0
      BY DEF KnownResumable
    <2>1. k.sid \in DOMAIN rows /\ RowOK(k.sid, rows[k.sid]) /\ k.owner = minted[k.sid]
      BY DEF Safe, FactOK
    <2>2. nextId \in Nat
      BY DEF Safe, TypeOK
    <2> QED
      BY <2>1, <2>2 DEF RowOK, Leads, Owned
  <1> QED
    BY <1>1, GatewaySafe, PTL

\* A dial never sends one token twice, and one that must stay with an account
\* tries one.
THEOREM AttemptsStayCounted == Spec => []AttemptsCounted
  <1>1. Safe => AttemptsCounted
    <2> SUFFICES ASSUME Safe, NEW r \in DOMAIN reqs, reqs[r].op = "dial"
                 PROVE  /\ reqs[r].tries = Cardinality(reqs[r].excluded)
                        /\ reqs[r].tries <= MaxAccountAttempts
                        /\ Sticky(reqs[r]) => reqs[r].tries <= 1
      BY DEF AttemptsCounted
    <2>1. reqs[r] \in Request /\ RequestOK(reqs[r])
      BY Asker
    <2> QED
      BY <2>1, ServiceAssumption DEF RequestOK, AttemptsOK, Request
  <1> QED
    BY <1>1, GatewaySafe, PTL

\* Only the account whose present token the upstream rejected is taken out of
\* the pool, besides what the administrator edits.
THEOREM OthersStayAvailable == Spec => OnlyRejectedDisabled
  <1> DEFINE StayOn == \A i \in DOMAIN accounts \cap DOMAIN accounts' :
                        Available(accounts[i]) /\ ~Available(accounts'[i])
                            => accounts[i].token \in rejected \/ edits' # edits
  <1>1. Safe /\ [Next]_vars => [StayOn]_vars
    <2> SUFFICES ASSUME Safe, Next PROVE StayOn
      OBVIOUS
    <2>1. ASSUME accounts' = accounts PROVE StayOn
      BY <2>1
    <2>2. CASE Environment
      <3>1. accounts' = accounts \/ Edit
        BY <2>2 DEF Environment, PassTTL, DeleteRow, CreateAccount, UpdateAccount,
                    DeleteAccount, Restart
      <3>2. ASSUME Edit PROVE edits' # edits
        BY <3>2 DEF Edit, Safe, TypeOK
      <3> QED
        BY <2>1, <3>1, <3>2
    <2>3. ASSUME NEW r \in Requests, Arrive(r) PROVE StayOn
      <3>1. UNCHANGED stores
        <4>1. ASSUME NEW o, NEW s, NEW a, NEW c, DialNew(r, o, s, a, c)
              PROVE  UNCHANGED stores
          BY <4>1 DEF DialNew
        <4>2. ASSUME NEW o, NEW s, NEW a, NEW c,
                     \/ DialAgain(r, o, s, a, c) \/ Context(r, o, s, c)
                     \/ Title(r, o, s, c) \/ Release(r, o, s)
                     \/ Upload(r, o, s) \/ Probe(r, a)
              PROVE  UNCHANGED stores
          BY <4>2 DEF DialAgain, Context, Title, Release, Upload, Probe
        <4> QED
          BY <2>3, <4>1, <4>2 DEF Arrive
      <3>2. accounts' = accounts
        BY <3>1 DEF stores
      <3> QED
        BY <2>1, <3>2
    <2>4. ASSUME NEW r \in Requests, MarkInvalid(r) PROVE StayOn
      <3>1. r \in DOMAIN reqs /\ reqs[r].pc = "mark"
        BY <2>4 DEF MarkInvalid, At
      <3>2. reqs[r].tok \in rejected
        BY <3>1, Asker DEF RequestOK, TokenOK
      <3>3. \A i \in DOMAIN accounts :
               accounts[i].token # reqs[r].tok => accounts'[i] = accounts[i]
        BY <2>4 DEF MarkInvalid, Invalidated
      <3> QED
        BY <3>2, <3>3
    <2>5. ASSUME NEW r \in Requests, Step(r), ~MarkInvalid(r) PROVE StayOn
      <3>1. accounts' = accounts
        BY <2>5 DEF Step, LocalStep, UpstreamEnds, BoundElsewhere, NotBound, Bound, Lookup, PickBoundToken,
                    PickAny, PickByID, PickForTitle, Accepted, Refused,
                    TitleAnswered, UploadAnswered, ProbeAnswered, Unauthorized, Bind,
                    Reread, Persist, ContextBound, ContextUnbound, ContextSync,
                    ContextGet, ContextPut, DropBinding, Unlist, stores
      <3> QED
        BY <2>1, <3>1
    <2> QED
      BY <2>2, <2>3, <2>4, <2>5 DEF Next
  <1> QED
    BY <1>1, GatewaySafe, PTL DEF Spec, OnlyRejectedDisabled

-----------------------------------------------------------------------------
(* The gateway implements StickySession, under the mapping of              *)
(* VoiceServiceSticky.  Four actions do something a client could notice: a *)
(* first dial opens a session, Bind pins it, Persist tells of it, and the  *)
(* administrator's DeleteRow forgets it; all others leave what was         *)
(* promised alone.  That only the session's user is asked to go on with a  *)
(* conversation follows, before and after each step, from Safe.            *)

AskedRight ==
    \A ask \in Asking :
        /\ ask.conv \in Users => ask.user = ask.conv
        /\ ask.sid \in DOMAIN home => ask.user = home[ask.sid]

\* Whoever waits for chatgpt.com with a user's conversation asks that user, and
\* with any conversation the session's user.
LEMMA SafeAsks == Safe => AskedRight
  <1> SUFFICES ASSUME Safe, NEW r \in DOMAIN reqs, reqs[r].pc = "post",
                      reqs[r].op \in {"dial", "title"}, reqs[r].conv # None
               PROVE  /\ reqs[r].conv \in Users
                            => UserOf[reqs[r].tok] = reqs[r].conv
                      /\ reqs[r].sid \in DOMAIN home
                            => UserOf[reqs[r].tok] = home[reqs[r].sid]
    BY DEF AskedRight, Asking, At
  <1>1. RequestOK(reqs[r]) /\ FreshIds
    BY Asker DEF RequestsOK
  <1>2. CASE reqs[r].op = "title"
    BY <1>1, <1>2, ConversationKinds DEF RequestOK, TitleOK
  <1>3. CASE reqs[r].op = "dial" /\ ~reqs[r].new
    BY <1>1, <1>3, ConversationKinds DEF RequestOK, DialAgainOK, Trying
  <1>4. CASE reqs[r].op = "dial" /\ reqs[r].new
    BY <1>1, <1>4, ConversationKinds
    DEF RequestOK, DialNewOK, Trying, FreshIds, Unborn, Picking
  <1> QED
    BY <1>2, <1>3, <1>4

\* So it is after every step.
LEMMA StepAsks == Safe /\ [Next]_vars => Promise!AsksItsUser
  <1>1. Safe' => AskedRight'
    BY SafeAsks, PTL
  <1>2. AskedRight' => Promise!AsksItsUser
    BY DEF AskedRight, Promise!AsksItsUser
  <1> QED
    BY <1>1, <1>2, StepSafe

\* A step that leaves sessions, answers and the set of rows alone.
Unnoticed == UNCHANGED <<minted, home, known, DOMAIN rows>>

\* What was promised changes with none of those.
LEMMA UnnoticedKeeps ==
    ASSUME Safe, [Next]_vars, Unnoticed
    PROVE  Promise!Next
  <1>1. UNCHANGED <<minted, home, Told, DOMAIN rows>>
    BY DEF Unnoticed, Told
  <1> QED
    BY <1>1, StepAsks DEF Promise!Next

\* Expiry rewrites rows and removes none.
LEMMA ReapedStay == DOMAIN ReapedRows = DOMAIN rows
  BY DEF ReapedRows

\* The steps of a request other than Bind and Persist go unnoticed.
LEMMA StepUnnoticed ==
    ASSUME NEW r \in Requests, Step(r), ~Bind(r), ~Persist(r)
    PROVE  Unnoticed
  <1> USE DEF Unnoticed, stores, history
  <1>1. CASE Lookup(r) \/ PickBoundToken(r) \/ PickAny(r) \/ PickByID(r)
             \/ PickForTitle(r) \/ Accepted(r) \/ Refused(r)
             \/ TitleAnswered(r) \/ UploadAnswered(r) \/ ProbeAnswered(r)
    BY <1>1 DEF Lookup, PickBoundToken, PickAny, PickByID, PickForTitle, Accepted,
                Refused, TitleAnswered, UploadAnswered, ProbeAnswered
  <1>2. CASE BoundElsewhere(r) \/ NotBound(r) \/ Bound(r) \/ Reread(r)
             \/ ContextBound(r) \/ ContextUnbound(r)
    BY <1>2, ReapedStay DEF BoundElsewhere, NotBound, Bound, Reread, ContextBound,
                            ContextUnbound
  <1>3. CASE Unauthorized(r) \/ MarkInvalid(r) \/ ContextGet(r) \/ DropBinding(r)
    BY <1>3 DEF Unauthorized, MarkInvalid, ContextGet, DropBinding
  <1>4. CASE ContextSync(r) \/ ContextPut(r)
    BY <1>4 DEF ContextSync, ContextPut, Continued
  <1>5. CASE Unlist(r)
    BY <1>5 DEF Unlist, Released
  <1> QED
    BY <1>1, <1>2, <1>3, <1>4, <1>5 DEF Step, LocalStep, UpstreamEnds

\* Bind pins the session to the user of the account in use, if it is the first
\* to bind it.
LEMMA BindPins ==
    ASSUME Safe, NEW r \in Requests, Bind(r)
    PROVE  Promise!Next
  <1>1. r \in DOMAIN reqs /\ reqs[r].pc = "bind"
    BY DEF Bind, At
  <1>2. /\ reqs[r].op = "dial" /\ reqs[r].sid \in DOMAIN minted
        /\ reqs[r].tok \in Tokens
    <2>1. reqs[r] \in Request /\ RequestOK(reqs[r])
      BY <1>1, Asker
    <2>2. reqs[r].op = "dial"
      BY <1>1, <2>1 DEF Request, AllKinds, RequestOK, PcFits, Recording
    <2> QED
      BY <1>1, <2>1, <2>2 DEF RequestOK, SessionOK, DialOK, Trying, Stored
  <1>3. reqs[r].sid \in Sessions /\ UserOf[reqs[r].tok] \in Users
    BY <1>1, <1>2, Asker, ServiceAssumption DEF WorldOK, Users
  <1>4. UNCHANGED <<minted, Told, DOMAIN rows>>
    BY ReapedStay DEF Bind, Told
  <1>5. CASE reqs[r].sid \in DOMAIN home
    BY <1>4, <1>5, StepAsks DEF Bind, Next, Step, LocalStep, UpstreamEnds, Promise!Next
  <1>6. CASE reqs[r].sid \notin DOMAIN home
    <2>1. Promise!Pin(reqs[r].sid, UserOf[reqs[r].tok])
      BY <1>2, <1>4, <1>6 DEF Bind, Promise!Pin, Promise!With, Inserted
    <2> QED
      BY <1>3, <2>1, StepAsks DEF Next, Step, LocalStep, UpstreamEnds, Promise!Next
  <1> QED
    BY <1>5, <1>6

\* Persist writes the row of a session that is its caller's and pinned, and
\* answers with both.
LEMMA PersistTells ==
    ASSUME Safe, NEW r \in Requests, Persist(r)
    PROVE  Promise!Next
  <1> DEFINE q == reqs[r]
             fact == [owner |-> q.owner, sid |-> q.sid, acct |-> q.use,
                      user |-> UserOf[q.tok]]
  <1>1. r \in DOMAIN reqs /\ q.pc = "persist"
    BY DEF Persist, At
  <1>2. /\ q.sid \in DOMAIN minted \cap DOMAIN home
        /\ q.owner = minted[q.sid]
        /\ UserOf[q.tok] = home[q.sid]
    <2>1. reqs[r] \in Request /\ RequestOK(reqs[r])
      BY <1>1, Asker
    <2>2. reqs[r].op = "dial"
      BY <1>1, <2>1 DEF Request, AllKinds, RequestOK, PcFits, Recording
    <2> QED
      BY <1>1, <2>1, <2>2 DEF RequestOK, SessionOK, DialOK, Trying, Stored
  <1>3. q.sid \in Sessions
    BY <1>1, <1>2, Asker DEF WorldOK
  <1>4. Told' = Told \cup {[owner |-> minted[q.sid], sid |-> q.sid,
                            user |-> home[q.sid]]}
    <2>1. known' = known \cup {fact}
      BY DEF Persist
    <2>2. /\ fact.owner = minted[q.sid] /\ fact.sid = q.sid
          /\ fact.user = home[q.sid]
      BY <1>2
    <2> HIDE DEF fact
    <2> QED
      BY <2>1, <2>2 DEF Told
  <1>5. DOMAIN rows' = DOMAIN rows \cup {q.sid}
    BY DEF Persist, Upserted
  <1>6. Promise!Tell(q.sid)
    BY <1>2, <1>4, <1>5 DEF Persist, Promise!Tell
  <1> QED
    BY <1>3, <1>6, StepAsks DEF Next, Step, LocalStep, UpstreamEnds, Promise!Next

\* A request that arrives opens a session or goes unnoticed.
LEMMA ArrivalOpens ==
    ASSUME Safe, NEW r \in Requests, Arrive(r)
    PROVE  Promise!Next
  <1>1. ASSUME NEW o \in Owners, NEW s \in Sessions, NEW a, NEW c,
               DialNew(r, o, s, a, c)
        PROVE  Promise!Next
    <2>1. Promise!Open(s, o)
      BY <1>1 DEF DialNew, stores, Told, Promise!Open, Promise!With, Inserted
    <2> QED
      BY <1>1, <2>1, StepAsks DEF Next, Promise!Next
  <1>2. ASSUME NEW o, NEW s, NEW a, NEW c,
               \/ DialAgain(r, o, s, a, c) \/ Context(r, o, s, c)
               \/ Title(r, o, s, c) \/ Release(r, o, s)
               \/ Upload(r, o, s) \/ Probe(r, a)
        PROVE  Promise!Next
    <2>1. Unnoticed
      BY <1>2 DEF DialAgain, Context, Title, Release, Upload, Probe, stores, history,
                  Unnoticed
    <2> QED
      BY <2>1, UnnoticedKeeps DEF Next
  <1> QED
    BY <1>1, <1>2 DEF Arrive

\* Of the environment's steps only the deletion of a row is noticed.
LEMMA EnvironmentForgets ==
    ASSUME Safe, Environment
    PROVE  Promise!Next
  <1>1. ASSUME NEW s \in Sessions, DeleteRow(s)
        PROVE  Promise!Next
    <2>1. Promise!Forget(s)
      BY <1>1 DEF DeleteRow, Without, Told, Promise!Forget
    <2> QED
      BY <1>1, <2>1, StepAsks DEF Next, Promise!Next
  <1>2. ASSUME NEW s, NEW t, NEW i, NEW d,
               \/ PassTTL(s) \/ CreateAccount(t) \/ UpdateAccount(i, t, d)
               \/ DeleteAccount(i) \/ Restart
        PROVE  Unnoticed
    BY <1>2 DEF PassTTL, CreateAccount, UpdateAccount, DeleteAccount, Restart,
                AllReleased, history, Unnoticed
  <1> QED
    BY <1>1, <1>2, UnnoticedKeeps DEF Environment, Next

\* The gateway keeps the promise of StickySession: a session stays with its
\* caller and its user, what clients were told of it stays true, it can be
\* resumed until its row is deleted, and only its user is asked to go on with
\* its conversation (service.go:974-1228, callsessions/store.go:76-182).
THEOREM GatewayKeepsPromise == Spec => KeepsPromise
  <1>1. Init => Promise!Init
    <2> SUFFICES ASSUME Init PROVE Promise!Init
      OBVIOUS
    <2>1. /\ rows = << >> /\ reqs = << >> /\ known = {}
          /\ minted = << >> /\ home = << >>
      BY DEF Init
    <2>2. Told = {} /\ DOMAIN rows = {} /\ Asking = {}
      BY <2>1 DEF Told, Asking
    <2> QED
      BY <2>1, <2>2 DEF Promise!Init
  <1>2. Safe /\ [Next]_vars => [Promise!Next]_(Promise!vars)
    <2> SUFFICES ASSUME Safe, [Next]_vars
                 PROVE  Promise!Next
      OBVIOUS
    <2>1. ASSUME NEW r \in Requests, Step(r) PROVE Promise!Next
      BY <2>1, BindPins, PersistTells, StepUnnoticed, UnnoticedKeeps
    <2>2. CASE UNCHANGED vars
      BY <2>2, UnnoticedKeeps DEF vars, stores, history, Unnoticed
    <2> QED
      BY <2>1, <2>2, ArrivalOpens, EnvironmentForgets DEF Next
  <1> QED
    BY <1>1, <1>2, GatewaySafe, PTL DEF Spec, KeepsPromise, Promise!Spec

-----------------------------------------------------------------------------
(* The listing.  A step of a request writes one session; what it does to   *)
(* the others is at most to reap them (Untouched).  So for Listing and     *)
(* RowsBound it is enough to look at the request that moves, at its        *)
(* binding and at its row.                                                 *)

\* Session s keeps its binding, which is at most reaped, and its row.
Untouched(s) ==
    /\ s \in DOMAIN bindings' =>
        /\ s \in DOMAIN bindings
        /\ bindings'[s].owner = bindings[s].owner
        /\ bindings'[s].account = bindings[s].account
        /\ bindings'[s].conv = bindings[s].conv
    /\ s \in DOMAIN bindings /\ ~bindings[s].expired =>
        s \in DOMAIN bindings' /\ ~bindings'[s].expired
    /\ s \in DOMAIN rows' <=> s \in DOMAIN rows
    /\ s \in DOMAIN rows =>
        /\ rows'[s].owner = rows[s].owner
        /\ rows'[s].account = rows[s].account
        /\ rows'[s].conv = rows[s].conv
        /\ s \in DOMAIN bindings' => rows'[s].status = rows[s].status
        /\ rows'[s].status = "active" =>
            /\ rows[s].status = "active"
            /\ s \in DOMAIN bindings => s \in DOMAIN bindings'
    /\ s \in erased' <=> s \in erased

\* Tables and deletions that a step leaves as they are.
LEMMA TablesUntouched ==
    ASSUME bindings' = bindings, rows' = rows, erased' = erased, NEW s
    PROVE  Untouched(s)
  BY DEF Untouched

\* The cleanup takes away expired bindings and says so in their rows
\* (service.go:165-192).
LEMMA ReapedHere ==
    ASSUME Safe, rows' = ReapedRows, erased' = erased, NEW s,
           s \in DOMAIN bindings' <=> s \in DOMAIN Live,
           s \in DOMAIN bindings' =>
              \/ bindings'[s] = Live[s]
              \/ bindings'[s] = [Live[s] EXCEPT !.expired = FALSE]
    PROVE  Untouched(s)
  <1>1. BindingsOK /\ RowsOK
    BY Parts
  <1>2. s \in DOMAIN bindings' <=> s \in DOMAIN bindings /\ ~bindings[s].expired
    BY DEF Live, Expired
  <1>3. ASSUME s \in DOMAIN bindings'
        PROVE  /\ bindings'[s].owner = bindings[s].owner
               /\ bindings'[s].account = bindings[s].account
               /\ bindings'[s].conv = bindings[s].conv
               /\ ~bindings'[s].expired
    <2>1. PICK b \in Binding : b = bindings[s] /\ ~b.expired
      BY <1>1, <1>2, <1>3 DEF BindingsOK
    <2>2. bindings'[s] = b \/ bindings'[s] = [b EXCEPT !.expired = FALSE]
      BY <1>2, <1>3, <2>1 DEF Live, Expired
    <2> QED
      BY <2>1, <2>2 DEF Binding
  <1>4. Restated /\ DOMAIN rows' = DOMAIN rows
    BY <1>1, Reaping
  <1>5. ASSUME s \in DOMAIN rows
        PROVE  /\ s \in DOMAIN bindings' => rows'[s].status = rows[s].status
               /\ rows'[s].status = "active" =>
                    /\ rows[s].status = "active"
                    /\ s \in DOMAIN bindings => s \in DOMAIN bindings'
    <2>1. s \in DOMAIN bindings => rows[s].owner = bindings[s].owner
      BY <1>1, <1>5 DEF BindingsOK, BindingOK, RowsOK, RowOK
    <2>2. rows[s] \in CallRow
      BY <1>1, <1>5 DEF RowsOK
    <2>3. rows'[s] = IF s \in Expired /\ rows[s].owner = bindings[s].owner
                     THEN ReleasedRow(rows[s]) ELSE rows[s]
      BY <1>5 DEF ReapedRows
    <2>4. ReleasedRow(rows[s]).status = "released"
      BY <2>2 DEF ReleasedRow, CallRow
    <2> QED
      BY <1>2, <2>1, <2>3, <2>4 DEF Expired
  <1> QED
    BY <1>2, <1>3, <1>4, <1>5 DEF Untouched, Restated

\* A lookup of a binding does no more than that and refresh the one it finds.
LEMMA ReapedUntouched ==
    ASSUME Safe, rows' = ReapedRows, erased' = erased, NEW x,
           bindings' = Live \/ bindings' = Refreshed(x),
           NEW s
    PROVE  Untouched(s)
  <1>1. s \in DOMAIN bindings' <=> s \in DOMAIN Live
    BY DEF Refreshed
  <1>2. s \in DOMAIN bindings' =>
           \/ bindings'[s] = Live[s]
           \/ bindings'[s] = [Live[s] EXCEPT !.expired = FALSE]
    BY DEF Refreshed
  <1> QED
    BY <1>1, <1>2, ReapedHere

\* A statement writes one row.
LEMMA OneRowWritten ==
    ASSUME bindings' = bindings, erased' = erased, NEW s,
           s \in DOMAIN rows' <=> s \in DOMAIN rows,
           s \in DOMAIN rows => rows'[s] = rows[s]
    PROVE  Untouched(s)
  BY DEF Untouched

\* A step that writes leaves the sessions of other requests alone.
LEMMA WritesUntouched ==
    ASSUME Safe, NEW r,
           \/ Bind(r) \/ Persist(r) \/ ContextBound(r) \/ ContextSync(r)
           \/ ContextPut(r) \/ DropBinding(r) \/ Unlist(r),
           NEW s, s # reqs[r].sid
    PROVE  Untouched(s)
  <1>1. erased' = erased
    BY DEF Bind, Persist, ContextBound, ContextSync, ContextPut, DropBinding, Unlist,
           history
  <1>2. CASE Bind(r) \/ ContextBound(r)
    <2>1. rows' = ReapedRows
      BY <1>2 DEF Bind, ContextBound
    <2>2. /\ s \in DOMAIN bindings' <=> s \in DOMAIN Live
          /\ s \in DOMAIN bindings' => bindings'[s] = Live[s]
      BY <1>2 DEF Bind, ContextBound, Inserted, Refreshed, BoundTo
    <2> QED
      BY <1>1, <2>1, <2>2, ReapedHere
  <1>3. CASE Persist(r) \/ ContextSync(r) \/ ContextPut(r) \/ Unlist(r)
    <2>1. /\ bindings' = bindings
          /\ s \in DOMAIN rows' <=> s \in DOMAIN rows
          /\ s \in DOMAIN rows => rows'[s] = rows[s]
      BY <1>3 DEF Persist, ContextSync, ContextPut, Unlist, Upserted, Continued,
                  Released
    <2> QED
      BY <1>1, <2>1, OneRowWritten
  <1>4. CASE DropBinding(r)
    <2>1. /\ rows' = rows
          /\ s \in DOMAIN bindings' <=> s \in DOMAIN bindings
          /\ s \in DOMAIN bindings => bindings'[s] = bindings[s]
      BY <1>4 DEF DropBinding, Without
    <2> QED
      BY <1>1, <2>1 DEF Untouched
  <1> QED
    BY <1>2, <1>3, <1>4

-----------------------------------------------------------------------------
(* What stays listed.                                                      *)

\* A request whose session a step leaves alone knows what it knew.
LEMMA KnowsStill ==
    ASSUME NEW q, RequestListed(q), Untouched(q.sid)
    PROVE  RequestListed(q)'
  <1> SUFFICES ASSUME q.sid # None
               PROVE  (HoldsBinding(q) /\ HoldsRow(q) /\ HasRow(q))'
    BY DEF RequestListed
  <1>1. HoldsBinding(q) /\ HoldsRow(q) /\ HasRow(q)
    BY DEF RequestListed
  <1>2. HoldsBinding(q)'
    BY <1>1 DEF HoldsBinding, Untouched
  <1>3. HoldsRow(q)'
    BY <1>1 DEF HoldsBinding, HoldsRow, Untouched
  <1>4. HasRow(q)'
    BY <1>1 DEF HasRow, Untouched
  <1> QED
    BY <1>2, <1>3, <1>4

\* A binding a step leaves alone is listed as it was.
LEMMA MatchesStill ==
    ASSUME NEW s, Matches(s), Untouched(s), s \in DOMAIN bindings'
    PROVE  Matches(s)'
  BY DEF Matches, Untouched

\* The requests but r stay as they were, and none of them asks for sid.
OthersStay(r, sid) ==
    \A p : p # r =>
        /\ p \in DOMAIN reqs' <=> p \in DOMAIN reqs
        /\ p \in DOMAIN reqs =>
            reqs'[p] = reqs[p] /\ (reqs[p].sid = sid => sid = None)

\* A step for one session keeps the listing if it does so for that session and
\* leaves the others alone.
LEMMA ListedByOwn ==
    ASSUME Safe, Listing, NEW r, NEW sid, OthersStay(r, sid),
           r \in DOMAIN reqs => reqs[r].sid = sid,
           \A s : s # sid => Untouched(s),
           r \in DOMAIN reqs' => RequestListed(reqs[r])',
           sid \in DOMAIN bindings' => BindingListed(sid)'
    PROVE  Listing'
  <1>1. ASSUME NEW p \in DOMAIN reqs' PROVE RequestListed(reqs[p])'
    <2>1. CASE p = r
      BY <2>1
    <2>2. CASE p # r
      <3>1. p \in DOMAIN reqs /\ reqs'[p] = reqs[p]
        BY <2>2 DEF OthersStay
      <3>2. PICK q : q = reqs[p]
        OBVIOUS
      <3>3. CASE q.sid = None
        BY <3>1, <3>2, <3>3 DEF RequestListed
      <3>4. CASE q.sid # None
        <4>1. q.sid # sid
          BY <2>2, <3>1, <3>2, <3>4 DEF OthersStay
        <4>2. RequestListed(q)
          BY <3>1, <3>2 DEF Listing
        <4>3. RequestListed(q)'
          BY <4>1, <4>2, KnowsStill
        <4> QED
          BY <3>1, <3>2, <4>3
      <3> QED
        BY <3>3, <3>4
    <2> QED
      BY <2>1, <2>2
  <1>2. ASSUME NEW s \in DOMAIN bindings' PROVE BindingListed(s)'
    <2>1. CASE s = sid
      BY <2>1
    <2>2. CASE s # sid
      <3>1. Untouched(s) /\ s \in DOMAIN bindings /\ BindingListed(s)
        BY <2>2 DEF Untouched, Listing
      <3>2. CASE s \in erased
        BY <3>1, <3>2 DEF BindingListed, Untouched
      <3>3. CASE Matches(s)
        BY <3>1, <3>3, MatchesStill DEF BindingListed
      <3>4. ASSUME NEW p \in DOMAIN reqs, reqs[p].sid = s, reqs[p].pc \in Unwritten
            PROVE  BindingListed(s)'
        <4>1. p # r
          BY <2>2, <3>4
        <4>2. p \in DOMAIN reqs' /\ reqs'[p] = reqs[p]
          BY <4>1 DEF OthersStay
        <4> QED
          BY <3>4, <4>2 DEF BindingListed
      <3> QED
        BY <3>1, <3>2, <3>3, <3>4 DEF BindingListed
    <2> QED
      BY <2>1, <2>2
  <1> QED
    BY <1>1, <1>2 DEF Listing

\* Between the steps of its only request that write it, a binding is listed.
LEMMA ListedNow ==
    ASSUME Safe, Listing, OneAtATime, NEW r \in DOMAIN reqs,
           reqs[r].sid # None, reqs[r].pc \notin Unwritten,
           reqs[r].sid \in DOMAIN bindings \ erased
    PROVE  Matches(reqs[r].sid)
  BY DEF Listing, BindingListed, OneAtATime

\* A request that takes a step moves on for its own session, or is answered.
LEMMA MovesAlone ==
    ASSUME Safe, OneAtATime, NEW r \in DOMAIN reqs, NEW n,
           Goto(r, n) \/ Reply(r)
    PROVE  /\ OthersStay(r, reqs[r].sid)
           /\ Goto(r, n) => r \in DOMAIN reqs' /\ reqs'[r] = n
           /\ Reply(r) => r \notin DOMAIN reqs'
  <1>1. DOMAIN reqs' = DOMAIN reqs \/ DOMAIN reqs' = DOMAIN reqs \ {r}
    BY DEF Goto, Reply, Without
  <1>2. \A p \in DOMAIN reqs \ {r} : p \in DOMAIN reqs' /\ reqs'[p] = reqs[p]
    BY DEF Goto, Reply, Without
  <1>3. \A p \in DOMAIN reqs \ {r} : reqs[p].sid = reqs[r].sid => reqs[r].sid = None
    BY DEF OneAtATime
  <1>4. Goto(r, n) => r \in DOMAIN reqs' /\ reqs'[r] = n
    BY DEF Goto
  <1>5. Reply(r) => r \notin DOMAIN reqs'
    BY DEF Reply, Without
  <1> QED
    BY <1>1, <1>2, <1>3, <1>4, <1>5 DEF OthersStay

\* A step that leaves every session alone keeps the listing if its request was
\* not about to write a row and does not claim more than is so.
LEMMA ListedStill ==
    ASSUME Safe, Listing, OneAtATime, NEW r \in DOMAIN reqs,
           reqs[r].pc \notin Unwritten, \A s : Untouched(s),
           NEW n, n.sid = reqs[r].sid,
           \/ Reply(r)
           \/ Goto(r, n) /\ RequestListed(n)'
    PROVE  Listing'
  <1> DEFINE sid == reqs[r].sid
  <1>1. PICK x : x = sid
    OBVIOUS
  <1>2. OthersStay(r, x) /\ (r \in DOMAIN reqs' => RequestListed(reqs[r])')
    BY <1>1, MovesAlone
  <1>3. ASSUME x \in DOMAIN bindings' PROVE BindingListed(x)'
    <2>1. x \in DOMAIN bindings /\ (x \in erased <=> x \in erased')
      BY <1>3 DEF Untouched
    <2>2. x # None
      BY <2>1, ServiceAssumption DEF Safe, TypeOK
    <2>3. x \notin erased => Matches(x)
      BY <1>1, <2>1, <2>2, ListedNow
    <2> QED
      BY <1>3, <2>1, <2>3, MatchesStill DEF BindingListed
  <1> QED
    BY <1>1, <1>2, <1>3, ListedByOwn

\* What a request that is not between a binding and its row claims.
LEMMA PlainListed ==
    ASSUME NEW n,
           \/ n.pc \in {"bound", "lookup", "ctx", "drop"}
           \/ n.op # "dial" /\ n.pc \in {"pickid", "post", "mark"}
    PROVE  RequestListed(n) /\ RequestListed(n)'
  BY DEF RequestListed, HoldsBinding, HoldsRow, HasRow, Unwritten,
         Picking, Trying

\* A dial that picks its account leaves no conversation of the row behind.
LEMMA PickingListed ==
    ASSUME NEW n, n.pc \in Picking,
           n.sid \in DOMAIN rows' \ erased' /\ n.conv = None
               => rows'[n.sid].conv = None
    PROVE  RequestListed(n)'
  BY DEF RequestListed, HoldsBinding, HoldsRow, HasRow, Unwritten, Picking, Trying

\* A dial that goes on picking keeps its conversation, so it claims what it did.
LEMMA PicksOn ==
    ASSUME Safe, Listing, OneAtATime, NEW r \in DOMAIN reqs,
           reqs[r].op = "dial", reqs[r].pc \in Picking, \A s : Untouched(s),
           NEW n, n.sid = reqs[r].sid, n.conv = reqs[r].conv, n.pc \in Picking,
           Goto(r, n)
    PROVE  Listing'
  <1>1. reqs[r].sid # None
    BY Asker, ServiceAssumption DEF RequestOK, SessionOK, WorldOK
  <1>2. HoldsRow(reqs[r])
    BY <1>1 DEF Listing, RequestListed
  <1>3. n.sid \in DOMAIN rows' \ erased' /\ n.conv = None => rows'[n.sid].conv = None
    BY <1>2 DEF HoldsRow, Untouched
  <1>4. RequestListed(n)' /\ reqs[r].pc \notin Unwritten
    BY <1>3, PickingListed DEF Picking, Trying, Unwritten
  <1> QED
    BY <1>4, ListedStill

\* A dial takes an account (service.go:1036-1073).
LEMMA ChosenListed ==
    ASSUME Safe, Listing, OneAtATime, NEW r \in DOMAIN reqs, NEW i,
           reqs[r].op = "dial", reqs[r].pc \in {"pick", "pickid"},
           \A s : Untouched(s), Chosen(r, i)
    PROVE  Listing'
  <1> DEFINE q == reqs[r]
  <1>1. PICK n : n = [q EXCEPT !.pc = "post", !.tok = accounts[i].token, !.use = i,
                               !.tries = @ + 1, !.excluded = @ \cup {accounts[i].token}]
    OBVIOUS
  <1>2. q \in Request
    BY Asker
  <1>3. n.sid = q.sid /\ n.conv = q.conv /\ n.pc = "post"
    BY <1>1, <1>2 DEF Request
  <1>4. Goto(r, n)
    BY <1>1 DEF Chosen
  <1> QED
    BY <1>3, <1>4, PicksOn DEF Picking, Trying

\* A request that goes on where it claims nothing.
LEMMA GoesOn ==
    ASSUME Safe, Listing, OneAtATime, NEW r \in DOMAIN reqs,
           reqs[r].pc \notin Unwritten, \A s : Untouched(s),
           NEW n, n.sid = reqs[r].sid, Goto(r, n),
           \/ n.pc \in {"bound", "lookup", "ctx", "drop"}
           \/ n.op # "dial" /\ n.pc \in {"pickid", "post", "mark"}
    PROVE  Listing'
  BY PlainListed, ListedStill

\* A request that is answered claims nothing either.
LEMMA Leaves ==
    ASSUME Safe, Listing, OneAtATime, NEW r \in DOMAIN reqs,
           reqs[r].pc \notin Unwritten, \A s : Untouched(s), Reply(r)
    PROVE  Listing'
  <1>1. PICK n : n = reqs[r]
    OBVIOUS
  <1> QED
    BY <1>1, ListedStill

\* The account of a dial is gone.
LEMMA GiveUpListed ==
    ASSUME Safe, Listing, OneAtATime, NEW r \in DOMAIN reqs,
           reqs[r].pc \notin Unwritten, \A s : Untouched(s), GiveUp(r)
    PROVE  Listing'
  <1>1. PICK n : n = [reqs[r] EXCEPT !.pc = "drop"]
    OBVIOUS
  <1>2. n.sid = reqs[r].sid /\ n.pc = "drop"
    BY <1>1, Asker DEF Request
  <1>3. Reply(r) \/ Goto(r, n)
    BY <1>1 DEF GiveUp
  <1> QED
    BY <1>2, <1>3, GoesOn, Leaves

\* A title is aimed at the upstream or first recorded.
LEMMA AimTitleListed ==
    ASSUME Safe, Listing, OneAtATime, NEW r \in DOMAIN reqs, NEW tok, NEW stored,
           reqs[r].op = "title", reqs[r].pc \notin Unwritten,
           \A s : Untouched(s), AimTitle(r, tok, stored)
    PROVE  Listing'
  <1> DEFINE q == reqs[r]
             conv == Merged(stored, q.conv)
  <1>1. PICK n : n = [q EXCEPT !.tok = tok, !.conv = conv,
                               !.pc = IF conv = stored THEN "post" ELSE "ctx"]
    OBVIOUS
  <1>2. q \in Request
    BY Asker
  <1>3. n.sid = q.sid /\ n.op = "title" /\ n.pc \in {"post", "ctx"}
    BY <1>1, <1>2 DEF Request
  <1>4. Reply(r) \/ Goto(r, n)
    BY <1>1 DEF AimTitle
  <1> QED
    BY <1>3, <1>4, GoesOn, Leaves

-----------------------------------------------------------------------------
(* The steps that write neither a binding nor a row.                       *)

\* Such a step leaves every session alone.
LEMMA StoresUntouched ==
    ASSUME NEW r,
           \/ Lookup(r) \/ PickBoundToken(r) \/ PickAny(r) \/ PickByID(r)
           \/ PickForTitle(r) \/ Accepted(r) \/ Refused(r) \/ TitleAnswered(r)
           \/ UploadAnswered(r) \/ ProbeAnswered(r) \/ Unauthorized(r)
           \/ MarkInvalid(r) \/ ContextGet(r)
    PROVE  r \in DOMAIN reqs /\ \A s : Untouched(s)
  <1>1. bindings' = bindings /\ rows' = rows /\ erased' = erased
    BY DEF Lookup, PickBoundToken, PickAny, PickByID, PickForTitle, Accepted,
           Refused, TitleAnswered, UploadAnswered, ProbeAnswered, Unauthorized,
           MarkInvalid, ContextGet, stores, history
  <1>2. r \in DOMAIN reqs
    BY DEF Lookup, PickBoundToken, PickAny, PickByID, PickForTitle, Accepted,
           Refused, TitleAnswered, UploadAnswered, ProbeAnswered, Unauthorized,
           MarkInvalid, ContextGet, At
  <1> QED
    BY <1>1, <1>2, TablesUntouched

\* The durable row gives a dial its conversation.
LEMMA LookupListed ==
    ASSUME Safe, Listing, OneAtATime, NEW r, Lookup(r)
    PROVE  Listing'
  <1> DEFINE q == reqs[r]
             row == rows[q.sid]
             account == IF q.acct > 0 THEN q.acct ELSE row.account
  <1>1. /\ r \in DOMAIN reqs /\ \A s : Untouched(s)
        /\ q.pc = "lookup" /\ q.pc \notin Unwritten
    BY StoresUntouched DEF Lookup, At, Unwritten
  <1>2. q \in Request
    BY <1>1, Asker
  <1>3. CASE Reply(r)
    BY <1>1, <1>3, Leaves
  <1>4. CASE /\ q.op = "dial" /\ Owned(rows, q.owner, q.sid)
             /\ Goto(r, [q EXCEPT !.pc = IF account > 0 THEN "pickid" ELSE "pick",
                                  !.acct = account, !.conv = Merged(row.conv, @)])
    <2>1. PICK n : n = [q EXCEPT !.pc = IF account > 0 THEN "pickid" ELSE "pick",
                                 !.acct = account, !.conv = Merged(row.conv, @)]
      OBVIOUS
    <2>2. /\ n.sid = q.sid /\ n.pc \in {"pick", "pickid"}
          /\ n.conv = Merged(row.conv, q.conv)
      BY <1>2, <2>1 DEF Request
    <2>3. n.conv = None => row.conv = None
      BY <2>2 DEF Merged
    <2>4. n.sid \in DOMAIN rows' \ erased' /\ n.conv = None => rows'[n.sid].conv = None
      BY <1>1, <2>2, <2>3 DEF Untouched
    <2>5. RequestListed(n)'
      BY <2>2, <2>4, PickingListed DEF Picking
    <2> QED
      BY <1>1, <1>4, <2>1, <2>2, <2>5, ListedStill
  <1>5. CASE /\ q.op = "title"
             /\ Goto(r, [q EXCEPT !.pc = "pickid", !.acct = row.account,
                                  !.stored = row.conv])
    <2>1. PICK n : n = [q EXCEPT !.pc = "pickid", !.acct = row.account,
                                 !.stored = row.conv]
      OBVIOUS
    <2>2. n.sid = q.sid /\ n.pc = "pickid" /\ n.op = "title"
      BY <1>2, <1>5, <2>1 DEF Request
    <2> QED
      BY <1>1, <1>5, <2>1, <2>2, GoesOn
  <1> QED
    BY <1>3, <1>4, <1>5 DEF Lookup

\* A request picks an account, or finds none.
LEMMA PickListed ==
    ASSUME Safe, Listing, OneAtATime, NEW r,
           \/ PickBoundToken(r) \/ PickAny(r) \/ PickByID(r) \/ PickForTitle(r)
    PROVE  Listing'
  <1> DEFINE q == reqs[r]
  <1>1. /\ r \in DOMAIN reqs /\ \A s : Untouched(s)
        /\ q.pc \in {"pick", "pickid"} /\ q.pc \notin Unwritten
    BY StoresUntouched
    DEF PickBoundToken, PickAny, PickByID, PickForTitle, At, Unwritten
  <1>2. /\ q \in Request
        /\ q.op = "dial" \/ (q.op = "title" /\ q.pc = "pickid")
    BY <1>1, Asker DEF Request, AllKinds, RequestOK, PcFits, Recording
  <1>3. CASE Reply(r)
    BY <1>1, <1>3, Leaves
  <1>4. CASE GiveUp(r)
    BY <1>1, <1>4, GiveUpListed
  <1>5. ASSUME NEW i, Chosen(r, i), q.op = "dial" PROVE Listing'
    BY <1>1, <1>5, ChosenListed
  <1>6. ASSUME NEW i, AimTitle(r, accounts[i].token, q.stored), q.op = "title"
        PROVE  Listing'
    BY <1>1, <1>6, AimTitleListed
  <1>7. CASE q.op = "dial" /\ Goto(r, [q EXCEPT !.pc = "pickid"])
    <2>1. PICK n : n = [q EXCEPT !.pc = "pickid"]
      OBVIOUS
    <2>2. n.sid = q.sid /\ n.pc = "pickid" /\ n.conv = q.conv
      BY <1>2, <2>1 DEF Request
    <2> QED
      BY <1>1, <1>7, <2>1, <2>2, PicksOn DEF Picking
  <1>8. CASE PickBoundToken(r)
    <2>1. q.op = "dial"
      BY <1>2, <1>8 DEF PickBoundToken, At
    <2> QED
      BY <1>3, <1>4, <1>5, <1>7, <1>8, <2>1 DEF PickBoundToken
  <1>9. CASE PickAny(r)
    <2>1. q.op = "dial"
      BY <1>2, <1>9 DEF PickAny, At
    <2> QED
      BY <1>3, <1>5, <1>9, <2>1 DEF PickAny
  <1>10. CASE PickByID(r)
    BY <1>4, <1>5, <1>10 DEF PickByID
  <1>11. CASE PickForTitle(r)
    BY <1>3, <1>6, <1>11 DEF PickForTitle
  <1> QED
    BY <1>8, <1>9, <1>10, <1>11

\* The upstream answers.
LEMMA UpstreamListed ==
    ASSUME Safe, Listing, OneAtATime, NEW r,
           \/ Accepted(r) \/ Refused(r) \/ TitleAnswered(r) \/ UploadAnswered(r)
           \/ ProbeAnswered(r) \/ Unauthorized(r)
    PROVE  Listing'
  <1> DEFINE q == reqs[r]
  <1>1. /\ r \in DOMAIN reqs /\ \A s : Untouched(s)
        /\ q.pc = "post" /\ q.pc \notin Unwritten
    BY StoresUntouched
    DEF Accepted, Refused, TitleAnswered, UploadAnswered, ProbeAnswered,
        Unauthorized, At, Unwritten
  <1>2. q \in Request
    BY <1>1, Asker
  <1>3. CASE Reply(r)
    BY <1>1, <1>3, Leaves
  <1>4. CASE Accepted(r)
    <2>1. PICK n : n = [q EXCEPT !.pc = "bind"]
      OBVIOUS
    <2>2. n.sid = q.sid /\ n.pc = "bind" /\ n.conv = q.conv
      BY <1>2, <2>1 DEF Request
    <2>3. Goto(r, n) /\ q.op = "dial"
      BY <1>4, <2>1 DEF Accepted
    <2> QED
      BY <1>1, <2>2, <2>3, PicksOn DEF Picking, Trying
  <1>5. CASE Unauthorized(r)
    <2>1. PICK n : n = [q EXCEPT !.pc = "mark"]
      OBVIOUS
    <2>2. n.sid = q.sid /\ n.pc = "mark" /\ n.conv = q.conv /\ n.op = q.op
      BY <1>2, <2>1 DEF Request
    <2>3. Goto(r, n)
      BY <1>5, <2>1 DEF Unauthorized
    <2>4. CASE q.op = "dial"
      BY <1>1, <2>2, <2>3, <2>4, PicksOn DEF Picking, Trying
    <2>5. CASE q.op # "dial"
      BY <1>1, <2>2, <2>3, <2>5, GoesOn
    <2> QED
      BY <2>4, <2>5
  <1> QED
    BY <1>3, <1>4, <1>5 DEF Refused, TitleAnswered, UploadAnswered, ProbeAnswered

\* A dial that goes on without its conversation is the first one of its session,
\* which has no row yet (service.go:1088-1110).
LEMMA MarkInvalidListed ==
    ASSUME Safe, Listing, OneAtATime, NEW r, MarkInvalid(r)
    PROVE  Listing'
  <1> DEFINE q == reqs[r]
  <1>1. /\ r \in DOMAIN reqs /\ \A s : Untouched(s)
        /\ q.pc = "mark" /\ q.pc \notin Unwritten
    BY StoresUntouched DEF MarkInvalid, At, Unwritten
  <1>2. q \in Request /\ RequestOK(q)
    BY <1>1, Asker
  <1>3. CASE Reply(r)
    BY <1>1, <1>3, Leaves
  <1>4. CASE Goto(r, [q EXCEPT !.pc = "drop"])
    <2>1. PICK n : n = [q EXCEPT !.pc = "drop"]
      OBVIOUS
    <2>2. n.sid = q.sid /\ n.pc = "drop"
      BY <1>2, <2>1 DEF Request
    <2> QED
      BY <1>1, <1>4, <2>1, <2>2, GoesOn
  <1>5. CASE /\ q.op = "dial" /\ ~Sticky(q)
             /\ Goto(r, [q EXCEPT !.pc = "pick", !.conv = None])
    <2>1. PICK n : n = [q EXCEPT !.pc = "pick", !.conv = None]
      OBVIOUS
    <2>2. n.sid = q.sid /\ n.pc = "pick"
      BY <1>2, <2>1 DEF Request
    <2>3. Unborn(q)
      BY <1>1, <1>2, <1>5 DEF RequestOK, DialAgainOK, Unborn, Picking, Trying
    <2>4. q.sid \notin DOMAIN rows
      BY <1>1, <2>3, Asker DEF RequestsOK, FreshIds, RowsOK, RowOK
    <2>5. RequestListed(n)'
      BY <1>1, <2>2, <2>4, PickingListed DEF Untouched, Picking
    <2> QED
      BY <1>1, <1>5, <2>1, <2>2, <2>5, ListedStill
  <1> QED
    BY <1>3, <1>4, <1>5 DEF MarkInvalid

\* A report that found no binding looks for the row.
LEMMA ContextGetListed ==
    ASSUME Safe, Listing, OneAtATime, NEW r, ContextGet(r)
    PROVE  Listing'
  <1> DEFINE q == reqs[r]
  <1>1. /\ r \in DOMAIN reqs /\ \A s : Untouched(s)
        /\ q.pc = "ctxget" /\ q.pc \notin Unwritten
    BY StoresUntouched DEF ContextGet, At, Unwritten
  <1>2. q \in Request
    BY <1>1, Asker
  <1>3. CASE Reply(r)
    BY <1>1, <1>3, Leaves
  <1>4. CASE Goto(r, [q EXCEPT !.pc = "ctxput", !.acct = rows[q.sid].account])
    <2>1. PICK n : n = [q EXCEPT !.pc = "ctxput", !.acct = rows[q.sid].account]
      OBVIOUS
    <2>2. n.sid = q.sid /\ n.pc = "ctxput"
      BY <1>2, <2>1 DEF Request
    <2>3. q.sid # None => q.sid \notin DOMAIN bindings'
      BY <1>1 DEF Listing, RequestListed, HoldsBinding, Untouched
    <2>4. RequestListed(n)'
      BY <2>2, <2>3 DEF RequestListed, HoldsBinding, HoldsRow, HasRow, Unwritten,
                        Picking, Trying
    <2> QED
      BY <1>1, <1>4, <2>1, <2>2, <2>4, ListedStill
  <1> QED
    BY <1>3, <1>4 DEF ContextGet

-----------------------------------------------------------------------------
(* The steps that look for a binding.                                      *)

\* Such a step reaps, and leaves every session alone besides.
LEMMA LooksUntouched ==
    ASSUME Safe, NEW r,
           BoundElsewhere(r) \/ NotBound(r) \/ Bound(r) \/ ContextUnbound(r) \/ Reread(r)
    PROVE  r \in DOMAIN reqs /\ \A s : Untouched(s)
  <1>1. rows' = ReapedRows /\ erased' = erased
    BY DEF BoundElsewhere, NotBound, Bound, ContextUnbound, Reread, history
  <1>2. bindings' = Live \/ bindings' = Refreshed(reqs[r].sid)
    BY DEF BoundElsewhere, NotBound, Bound, ContextUnbound, Reread
  <1>3. r \in DOMAIN reqs
    BY DEF BoundElsewhere, NotBound, Bound, ContextUnbound, Reread, At
  <1> QED
    BY <1>1, <1>2, <1>3, ReapedUntouched

\* The binding of another caller, or none.
LEMMA NotBoundListed ==
    ASSUME Safe, Listing, OneAtATime, NEW r, BoundElsewhere(r) \/ NotBound(r)
    PROVE  Listing'
  <1> DEFINE q == reqs[r]
  <1>1. /\ r \in DOMAIN reqs /\ \A s : Untouched(s)
        /\ q.pc = "bound" /\ q.pc \notin Unwritten
    BY LooksUntouched DEF BoundElsewhere, NotBound, At, Unwritten
  <1>2. CASE Reply(r)
    BY <1>1, <1>2, Leaves
  <1>3. CASE Goto(r, [q EXCEPT !.pc = "lookup"])
    <2>1. PICK n : n = [q EXCEPT !.pc = "lookup"]
      OBVIOUS
    <2>2. n.sid = q.sid /\ n.pc = "lookup"
      BY <1>1, <2>1, Asker DEF Request
    <2> QED
      BY <1>1, <1>3, <2>1, <2>2, GoesOn
  <1> QED
    BY <1>2, <1>3 DEF BoundElsewhere, NotBound

\* A dial takes the conversation of its binding, which is that of the row.
LEMMA BoundListed ==
    ASSUME Safe, Listing, OneAtATime, NEW r, Bound(r)
    PROVE  Listing'
  <1> DEFINE q == reqs[r]
             b == Live[q.sid]
  <1>1. /\ r \in DOMAIN reqs /\ \A s : Untouched(s)
        /\ q.pc = "bound" /\ q.pc \notin Unwritten
    BY LooksUntouched DEF Bound, At, Unwritten
  <1>2. q \in Request
    BY <1>1, Asker
  <1>3. /\ q.sid \in DOMAIN bindings /\ b = bindings[q.sid]
    BY DEF Bound, BoundTo, Live
  <1>4. q.sid # None
    BY <1>3, ServiceAssumption DEF Safe, TypeOK
  <1>5. q.sid \notin erased => Matches(q.sid)
    BY <1>1, <1>3, <1>4, ListedNow
  <1>6. CASE /\ q.op = "dial"
             /\ Goto(r, [q EXCEPT !.pc = "pick", !.btok = b.token,
                                  !.acct = IF @ > 0 THEN @ ELSE b.account,
                                  !.conv = Merged(b.conv, @)])
    <2>1. PICK n : n = [q EXCEPT !.pc = "pick", !.btok = b.token,
                                 !.acct = IF @ > 0 THEN @ ELSE b.account,
                                 !.conv = Merged(b.conv, @)]
      OBVIOUS
    <2>2. n.sid = q.sid /\ n.pc = "pick" /\ n.conv = Merged(b.conv, q.conv)
      BY <1>2, <2>1 DEF Request
    <2>3. n.conv = None => b.conv = None
      BY <2>2 DEF Merged
    <2>4. n.sid \in DOMAIN rows' \ erased' /\ n.conv = None => rows'[n.sid].conv = None
      BY <1>1, <1>3, <1>5, <2>2, <2>3 DEF Untouched, Matches
    <2>5. RequestListed(n)'
      BY <2>2, <2>4, PickingListed DEF Picking
    <2> QED
      BY <1>1, <1>6, <2>1, <2>2, <2>5, ListedStill
  <1>7. CASE q.op = "title" /\ AimTitle(r, b.token, b.conv)
    BY <1>1, <1>7, AimTitleListed
  <1>8. CASE q.op = "upload" /\ Goto(r, [q EXCEPT !.pc = "post", !.tok = b.token])
    <2>1. PICK n : n = [q EXCEPT !.pc = "post", !.tok = b.token]
      OBVIOUS
    <2>2. n.sid = q.sid /\ n.pc = "post" /\ n.op = "upload"
      BY <1>2, <1>8, <2>1 DEF Request
    <2> QED
      BY <1>1, <1>8, <2>1, <2>2, GoesOn
  <1> QED
    BY <1>6, <1>7, <1>8 DEF Bound

\* A report finds no binding of its own.
LEMMA ContextUnboundListed ==
    ASSUME Safe, Listing, OneAtATime, NEW r, ContextUnbound(r)
    PROVE  Listing'
  <1> DEFINE q == reqs[r]
  <1>1. /\ r \in DOMAIN reqs /\ \A s : Untouched(s)
        /\ q.pc = "ctx" /\ q.pc \notin Unwritten
    BY LooksUntouched DEF ContextUnbound, At, Unwritten
  <1>2. CASE Reply(r)
    BY <1>1, <1>2, Leaves
  <1>3. CASE q.sid \notin DOMAIN Live /\ Goto(r, [q EXCEPT !.pc = "ctxget"])
    <2>1. PICK n : n = [q EXCEPT !.pc = "ctxget"]
      OBVIOUS
    <2>2. n.sid = q.sid /\ n.pc = "ctxget"
      BY <1>1, <2>1, Asker DEF Request
    <2>3. n.sid \notin DOMAIN bindings'
      BY <1>3, <2>2 DEF ContextUnbound
    <2>4. RequestListed(n)'
      BY <2>2, <2>3 DEF RequestListed, HoldsBinding, HoldsRow, HasRow, Unwritten,
                        Picking, Trying
    <2> QED
      BY <1>1, <1>3, <2>1, <2>2, <2>4, ListedStill
  <1> QED
    BY <1>2, <1>3 DEF ContextUnbound

-----------------------------------------------------------------------------
(* The steps that write a binding, and the row after it.                   *)

\* A binding that its request is about to copy into the row.
LEMMA WritesOn ==
    ASSUME Safe, Listing, OneAtATime, NEW r \in DOMAIN reqs,
           NEW n, n.sid = reqs[r].sid, n.pc \in Unwritten, Goto(r, n),
           \A s : s # n.sid => Untouched(s),
           (HoldsBinding(n) /\ HoldsRow(n) /\ HasRow(n))'
    PROVE  Listing'
  <1>1. PICK x : x = n.sid
    OBVIOUS
  <1>2. OthersStay(r, x) /\ r \in DOMAIN reqs' /\ reqs'[r] = n
    BY <1>1, MovesAlone
  <1>3. RequestListed(reqs[r])'
    BY <1>2 DEF RequestListed
  <1>4. BindingListed(x)'
    BY <1>1, <1>2 DEF BindingListed
  <1> QED
    BY <1>1, <1>2, <1>3, <1>4, ListedByOwn

\* bindVoiceSession keeps the conversation it finds unless the dial has one
\* (service.go:194-233).
LEMMA BindListed ==
    ASSUME Safe, Listing, OneAtATime, NEW r, Bind(r)
    PROVE  Listing'
  <1> DEFINE q == reqs[r]
             conv == IF BoundTo(q.sid, q.owner)
                     THEN Merged(Live[q.sid].conv, q.conv) ELSE q.conv
             binding == [owner |-> q.owner, account |-> q.use, token |-> q.tok,
                         conv |-> conv, expired |-> FALSE]
  <1>1. /\ r \in DOMAIN reqs /\ q.pc = "bind"
        /\ bindings' = Inserted(Live, q.sid, binding)
        /\ rows' = ReapedRows /\ erased' = erased
        /\ Goto(r, [q EXCEPT !.pc = "reread"])
    BY DEF Bind, At
  <1>2. q \in Request /\ RequestOK(q)
    BY <1>1, Asker
  <1>3. q.op = "dial"
    BY <1>1, <1>2 DEF Request, AllKinds, RequestOK, PcFits, Recording
  <1>4. PICK n : n = [q EXCEPT !.pc = "reread"]
    OBVIOUS
  <1>5. n.sid = q.sid /\ n.pc = "reread" /\ n.owner = q.owner /\ n.use = q.use
    BY <1>2, <1>4 DEF Request
  <1>6. ASSUME NEW s, s # n.sid PROVE Untouched(s)
    BY <1>5, <1>6, WritesUntouched
  <1>7. n.sid \in DOMAIN bindings' /\ bindings'[n.sid] = binding
    BY <1>1, <1>5 DEF Inserted
  <1>8. conv = None => q.conv = None
    BY DEF Merged
  <1>9. q.sid # None
    BY <1>2, <1>3, Parts, ServiceAssumption DEF RequestOK, SessionOK, WorldOK
  <1>10. q.conv = None /\ q.sid \in DOMAIN rows \ erased => rows[q.sid].conv = None
    BY <1>1, <1>3, <1>9 DEF Listing, RequestListed, HoldsRow, Picking, Trying
  <1>11. /\ n.sid \in DOMAIN rows' \ erased' <=> q.sid \in DOMAIN rows \ erased
         /\ q.sid \in DOMAIN rows => rows'[n.sid].conv = rows[q.sid].conv
    BY <1>1, <1>5, Parts, Reaping DEF Restated
  <1>12. HoldsBinding(n)'
    BY <1>5, <1>7 DEF HoldsBinding
  <1>13. HoldsRow(n)'
    BY <1>5, <1>7, <1>8, <1>10, <1>11 DEF HoldsRow, Picking, Trying
  <1>14. HasRow(n)'
    BY <1>5 DEF HasRow
  <1> QED
    BY <1>1, <1>4, <1>5, <1>6, <1>12, <1>13, <1>14, WritesOn DEF Unwritten

\* The dial reads back what it bound (service.go:1129-1133).
LEMMA RereadListed ==
    ASSUME Safe, Listing, OneAtATime, NEW r, Reread(r)
    PROVE  Listing'
  <1> DEFINE q == reqs[r]
  <1>1. /\ r \in DOMAIN reqs /\ q.pc = "reread" /\ \A s : Untouched(s)
    BY LooksUntouched DEF Reread, At
  <1>2. q \in Request /\ RequestOK(q)
    BY <1>1, Asker
  <1>3. q.op = "dial"
    BY <1>1, <1>2 DEF Request, AllKinds, RequestOK, PcFits, Recording, Picking, Trying
  <1>4. q.sid # None
    BY <1>2, <1>3, Parts, ServiceAssumption DEF RequestOK, SessionOK, WorldOK
  <1>5. HoldsBinding(q) /\ HoldsRow(q)
    BY <1>1, <1>4 DEF Listing, RequestListed
  <1>6. BoundTo(q.sid, q.owner) /\ Live[q.sid] = bindings[q.sid]
    BY <1>1, <1>5 DEF HoldsBinding, BoundTo, Live, Expired, Unwritten
  <1>7. PICK n : n = [q EXCEPT !.pc = "persist", !.conv = bindings[q.sid].conv]
    OBVIOUS
  <1>8. /\ n.sid = q.sid /\ n.pc = "persist" /\ n.owner = q.owner /\ n.use = q.use
        /\ n.conv = bindings[q.sid].conv
    BY <1>2, <1>7 DEF Request
  <1>9. Goto(r, n)
    BY <1>6, <1>7 DEF Reread
  <1>10. HoldsBinding(n)'
    BY <1>1, <1>5, <1>8 DEF HoldsBinding, Untouched, Unwritten
  <1>11. HoldsRow(n)'
    BY <1>1, <1>5, <1>8 DEF HoldsBinding, HoldsRow, Untouched, Unwritten, Picking, Trying
  <1>12. HasRow(n)'
    BY <1>8 DEF HasRow
  <1> QED
    BY <1>1, <1>8, <1>9, <1>10, <1>11, <1>12, WritesOn DEF Unwritten

\* A report is recorded in the binding, which has a row that says what it said
\* (service.go:268-333).
LEMMA ContextBoundListed ==
    ASSUME Safe, Listing, OneAtATime, NEW r, ContextBound(r)
    PROVE  Listing'
  <1> DEFINE q == reqs[r]
             b == Live[q.sid]
             conv == Merged(b.conv, q.conv)
  <1>1. /\ r \in DOMAIN reqs /\ q.pc = "ctx"
        /\ q.sid \in DOMAIN Live /\ b.owner = q.owner
        /\ bindings' = [Refreshed(q.sid) EXCEPT ![q.sid].conv = conv]
        /\ rows' = ReapedRows /\ erased' = erased
        /\ Goto(r, [q EXCEPT !.pc = "sync", !.acct = b.account, !.conv = conv])
    BY DEF ContextBound, At, BoundTo, history
  <1>2. q \in Request /\ BindingsOK /\ RowsOK
    BY <1>1, Asker
  <1>3. PICK x : x = b
    OBVIOUS
  <1>4. /\ q.sid \in DOMAIN bindings /\ x = bindings[q.sid] /\ x \in Binding
        /\ x.owner = q.owner
    BY <1>1, <1>2, <1>3 DEF Live, BindingsOK
  <1>5. PICK n : n = [q EXCEPT !.pc = "sync", !.acct = b.account, !.conv = conv]
    OBVIOUS
  <1>6. /\ n.sid = q.sid /\ n.pc = "sync" /\ n.owner = q.owner /\ n.acct = x.account
        /\ n.conv = Merged(x.conv, q.conv)
    BY <1>2, <1>3, <1>5 DEF Request
  <1>7. ASSUME NEW s, s # n.sid PROVE Untouched(s)
    BY <1>6, <1>7, WritesUntouched
  <1>8. /\ n.sid \in DOMAIN bindings'
        /\ bindings'[n.sid] = [[x EXCEPT !.expired = FALSE] EXCEPT !.conv = n.conv]
    BY <1>1, <1>3, <1>6 DEF Refreshed
  <1>9. /\ bindings'[n.sid].owner = n.owner /\ bindings'[n.sid].account = n.acct
        /\ bindings'[n.sid].conv = n.conv /\ ~bindings'[n.sid].expired
    BY <1>4, <1>6, <1>8 DEF Binding
  <1>10. n.sid # None
    BY <1>4, <1>6, ServiceAssumption DEF Safe, TypeOK
  <1>11. n.sid \notin erased => Matches(n.sid)
    BY <1>1, <1>4, <1>6, <1>10, ListedNow DEF Unwritten
  <1>12. n.sid \notin erased' /\ n.conv = None
            => n.sid \in DOMAIN rows /\ rows[n.sid].conv = None
    BY <1>1, <1>4, <1>6, <1>11 DEF Matches, Merged
  <1>13. DOMAIN rows' = DOMAIN rows /\ \A s \in DOMAIN rows : rows'[s].conv = rows[s].conv
    BY <1>1, <1>2, Reaping DEF Restated
  <1>14. HoldsBinding(n)'
    BY <1>6, <1>8, <1>9 DEF HoldsBinding
  <1>15. HoldsRow(n)'
    BY <1>6, <1>9, <1>12, <1>13 DEF HoldsRow, Picking, Trying
  <1>16. HasRow(n)'
    BY <1>1, <1>4, <1>6, <1>11, <1>13 DEF HasRow, Matches
  <1> QED
    BY <1>1, <1>5, <1>6, <1>7, <1>14, <1>15, <1>16, WritesOn DEF Unwritten

\* A request that has written its row, or has none to write, claims nothing more.
LEMMA WroteRow ==
    ASSUME Safe, Listing, OneAtATime, NEW r \in DOMAIN reqs,
           bindings' = bindings, erased' = erased, NEW x, x = reqs[r].sid,
           \A s : s # x =>
              /\ s \in DOMAIN rows' <=> s \in DOMAIN rows
              /\ s \in DOMAIN rows => rows'[s] = rows[s],
           x \in DOMAIN bindings \ erased => Matches(x)',
           \/ Reply(r)
           \/ reqs[r].op = "title" /\ Goto(r, [reqs[r] EXCEPT !.pc = "post"])
    PROVE  Listing'
  <1>1. PICK n : n = [reqs[r] EXCEPT !.pc = "post"]
    OBVIOUS
  <1>3. Reply(r) \/ (n.op = "title" /\ n.pc = "post" /\ Goto(r, n))
    BY <1>1, Asker DEF Request
  <1>4. OthersStay(r, x) /\ (r \in DOMAIN reqs' => RequestListed(reqs[r])')
    BY <1>3, MovesAlone, PlainListed
  <1>5. x \in DOMAIN bindings' => BindingListed(x)'
    BY DEF BindingListed
  <1>6. \A s : s # x => Untouched(s)
    BY OneRowWritten
  <1> QED
    BY <1>4, <1>5, <1>6, ListedByOwn

\* The row of a dial is written with the account and the conversation of its
\* binding (store.go:85-156).
LEMMA PersistListed ==
    ASSUME Safe, Listing, OneAtATime, NEW r, Persist(r)
    PROVE  Listing'
  <1> DEFINE q == reqs[r]
  <1>1. /\ r \in DOMAIN reqs /\ q.pc = "persist"
        /\ rows' = Upserted(rows, q.sid, q.owner, q.use, q.conv)
        /\ bindings' = bindings /\ erased' = erased /\ Reply(r)
    BY DEF Persist, At
  <1>2. q \in Request /\ RequestOK(q)
    BY <1>1, Asker
  <1>3. q.op = "dial"
    BY <1>1, <1>2 DEF Request, AllKinds, RequestOK, PcFits, Recording, Picking, Trying
  <1>4. q.sid # None
    BY <1>2, <1>3, Parts, ServiceAssumption DEF RequestOK, SessionOK, WorldOK
  <1>5. q.use > 0
    BY <1>1, <1>2, <1>3, Parts DEF RequestOK, DialOK, Leads, Stored, WorldOK
  <1>6. HoldsBinding(q) /\ HoldsRow(q)
    BY <1>1, <1>4 DEF Listing, RequestListed
  <1>7. bindings[q.sid].account = q.use /\ bindings[q.sid].conv = q.conv
    BY <1>1, <1>6 DEF HoldsBinding, Unwritten
  <1>8. q.sid \in DOMAIN rows \ erased /\ q.conv = None => rows[q.sid].conv = None
    BY <1>1, <1>6, <1>7 DEF HoldsRow, Unwritten
  <1> PICK x : x = q.sid
    OBVIOUS
  <1>9. x \notin erased => Matches(x)'
    <2>1. /\ q.sid \in DOMAIN rows' /\ rows'[q.sid].status = "active"
          /\ rows'[q.sid].account = q.use
          /\ bindings'[q.sid].account = q.use /\ bindings'[q.sid].conv = q.conv
      BY <1>1, <1>5, <1>7 DEF Upserted
    <2>2. q.sid \notin erased => rows'[q.sid].conv = q.conv
      BY <1>1, <1>8 DEF Upserted, Merged
    <2> QED
      BY <1>1, <2>1, <2>2 DEF Matches
  <1>10. \A s : s # q.sid =>
            /\ s \in DOMAIN rows' <=> s \in DOMAIN rows
            /\ s \in DOMAIN rows => rows'[s] = rows[s]
    BY <1>1 DEF Upserted
  <1> QED
    BY <1>1, <1>9, <1>10, WroteRow

\* What a report tells a row, and where its request goes.
LEMMA ContinuedFor ==
    ASSUME NEW q, q.sid \in DOMAIN rows, rows' = Continued(rows, q.sid, q.acct, q.conv)
    PROVE  /\ DOMAIN rows' = DOMAIN rows
           /\ \A s \in DOMAIN rows : s # q.sid => rows'[s] = rows[s]
           /\ rows'[q.sid].owner = rows[q.sid].owner
           /\ rows'[q.sid].status = "active"
           /\ q.acct > 0 => rows'[q.sid].account = q.acct
           /\ rows'[q.sid].conv = Merged(rows[q.sid].conv, q.conv)
  BY DEF Continued

\* So does a report write the row of its binding (store.go:158-206).
LEMMA ContextSyncListed ==
    ASSUME Safe, Listing, OneAtATime, NEW r, ContextSync(r)
    PROVE  Listing'
  <1> DEFINE q == reqs[r]
  <1>1. /\ r \in DOMAIN reqs /\ q.pc = "sync"
        /\ rows' = IF Owned(rows, q.owner, q.sid)
                   THEN Continued(rows, q.sid, q.acct, q.conv) ELSE rows
        /\ bindings' = bindings /\ erased' = erased /\ Recorded(r)
    BY DEF ContextSync, At, history
  <1>2. q \in Request /\ RequestOK(q) /\ BindingsOK /\ RowsOK /\ WorldOK
    BY <1>1, Asker
  <1>3. q.op \in {"title", "context"}
    BY <1>1, <1>2 DEF Request, AllKinds, RequestOK, PcFits, Picking, Trying, Stored
  <1>4. q.sid # None
    BY <1>2, <1>3, ServiceAssumption DEF RequestOK, SessionOK, WorldOK
  <1>5. q.acct > 0
    BY <1>1, <1>2, <1>3 DEF RequestOK, ContextOK, Leads, WorldOK
  <1>6. HoldsBinding(q) /\ HoldsRow(q) /\ HasRow(q)
    BY <1>1, <1>4 DEF Listing, RequestListed
  <1>7. /\ q.sid \in DOMAIN bindings /\ bindings[q.sid].owner = q.owner
        /\ bindings[q.sid].account = q.acct /\ bindings[q.sid].conv = q.conv
    BY <1>1, <1>6 DEF HoldsBinding, Unwritten
  <1>8. q.sid \notin erased => Owned(rows, q.owner, q.sid)
    BY <1>1, <1>2, <1>6, <1>7 DEF HasRow, Owned, BindingsOK, BindingOK, RowsOK, RowOK
  <1>9. q.sid \notin erased /\ q.conv = None => rows[q.sid].conv = None
    BY <1>1, <1>6, <1>7, <1>8 DEF HoldsRow, Unwritten, Owned
  <1> PICK x : x = q
    OBVIOUS
  <1>10. x.sid \notin erased => Matches(x.sid)'
    <2> SUFFICES ASSUME x.sid \notin erased PROVE Matches(x.sid)'
      OBVIOUS
    <2>2. x.sid \in DOMAIN rows /\ rows' = Continued(rows, x.sid, x.acct, x.conv)
      BY <1>1, <1>8 DEF Owned
    <2>3. /\ x.sid \in DOMAIN rows' /\ rows'[x.sid].status = "active"
          /\ rows'[x.sid].account = x.acct
          /\ rows'[x.sid].conv = Merged(rows[x.sid].conv, x.conv)
      BY <1>5, <2>2, ContinuedFor
    <2>4. rows'[x.sid].conv = x.conv
      BY <1>9, <2>3 DEF Merged
    <2> QED
      BY <1>1, <1>7, <2>3, <2>4 DEF Matches
  <1>11. \A s : s # q.sid =>
            /\ s \in DOMAIN rows' <=> s \in DOMAIN rows
            /\ s \in DOMAIN rows => rows'[s] = rows[s]
    BY <1>1 DEF Continued
  <1> QED
    BY <1>1, <1>10, <1>11, WroteRow DEF Recorded

\* A report without a binding writes a row that no binding is listed by.
LEMMA ContextPutListed ==
    ASSUME Safe, Listing, OneAtATime, NEW r, ContextPut(r)
    PROVE  Listing'
  <1> DEFINE q == reqs[r]
  <1>1. /\ r \in DOMAIN reqs /\ q.pc = "ctxput"
        /\ rows' = rows \/ rows' = Continued(rows, q.sid, q.acct, q.conv)
        /\ bindings' = bindings /\ erased' = erased
        /\ Recorded(r) \/ Reply(r)
    BY DEF ContextPut, At, history
  <1>2. q.sid # None => q.sid \notin DOMAIN bindings
    BY <1>1 DEF Listing, RequestListed, HoldsBinding
  <1>3. None \notin DOMAIN bindings
    BY ServiceAssumption DEF Safe, TypeOK
  <1>4. \A s : s # q.sid =>
            /\ s \in DOMAIN rows' <=> s \in DOMAIN rows
            /\ s \in DOMAIN rows => rows'[s] = rows[s]
    BY <1>1 DEF Continued
  <1> QED
    BY <1>1, <1>2, <1>3, <1>4, WroteRow DEF Recorded

\* A release takes the binding away, if it is its caller's (service.go:549-569).
LEMMA DropBindingListed ==
    ASSUME Safe, Listing, OneAtATime, NEW r, DropBinding(r)
    PROVE  Listing'
  <1> DEFINE q == reqs[r]
  <1>1. /\ r \in DOMAIN reqs /\ q.pc = "drop" /\ q.pc \notin Unwritten
        /\ bindings' = IF q.sid \in DOMAIN bindings /\ bindings[q.sid].owner = q.owner
                       THEN Without(bindings, q.sid) ELSE bindings
        /\ rows' = rows /\ erased' = erased
        /\ Goto(r, [q EXCEPT !.pc = "unlist"])
    BY DEF DropBinding, At, history, Unwritten
  <1>2. PICK n : n = [q EXCEPT !.pc = "unlist"]
    OBVIOUS
  <1>3. n.sid = q.sid /\ n.pc = "unlist" /\ n.owner = q.owner
    BY <1>1, <1>2, Asker DEF Request
  <1>4. /\ \A s : s # n.sid => (s \in DOMAIN bindings' <=> s \in DOMAIN bindings)
        /\ \A s \in DOMAIN bindings' : s \in DOMAIN bindings /\ bindings'[s] = bindings[s]
        /\ n.sid \in DOMAIN bindings' => bindings'[n.sid].owner # n.owner
    BY <1>1, <1>3 DEF Without
  <1>5. \A s : s # n.sid => Untouched(s)
    BY <1>1, <1>4 DEF Untouched
  <1>6. RequestListed(n)'
    BY <1>3, <1>4 DEF RequestListed, HoldsBinding, HoldsRow, HasRow, Unwritten,
                      Picking, Trying
  <1>7. OthersStay(r, n.sid) /\ r \in DOMAIN reqs' /\ reqs'[r] = n
    BY <1>1, <1>2, <1>3, MovesAlone
  <1>8. ASSUME n.sid \in DOMAIN bindings' PROVE BindingListed(n.sid)'
    <2>1. n.sid \in DOMAIN bindings /\ n.sid # None
      BY <1>4, <1>8, ServiceAssumption DEF Safe, TypeOK
    <2>2. n.sid \notin erased => Matches(n.sid)
      BY <1>1, <1>3, <2>1, ListedNow
    <2>3. n.sid \notin erased' => Matches(n.sid)'
      BY <1>1, <1>4, <1>8, <2>2 DEF Matches
    <2> QED
      BY <2>3 DEF BindingListed
  <1> QED
    BY <1>1, <1>3, <1>5, <1>6, <1>7, <1>8, ListedByOwn

\* It then marks the row released, if that is its caller's: a binding that is
\* there is another caller's, and so is its row.
LEMMA UnlistListed ==
    ASSUME Safe, Listing, OneAtATime, NEW r, Unlist(r)
    PROVE  Listing'
  <1> DEFINE q == reqs[r]
  <1>1. /\ r \in DOMAIN reqs /\ q.pc = "unlist" /\ q.pc \notin Unwritten
        /\ rows' = Released(rows, q.owner, q.sid)
        /\ bindings' = bindings /\ erased' = erased /\ Reply(r)
    BY DEF Unlist, At, history, Unwritten
  <1>2. q.sid \in DOMAIN bindings \ erased => q.sid # None /\ Matches(q.sid)
    BY <1>1, ListedNow, ServiceAssumption DEF Safe, TypeOK
  <1>3. q.sid \in DOMAIN bindings /\ q.sid # None => bindings[q.sid].owner # q.owner
    BY <1>1 DEF Listing, RequestListed, HoldsBinding
  <1>4. q.sid \in DOMAIN bindings \ erased => rows[q.sid].owner # q.owner
    BY <1>2, <1>3, Parts DEF Matches, BindingsOK, BindingOK, RowsOK, RowOK
  <1> PICK x : x = q.sid
    OBVIOUS
  <1>5. x \in DOMAIN bindings \ erased => Matches(x)'
    BY <1>1, <1>2, <1>4 DEF Matches, Released
  <1>6. \A s : s # q.sid =>
            /\ s \in DOMAIN rows' <=> s \in DOMAIN rows
            /\ s \in DOMAIN rows => rows'[s] = rows[s]
    BY <1>1 DEF Released
  <1> QED
    BY <1>1, <1>5, <1>6, WroteRow

-----------------------------------------------------------------------------
(* Requests arrive; time, restarts and the administrator.                  *)

\* A step that leaves bindings, rows, requests and deletions leaves the listing.
LEMMA ListedUnchanged ==
    ASSUME Listing, UNCHANGED <<bindings, rows, reqs, erased>>
    PROVE  Listing'
  BY DEF Listing, RequestListed, HoldsBinding, HoldsRow, HasRow, BindingListed,
         Matches

\* A request that arrives is the only one for its session.
LEMMA ArrivesListed ==
    ASSUME Safe, Listing, OneAtATime', NEW r, r \notin DOMAIN reqs, NEW n,
           reqs' = Inserted(reqs, r, n), RequestListed(n)',
           bindings' = bindings, rows' = rows, erased' = erased
    PROVE  Listing'
  <1>1. r \in DOMAIN reqs' /\ reqs'[r] = n
    BY DEF Inserted
  <1>2. \A p : p # r => /\ p \in DOMAIN reqs' <=> p \in DOMAIN reqs
                        /\ p \in DOMAIN reqs => reqs'[p] = reqs[p]
    BY DEF Inserted
  <1>3. OthersStay(r, n.sid)
    BY <1>1, <1>2 DEF OthersStay, OneAtATime
  <1>4. n.sid \in DOMAIN bindings' => BindingListed(n.sid)'
    <2> SUFFICES ASSUME n.sid \in DOMAIN bindings PROVE BindingListed(n.sid)'
      OBVIOUS
    <2>1. n.sid # None
      BY ServiceAssumption DEF Safe, TypeOK
    <2>2. BindingListed(n.sid) /\ \A p \in DOMAIN reqs : reqs[p].sid # n.sid
      BY <1>3, <2>1 DEF Listing, OthersStay
    <2> QED
      BY <2>2 DEF BindingListed, Matches
  <1> QED
    BY <1>1, <1>3, <1>4, TablesUntouched, ListedByOwn

\* A first dial has no row yet; the others claim nothing when they arrive.
LEMMA ArriveListed ==
    ASSUME Safe, Listing, OneAtATime', NEW r \in Requests, Arrive(r)
    PROVE  Listing'
  <1>1. ASSUME NEW o, NEW s, NEW a, NEW c, DialNew(r, o, s, a, c)
        PROVE  Listing'
    <2>1. PICK n : n = [NewRequest("dial", IF a > 0 THEN "pickid" ELSE "pick", o, s, c)
                          EXCEPT !.new = TRUE, !.acct = a]
      OBVIOUS
    <2>2. n.sid = s /\ n.pc \in {"pick", "pickid"}
      BY <2>1 DEF NewRequest
    <2>3. r \notin DOMAIN reqs /\ reqs' = Inserted(reqs, r, n)
      BY <1>1, <2>1 DEF DialNew, Begin
    <2>4. bindings' = bindings /\ rows' = rows /\ erased' = erased
      BY <1>1 DEF DialNew, stores
    <2>5. s \notin DOMAIN rows
      BY <1>1 DEF DialNew, Safe, TypeOK
    <2>6. RequestListed(n)'
      BY <2>2, <2>4, <2>5, PickingListed DEF Picking
    <2> QED
      BY <2>3, <2>4, <2>6, ArrivesListed
  <1>2. ASSUME NEW n, Begin(r, n), UNCHANGED <<stores, history, edits>>,
               \/ n.pc \in {"bound", "ctx", "drop"}
               \/ n.op # "dial" /\ n.pc = "post"
        PROVE  Listing'
    <2>1. r \notin DOMAIN reqs /\ reqs' = Inserted(reqs, r, n)
      BY <1>2 DEF Begin
    <2>2. bindings' = bindings /\ rows' = rows /\ erased' = erased
      BY <1>2 DEF stores, history
    <2>3. RequestListed(n)'
      BY <1>2, PlainListed
    <2> QED
      BY <2>1, <2>2, <2>3, ArrivesListed
  <1>3. ASSUME NEW o, NEW s, NEW a, NEW c, DialAgain(r, o, s, a, c)
        PROVE  Listing'
    <2>1. PICK n : n = [NewRequest("dial", "bound", o, s, c) EXCEPT !.acct = a]
      OBVIOUS
    <2>2. n.pc = "bound"
      BY <2>1 DEF NewRequest
    <2> QED
      BY <1>2, <1>3, <2>1, <2>2 DEF DialAgain
  <1>4. ASSUME NEW o, NEW s, NEW c,
               Context(r, o, s, c) \/ Title(r, o, s, c) \/ Release(r, o, s)
                   \/ Upload(r, o, s)
        PROVE  Listing'
    <2>1. PICK n :
             /\ n.pc \in {"bound", "ctx", "drop"}
             /\ Begin(r, n) /\ UNCHANGED <<stores, history, edits>>
      BY <1>4 DEF Context, Title, Release, Upload, NewRequest
    <2> QED
      BY <1>2, <2>1
  <1>5. ASSUME NEW i, Probe(r, i)
        PROVE  Listing'
    <2>1. PICK n : n = [NewRequest("probe", "post", None, None, None)
                          EXCEPT !.tok = accounts[i].token]
      OBVIOUS
    <2>2. n.pc = "post" /\ n.op = "probe"
      BY <2>1 DEF NewRequest
    <2> QED
      BY <1>2, <1>5, <2>1, <2>2 DEF Probe
  <1> QED
    BY <1>1, <1>3, <1>4, <1>5 DEF Arrive

\* A binding passes its TTL when no request is about to write its row.
LEMMA PassTTLListed ==
    ASSUME Safe, Listing, NEW s, PassTTL(s)
    PROVE  Listing'
  <1>1. /\ rows' = rows /\ reqs' = reqs /\ erased' = erased
        /\ \A r \in DOMAIN reqs : reqs[r].sid = s => reqs[r].pc \notin Unwritten
    BY DEF PassTTL, history, Unwritten
  <1>2. /\ DOMAIN bindings' = DOMAIN bindings
        /\ \A t \in DOMAIN bindings : t # s => bindings'[t] = bindings[t]
    BY DEF PassTTL
  <1>3. /\ bindings'[s].owner = bindings[s].owner
        /\ bindings'[s].account = bindings[s].account
        /\ bindings'[s].conv = bindings[s].conv
    <2>1. bindings[s] \in Binding /\ bindings'[s] = [bindings[s] EXCEPT !.expired = TRUE]
      BY DEF PassTTL, Safe, TypeOK
    <2> QED
      BY <2>1 DEF Binding
  <1>4. ASSUME NEW r \in DOMAIN reqs' PROVE RequestListed(reqs[r])'
    <2>1. PICK q : q = reqs[r] /\ RequestListed(q)
      BY <1>1 DEF Listing
    <2>2. q.sid = s => q.pc \notin Unwritten
      BY <1>1, <2>1
    <2>3. (HoldsBinding(q) => HoldsBinding(q)')
      BY <1>2, <1>3, <2>2 DEF HoldsBinding
    <2>4. HoldsBinding(q) /\ HoldsRow(q) => HoldsRow(q)'
      BY <1>1, <1>2, <2>2 DEF HoldsBinding, HoldsRow
    <2>5. HasRow(q) => HasRow(q)'
      BY <1>1 DEF HasRow
    <2> QED
      BY <1>1, <2>1, <2>3, <2>4, <2>5 DEF RequestListed
  <1>5. ASSUME NEW t \in DOMAIN bindings' PROVE BindingListed(t)'
    <2>1. BindingListed(t)
      BY <1>2 DEF Listing
    <2>2. Matches(t) => Matches(t)'
      BY <1>1, <1>2, <1>3 DEF Matches
    <2> QED
      BY <1>1, <2>1, <2>2 DEF BindingListed
  <1> QED
    BY <1>4, <1>5 DEF Listing

\* The administrator deletes a row.
LEMMA DeleteRowListed ==
    ASSUME Safe, Listing, NEW s, DeleteRow(s)
    PROVE  Listing'
  <1>1. /\ bindings' = bindings /\ reqs' = reqs /\ erased' = erased \cup {s}
        /\ \A t : t # s => (t \in DOMAIN rows' <=> t \in DOMAIN rows)
        /\ \A t \in DOMAIN rows : t # s => rows'[t] = rows[t]
    BY DEF DeleteRow, Without
  <1>2. ASSUME NEW r \in DOMAIN reqs' PROVE RequestListed(reqs[r])'
    <2>1. PICK q : q = reqs[r] /\ RequestListed(q)
      BY <1>1 DEF Listing
    <2>2. (HoldsBinding(q) => HoldsBinding(q)')
      BY <1>1 DEF HoldsBinding
    <2>3. (HoldsRow(q) => HoldsRow(q)') /\ (HasRow(q) => HasRow(q)')
      BY <1>1 DEF HoldsRow, HasRow
    <2> QED
      BY <1>1, <2>1, <2>2, <2>3 DEF RequestListed
  <1>3. ASSUME NEW t \in DOMAIN bindings' PROVE BindingListed(t)'
    <2>1. BindingListed(t)
      BY <1>1, <1>3 DEF Listing
    <2>2. t # s /\ Matches(t) => Matches(t)'
      BY <1>1 DEF Matches
    <2> QED
      BY <1>1, <2>1, <2>2 DEF BindingListed
  <1> QED
    BY <1>2, <1>3 DEF Listing

\* Time, the administrator and a restart keep the listing.
LEMMA EnvironmentListed ==
    ASSUME Safe, Listing, Environment
    PROVE  Listing'
  <1>1. ASSUME NEW s, PassTTL(s) \/ DeleteRow(s) PROVE Listing'
    BY <1>1, PassTTLListed, DeleteRowListed
  <1>2. CASE Restart
    BY <1>2 DEF Restart, Listing
  <1>3. ASSUME NEW t, NEW i, NEW d,
               CreateAccount(t) \/ UpdateAccount(i, t, d) \/ DeleteAccount(i)
        PROVE  Listing'
    <2>1. UNCHANGED <<bindings, rows, reqs, erased>>
      BY <1>3 DEF CreateAccount, UpdateAccount, DeleteAccount, history
    <2> QED
      BY <2>1, ListedUnchanged
  <1> QED
    BY <1>1, <1>2, <1>3 DEF Environment

\* Every step keeps the listing, as long as the requests for one session follow
\* one another.
LEMMA StepListed ==
    ASSUME Safe, Listing, OneAtATime, OneAtATime', [Next]_vars
    PROVE  Listing'
  <1>1. CASE Environment
    BY <1>1, EnvironmentListed
  <1>2. ASSUME NEW r \in Requests, Arrive(r) PROVE Listing'
    BY <1>2, ArriveListed
  <1>3. ASSUME NEW r \in Requests, Step(r) PROVE Listing'
    <2>1. CASE BoundElsewhere(r) \/ NotBound(r) \/ Bound(r) \/ ContextUnbound(r)
      BY <2>1, NotBoundListed, BoundListed, ContextUnboundListed
    <2>2. CASE Lookup(r) \/ PickBoundToken(r) \/ PickAny(r) \/ PickByID(r)
                   \/ PickForTitle(r)
      BY <2>2, LookupListed, PickListed
    <2>3. CASE Accepted(r) \/ Refused(r) \/ TitleAnswered(r) \/ UploadAnswered(r)
                   \/ ProbeAnswered(r) \/ Unauthorized(r) \/ MarkInvalid(r)
      BY <2>3, UpstreamListed, MarkInvalidListed
    <2>4. CASE Bind(r) \/ Reread(r) \/ Persist(r)
      BY <2>4, BindListed, RereadListed, PersistListed
    <2>5. CASE ContextBound(r) \/ ContextSync(r) \/ ContextGet(r) \/ ContextPut(r)
      BY <2>5, ContextBoundListed, ContextSyncListed, ContextGetListed,
         ContextPutListed
    <2>6. CASE DropBinding(r) \/ Unlist(r)
      BY <2>6, DropBindingListed, UnlistListed
    <2> QED
      BY <1>3, <2>1, <2>2, <2>3, <2>4, <2>5, <2>6 DEF Step, LocalStep, UpstreamEnds
  <1>4. CASE UNCHANGED vars
    BY <1>4, ListedUnchanged DEF vars, stores, history
  <1> QED
    BY <1>1, <1>2, <1>3, <1>4 DEF Next

\* While the requests for one session follow one another, the listing is what
\* the bindings are, between any two of them.
THEOREM GatewayListing == Spec /\ []OneAtATime => []Listing
  <1>1. Init => Listing
    <2> SUFFICES ASSUME reqs = << >>, bindings = << >> PROVE Listing
      BY DEF Init
    <2> QED
      BY DEF Listing
  <1> QED
    BY <1>1, StepListed, GatewaySafe, PTL DEF Spec

\* Then a live binding is listed as active, with the account and the
\* conversation it really has (service.go:1040-1228; store.go:76-182): an
\* upsert that keeps what it has no value for loses nothing that was written.
THEOREM GatewayBoundIsListed == Spec /\ []OneAtATime => []BoundIsListed
  <1>1. Listing => BoundIsListed
    BY DEF Listing, BindingListed, Matches, BoundIsListed, Idle
  <1> QED
    BY <1>1, GatewayListing, PTL

-----------------------------------------------------------------------------
(* Rows that say "active".                                                 *)

\* A step of a request moves it on or answers it.
LEMMA StepMoves ==
    ASSUME NEW r, Step(r)
    PROVE  r \in DOMAIN reqs /\ (Reply(r) \/ \E n : Goto(r, n))
  <1>1. CASE BoundElsewhere(r) \/ NotBound(r) \/ ContextUnbound(r)
    BY <1>1 DEF BoundElsewhere, NotBound, ContextUnbound, At
  <1>2. CASE Bound(r)
    BY <1>2 DEF Bound, AimTitle, At
  <1>3. CASE Lookup(r)
    BY <1>3 DEF Lookup, At
  <1>4. CASE PickBoundToken(r) \/ PickAny(r) \/ PickByID(r)
    BY <1>4 DEF PickBoundToken, PickAny, PickByID, Chosen, GiveUp, At
  <1>5. CASE PickForTitle(r)
    BY <1>5 DEF PickForTitle, AimTitle, At
  <1>6. CASE Accepted(r) \/ Refused(r) \/ TitleAnswered(r) \/ UploadAnswered(r)
                 \/ ProbeAnswered(r) \/ Unauthorized(r)
    BY <1>6 DEF Accepted, Refused, TitleAnswered, UploadAnswered, ProbeAnswered,
                Unauthorized, At
  <1>7. CASE MarkInvalid(r)
    BY <1>7 DEF MarkInvalid, At
  <1>8. CASE Bind(r) \/ Reread(r) \/ Persist(r)
    BY <1>8 DEF Bind, Reread, Persist, At
  <1>9. CASE ContextBound(r) \/ ContextSync(r) \/ ContextGet(r) \/ ContextPut(r)
    BY <1>9 DEF ContextBound, ContextSync, ContextGet, ContextPut, Recorded, At
  <1>10. CASE DropBinding(r) \/ Unlist(r)
    BY <1>10 DEF DropBinding, Unlist, At
  <1> QED
    BY <1>1, <1>2, <1>3, <1>4, <1>5, <1>6, <1>7, <1>8, <1>9, <1>10 DEF Step, LocalStep, UpstreamEnds

\* A late report is remembered until its session is bound again.
LateKept == \A s \in late : s \in late' \/ s \in DOMAIN bindings'

\* A row of a session that a step leaves alone says what it said.
LEMMA RowStaysBound ==
    ASSUME NEW s \in DOMAIN rows', Untouched(s), RowBound(s), LateKept,
           \A p \in DOMAIN reqs :
              reqs[p].sid = s /\ reqs[p].pc = "unlist"
                  => p \in DOMAIN reqs' /\ reqs'[p] = reqs[p]
    PROVE  RowBound(s)'
  <1> SUFFICES ASSUME rows'[s].status = "active"
               PROVE  \/ s \in DOMAIN bindings' \cup late'
                      \/ \E p \in DOMAIN reqs' :
                            /\ reqs'[p].sid = s /\ reqs'[p].pc = "unlist"
                            /\ reqs'[p].owner = rows'[s].owner
    BY DEF RowBound
  <1>1. /\ s \in DOMAIN rows /\ rows[s].status = "active"
        /\ rows'[s].owner = rows[s].owner
        /\ s \in DOMAIN bindings => s \in DOMAIN bindings'
    BY DEF Untouched
  <1>2. CASE s \in DOMAIN bindings \cup late
    BY <1>1, <1>2 DEF LateKept
  <1>3. ASSUME NEW p \in DOMAIN reqs, reqs[p].sid = s, reqs[p].pc = "unlist",
               reqs[p].owner = rows[s].owner
        PROVE  \E x \in DOMAIN reqs' :
                  /\ reqs'[x].sid = s /\ reqs'[x].pc = "unlist"
                  /\ reqs'[x].owner = rows'[s].owner
    BY <1>1, <1>3
  <1> QED
    BY <1>1, <1>2, <1>3 DEF RowBound

\* A step for one session keeps the rows of the others bound.
LEMMA BoundByOwn ==
    ASSUME Safe, RowsBound, LateKept, NEW r, NEW sid, OthersStay(r, sid),
           r \in DOMAIN reqs => reqs[r].sid = sid,
           \A s : s # sid => Untouched(s),
           sid \in DOMAIN rows' => RowBound(sid)'
    PROVE  RowsBound'
  <1> SUFFICES ASSUME NEW s \in DOMAIN rows', s # sid PROVE RowBound(s)'
    BY DEF RowsBound
  <1>1. Untouched(s) /\ RowBound(s)
    BY DEF Untouched, RowsBound
  <1>2. \A p \in DOMAIN reqs :
           reqs[p].sid = s => p \in DOMAIN reqs' /\ reqs'[p] = reqs[p]
    BY DEF OthersStay
  <1> QED
    BY <1>1, <1>2, RowStaysBound

\* So does one that leaves every session alone and released nothing.
LEMMA BoundStill ==
    ASSUME Safe, RowsBound, OneAtATime, LateKept, NEW r \in DOMAIN reqs, Step(r),
           reqs[r].pc # "unlist", \A s : Untouched(s)
    PROVE  RowsBound'
  <1> SUFFICES ASSUME NEW s \in DOMAIN rows' PROVE RowBound(s)'
    BY DEF RowsBound
  <1>1. Untouched(s) /\ RowBound(s)
    BY DEF Untouched, RowsBound
  <1>2. \A p \in DOMAIN reqs :
           p # r => p \in DOMAIN reqs' /\ reqs'[p] = reqs[p]
    BY StepMoves, MovesAlone DEF OthersStay
  <1> QED
    BY <1>1, <1>2, RowStaysBound

\* A session that is bound, or reported late, may say "active".
LEMMA BoundByBinding ==
    ASSUME Safe, RowsBound, OneAtATime, LateKept, NEW r, Step(r), NEW x,
           x = reqs[r].sid, \A s : s # x => Untouched(s),
           x \in DOMAIN bindings' \cup late'
    PROVE  RowsBound'
  <1>1. r \in DOMAIN reqs /\ OthersStay(r, x)
    BY StepMoves, MovesAlone
  <1>2. RowBound(x)'
    BY DEF RowBound
  <1> QED
    BY <1>1, <1>2, BoundByOwn

\* The steps of a request keep the rows bound.
LEMMA StepRowsBound ==
    ASSUME Safe, Listing, RowsBound, OneAtATime, LateKept, NEW r, Step(r),
           ContextPut(r) => reqs[r].sid \in late'
    PROVE  RowsBound'
  <1> PICK x : x = reqs[r].sid
    OBVIOUS
  <1>1. r \in DOMAIN reqs /\ OthersStay(r, x)
    BY StepMoves, MovesAlone
  <1>2. CASE \/ Bind(r) \/ Persist(r) \/ ContextBound(r) \/ ContextSync(r)
             \/ ContextPut(r)
    <2>1. \A s : s # x => Untouched(s)
      BY <1>2, WritesUntouched
    <2>2. CASE Bind(r) \/ ContextBound(r)
      <3>1. x \in DOMAIN bindings'
        BY <2>2 DEF Bind, ContextBound, Inserted, Refreshed, BoundTo
      <3> QED
        BY <2>1, <3>1, BoundByBinding
    <2>3. CASE Persist(r) \/ ContextSync(r)
      <3>1. reqs[r].pc \in {"persist", "sync"} /\ bindings' = bindings
        BY <2>3 DEF Persist, ContextSync, At
      <3>2. x # None
        BY <1>1, <3>1, Asker, ServiceAssumption
        DEF RequestOK, SessionOK, PcFits, WorldOK
      <3>3. x \in DOMAIN bindings'
        BY <1>1, <3>1, <3>2 DEF Listing, RequestListed, HoldsBinding, Unwritten
      <3> QED
        BY <2>1, <3>3, BoundByBinding
    <2>4. CASE ContextPut(r)
      BY <2>1, <2>4, BoundByBinding
    <2> QED
      BY <1>2, <2>2, <2>3, <2>4
  <1>3. CASE DropBinding(r)
    <2>1. \A s : s # x => Untouched(s)
      BY <1>3, WritesUntouched
    <2>2. /\ rows' = rows
          /\ x \in DOMAIN bindings' \/ x \notin DOMAIN bindings
                \/ bindings[x].owner = reqs[r].owner
      BY <1>3 DEF DropBinding
    <2>3. /\ r \in DOMAIN reqs' /\ reqs'[r].sid = x /\ reqs'[r].pc = "unlist"
          /\ reqs'[r].owner = reqs[r].owner
      <3>1. PICK n : n = [reqs[r] EXCEPT !.pc = "unlist"]
        OBVIOUS
      <3>2. Goto(r, n)
        BY <1>3, <3>1 DEF DropBinding
      <3>3. n.sid = x /\ n.pc = "unlist" /\ n.owner = reqs[r].owner
        BY <1>1, <3>1, Asker DEF Request
      <3> QED
        BY <1>1, <3>2, <3>3, MovesAlone
    <2>4. ASSUME x \in DOMAIN rows' PROVE RowBound(x)'
      <3>1. RowBound(x) /\ x \in DOMAIN rows
        BY <2>2, <2>4 DEF RowsBound
      <3>2. CASE x \in DOMAIN bindings
        <4>1. bindings[x].owner = rows[x].owner
          BY <3>1, <3>2, Parts DEF BindingsOK, BindingOK, RowsOK, RowOK
        <4> QED
          BY <2>2, <2>3, <3>2, <4>1 DEF RowBound
      <3>3. CASE x \in late
        BY <3>3 DEF LateKept, RowBound
      <3>4. ASSUME NEW p \in DOMAIN reqs, reqs[p].sid = x, reqs[p].pc = "unlist"
            PROVE  FALSE
        <4>1. reqs[r].pc = "drop"
          BY <1>3 DEF DropBinding, At
        <4>2. x = None
          BY <1>1, <3>4, <4>1 DEF OthersStay
        <4> QED
          BY <3>1, <4>2, ServiceAssumption DEF Safe, TypeOK
      <3> QED
        BY <2>2, <3>1, <3>2, <3>3, <3>4 DEF RowBound
    <2> QED
      BY <1>1, <2>1, <2>4, BoundByOwn
  <1>4. CASE Unlist(r)
    <2>1. \A s : s # x => Untouched(s)
      BY <1>4, WritesUntouched
    <2>2. /\ bindings' = bindings /\ rows' = Released(rows, reqs[r].owner, x)
          /\ Reply(r)
      BY <1>4 DEF Unlist
    <2>3. ASSUME x \in DOMAIN rows' PROVE RowBound(x)'
      <3>1. RowBound(x) /\ x \in DOMAIN rows /\ rows[x] \in CallRow
        BY <2>2, <2>3 DEF RowsBound, Released, Safe, TypeOK
      <3>2. CASE rows[x].owner = reqs[r].owner
        <4>1. rows'[x].status = "released"
          BY <2>2, <3>1, <3>2 DEF Released, ReleasedRow, CallRow
        <4> QED
          BY <4>1 DEF RowBound
      <3>3. CASE rows[x].owner # reqs[r].owner
        <4>1. rows'[x] = rows[x]
          BY <2>2, <3>1, <3>3 DEF Released
        <4>2. ASSUME NEW p \in DOMAIN reqs, reqs[p].sid = x,
                     reqs[p].owner = rows[x].owner
              PROVE  p \in DOMAIN reqs' /\ reqs'[p] = reqs[p]
          BY <1>1, <3>3, <4>2 DEF OthersStay
        <4>3. CASE x \in DOMAIN bindings \cup late
          BY <2>2, <4>3 DEF LateKept, RowBound
        <4>4. CASE rows[x].status # "active"
          BY <4>1, <4>4 DEF RowBound
        <4>5. ASSUME NEW p \in DOMAIN reqs, reqs[p].sid = x, reqs[p].pc = "unlist",
                     reqs[p].owner = rows[x].owner
              PROVE  RowBound(x)'
          BY <4>1, <4>2, <4>5 DEF RowBound
        <4> QED
          BY <3>1, <4>3, <4>4, <4>5 DEF RowBound
      <3> QED
        BY <3>2, <3>3
    <2> QED
      BY <1>1, <2>1, <2>3, BoundByOwn
  <1>5. CASE BoundElsewhere(r) \/ NotBound(r) \/ Bound(r) \/ ContextUnbound(r)
                 \/ Reread(r)
    <2>1. reqs[r].pc # "unlist"
      BY <1>5 DEF BoundElsewhere, NotBound, Bound, ContextUnbound, Reread, At
    <2> QED
      BY <1>1, <1>5, <2>1, LooksUntouched, BoundStill
  <1>6. CASE \/ Lookup(r) \/ PickBoundToken(r) \/ PickAny(r) \/ PickByID(r)
             \/ PickForTitle(r) \/ Accepted(r) \/ Refused(r) \/ TitleAnswered(r)
             \/ UploadAnswered(r) \/ ProbeAnswered(r) \/ Unauthorized(r)
             \/ MarkInvalid(r) \/ ContextGet(r)
    <2>1. reqs[r].pc # "unlist"
      BY <1>6 DEF Lookup, PickBoundToken, PickAny, PickByID, PickForTitle, Accepted,
                  Refused, TitleAnswered, UploadAnswered, ProbeAnswered, Unauthorized,
                  MarkInvalid, ContextGet, At
    <2> QED
      BY <1>1, <1>6, <2>1, StoresUntouched, BoundStill
  <1> QED
    BY <1>2, <1>3, <1>4, <1>5, <1>6 DEF Step, LocalStep, UpstreamEnds

\* Every step keeps the rows bound.
LEMMA NextRowsBound ==
    ASSUME Safe, Listing, RowsBound, OneAtATime, [ListedNext]_<<vars, late>>
    PROVE  RowsBound'
  <1>1. CASE UNCHANGED <<vars, late>>
    BY <1>1 DEF vars, stores, history, RowsBound, RowBound
  <1>2. CASE ListedNext
    <2>1. LateKept
      BY <1>2 DEF ListedNext, LateKept
    <2>2. ASSUME NEW r \in Requests, Step(r) PROVE RowsBound'
      <3>1. ContextPut(r) => reqs[r].sid \in late'
        <4> SUFFICES ASSUME ContextPut(r) PROVE reqs[r].sid \in late'
          OBVIOUS
        <4>1. ReportsLate(r)
          BY DEF ReportsLate, ContextPut, At
        <4> QED
          BY <1>2, <4>1 DEF ListedNext
      <3> QED
        BY <2>1, <2>2, <3>1, StepRowsBound
    <2>3. ASSUME bindings' = bindings, \A s \in DOMAIN rows' :
                    /\ s \in DOMAIN rows
                    /\ rows'[s].owner = rows[s].owner
                    /\ rows'[s].status = rows[s].status,
                 \A p \in DOMAIN reqs : p \in DOMAIN reqs' /\ reqs'[p] = reqs[p]
          PROVE  RowsBound'
      <3> SUFFICES ASSUME NEW s \in DOMAIN rows' PROVE RowBound(s)'
        BY DEF RowsBound
      <3>1. RowBound(s)
        BY <2>3 DEF RowsBound
      <3>2. CASE s \in DOMAIN bindings \cup late
        BY <2>1, <2>3, <3>2 DEF LateKept, RowBound
      <3>3. CASE rows[s].status # "active"
        BY <2>3, <3>3 DEF RowBound
      <3>4. ASSUME NEW p \in DOMAIN reqs, reqs[p].sid = s, reqs[p].pc = "unlist",
                   reqs[p].owner = rows[s].owner
            PROVE  RowBound(s)'
        BY <2>3, <3>4 DEF RowBound
      <3> QED
        BY <3>1, <3>2, <3>3, <3>4 DEF RowBound
    <2>4. ASSUME NEW r \in Requests, Arrive(r) PROVE RowsBound'
      <3>1. PICK n : /\ r \notin DOMAIN reqs /\ reqs' = Inserted(reqs, r, n)
                     /\ UNCHANGED stores
        <4>1. ASSUME NEW o, NEW s, NEW a, NEW c, DialNew(r, o, s, a, c)
              PROVE  \E n : /\ r \notin DOMAIN reqs /\ reqs' = Inserted(reqs, r, n)
                            /\ UNCHANGED stores
          BY <4>1 DEF DialNew, Begin
        <4>2. ASSUME NEW o, NEW s, NEW a, NEW c,
                     \/ DialAgain(r, o, s, a, c) \/ Context(r, o, s, c)
                     \/ Title(r, o, s, c) \/ Release(r, o, s)
                     \/ Upload(r, o, s) \/ Probe(r, a)
              PROVE  \E n : /\ r \notin DOMAIN reqs /\ reqs' = Inserted(reqs, r, n)
                            /\ UNCHANGED stores
          BY <4>2 DEF DialAgain, Context, Title, Release, Upload, Probe, Begin
        <4> QED
          BY <2>4, <4>1, <4>2 DEF Arrive
      <3>2. bindings' = bindings /\ rows' = rows
        BY <3>1 DEF stores
      <3>3. \A p \in DOMAIN reqs : p \in DOMAIN reqs' /\ reqs'[p] = reqs[p]
        BY <3>1 DEF Inserted
      <3> QED
        BY <2>3, <3>2, <3>3
    <2>5. CASE Restart
      <3>1. rows \in [DOMAIN rows -> CallRow]
        BY DEF Safe, TypeOK
      <3>2. \A s \in DOMAIN rows' : rows'[s].status = "released"
        BY <2>5, <3>1 DEF Restart, AllReleased, ReleasedRow, CallRow
      <3> QED
        BY <3>2 DEF RowsBound, RowBound
    <2>6. ASSUME NEW s, PassTTL(s) PROVE RowsBound'
      <3>1. DOMAIN bindings' = DOMAIN bindings /\ rows' = rows /\ reqs' = reqs
        BY <2>6 DEF PassTTL
      <3> QED
        BY <2>1, <3>1 DEF LateKept, RowsBound, RowBound
    <2>7. ASSUME NEW s, NEW t, NEW i, NEW d,
                 \/ DeleteRow(s) \/ CreateAccount(t) \/ UpdateAccount(i, t, d)
                 \/ DeleteAccount(i)
          PROVE  RowsBound'
      <3>1. bindings' = bindings /\ reqs' = reqs
        BY <2>7 DEF DeleteRow, CreateAccount, UpdateAccount, DeleteAccount
      <3>2. \A x \in DOMAIN rows' : x \in DOMAIN rows /\ rows'[x] = rows[x]
        BY <2>7 DEF DeleteRow, CreateAccount, UpdateAccount, DeleteAccount, Without
      <3> QED
        BY <2>3, <3>1, <3>2
    <2> QED
      BY <1>2, <2>2, <2>4, <2>5, <2>6, <2>7 DEF ListedNext, Next, Environment
  <1> QED
    BY <1>1, <1>2

\* While the requests for one session follow one another, a row that says
\* "active" has a binding, between any two of them, but for late reports:
\* neither the cleanup (service.go:182-183) nor a release nor a restart
\* (store.go:211-212) leaves one behind.
THEOREM GatewayListedIsBound == ListedSpec /\ []OneAtATime => []ListedIsBound
  <1>1. ListedInit => RowsBound
    <2> SUFFICES ASSUME rows = << >> PROVE RowsBound
      BY DEF ListedInit, Init
    <2> QED
      BY DEF RowsBound
  <1>2. RowsBound => ListedIsBound
    BY DEF RowsBound, RowBound, ListedIsBound, Idle
  <1>3. ListedInit => Init
    BY DEF ListedInit
  <1>4. [ListedNext]_<<vars, late>> => [Next]_vars
    BY DEF ListedNext
  <1>5. ListedSpec => Spec
    BY <1>3, <1>4, PTL DEF ListedSpec, Spec
  <1>6. ListedSpec /\ []OneAtATime => []Safe /\ []Listing
    BY <1>5, GatewaySafe, GatewayListing, PTL
  <1> QED
    BY <1>1, <1>2, <1>6, NextRowsBound, PTL DEF ListedSpec
=============================================================================
