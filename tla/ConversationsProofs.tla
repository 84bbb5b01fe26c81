------------------------ MODULE ConversationsProofs ------------------------
(***************************************************************************)
(* Proofs about Conversations, for every number of conversations, requests *)
(* and crashes, every set of columns, and statements that may fail; and    *)
(* about VoicePage, for every number of PATCHes, captions and reloads.     *)
(***************************************************************************)
EXTENDS Conversations, VoicePage, TLAPS

\* Ids are drawn before anything refers to them, and once.
Known ==
    /\ DOMAIN convs \subseteq drawn
    /\ answered \subseteq drawn

IInv ==
    /\ TypeOK
    /\ Known
    /\ NamedOnceAnswered
    /\ NoUpdateLost
    /\ DeletedStaysGone

\* What the operators on rows do to the parts the invariant speaks of.
LEMMA CreatedRow ==
    ASSUME NEW title \in Titles \cup {NoTitle}
    PROVE  /\ Created(title) \in Row
           /\ ~Created(title).locked
BY DEF Created, Row

LEMMA TitledRow ==
    ASSUME NEW old \in Row, NEW title \in Titles, NEW lock \in Locks
    PROVE  /\ Titled(old, title, lock) \in Row
           /\ Titled(old, title, lock).title = title
           /\ Titled(old, title, lock).context = old.context
BY DEF Titled, Row, Locks

LEMMA ContextedRow ==
    ASSUME NEW old \in Row, NEW seen, NEW update \in Updates \cup {NoUpdate}
    PROVE  /\ Contexted(old, seen, update) \in Row
           /\ Contexted(old, seen, update).title = old.title
           /\ Contexted(old, seen, update).locked = old.locked
           /\ Contexted(old, seen, update).context
                = [f \in Fields |-> IF f \in DOMAIN update THEN update[f]
                                    ELSE old.context[f]]
BY RequestsAssumption DEF Contexted, Row, NoUpdate

LEMMA SpokenRow ==
    ASSUME NEW old \in Row, NEW content \in Contents, NEW new \in BOOLEAN,
           old.locked => old.title # NoTitle
    PROVE  /\ Spoken(old, content, new) \in Row
           /\ Spoken(old, content, new).title # NoTitle
           /\ Spoken(old, content, new).context = old.context
<1>1. Heading[content] \in Titles /\ Heading[content] # NoTitle
  BY ConversationAssumption
<1>2. CASE old.title = NoTitle /\ ~old.locked
  BY <1>1, <1>2 DEF Spoken, Row
<1>3. CASE ~(old.title = NoTitle /\ ~old.locked)
  BY <1>3 DEF Spoken, Row
<1> QED
  BY <1>2, <1>3

LEMMA InitInv == Init => IInv
BY DEF Init, IInv, TypeOK, Known, NamedOnceAnswered, NoUpdateLost, DeletedStaysGone

LEMMA CreateKeeps ==
    ASSUME IInv, NEW id \in Ids, NEW title \in Titles \cup {NoTitle}, Create(id, title)
    PROVE  IInv'
<1>1. /\ id \notin drawn /\ drawn' = drawn \cup {id}
      /\ convs' = Stored(convs, id, Created(title))
      /\ named' = Stored(named, id, Created(title).context)
      /\ UNCHANGED <<texts, reqs, answered, crashes>>
  BY DEF Create
<1> DEFINE n == Created(title)
<1>2. /\ n \in Row /\ ~n.locked
      /\ n.context \in [Fields -> Upstream \cup {NoUpstream}]
  BY CreatedRow DEF Row
<1> HIDE DEF n
<1>3. TypeOK'
  BY <1>1, <1>2 DEF IInv, TypeOK, Stored, n
<1>4. Known'
  BY <1>1 DEF IInv, Known, Stored
<1>5. NamedOnceAnswered'
  BY <1>1, <1>2 DEF IInv, Known, NamedOnceAnswered, Stored, n
<1>6. NoUpdateLost'
  BY <1>1, <1>2 DEF IInv, TypeOK, Known, NoUpdateLost, Stored, n
<1>7. DeletedStaysGone'
  BY <1>1 DEF IInv, DeletedStaysGone, Stored
<1> QED
  BY <1>3, <1>4, <1>5, <1>6, <1>7 DEF IInv

LEMMA DeleteKeeps ==
    ASSUME IInv, NEW id \in Ids, Delete(id)
    PROVE  IInv'
<1>1. TypeOK'
  BY DEF IInv, TypeOK, Without, Delete
<1>2. Known'
  BY DEF IInv, Known, Without, Delete
<1>3. NamedOnceAnswered'
  BY DEF IInv, NamedOnceAnswered, Without, Delete
<1>4. NoUpdateLost'
  BY DEF IInv, NoUpdateLost, Without, Delete
<1>5. DeletedStaysGone'
  BY DEF IInv, DeletedStaysGone, Without, Delete
<1> QED
  BY <1>1, <1>2, <1>3, <1>4, <1>5 DEF IInv

LEMMA UpsertMessageKeeps ==
    ASSUME IInv, NEW id \in Ids, NEW m \in Messages, NEW c \in Contents, UpsertMessage(id, m, c)
    PROVE  IInv'
<1> DEFINE new == <<id, m>> \notin DOMAIN texts
           n == Spoken(convs[id], c, new)
<1>1. /\ id \in DOMAIN convs /\ convs' = [convs EXCEPT ![id] = n]
      /\ texts' = Stored(texts, <<id, m>>, c)
      /\ answered' = answered \cup {id}
      /\ UNCHANGED <<reqs, drawn, named, crashes>>
  BY DEF UpsertMessage, Upserts
<1>2. n \in Row /\ n.title # NoTitle /\ n.context = convs[id].context
  <2>1. convs[id] \in Row /\ (convs[id].locked => convs[id].title # NoTitle)
    BY <1>1 DEF IInv, TypeOK, NamedOnceAnswered
  <2>2. new \in BOOLEAN
    OBVIOUS
  <2> HIDE DEF new
  <2> QED
    BY <2>1, <2>2, SpokenRow
<1> HIDE DEF n
<1>3. TypeOK'
  BY <1>1, <1>2 DEF IInv, TypeOK, Stored
<1>4. Known'
  BY <1>1, <1>2 DEF IInv, Known
<1>5. NamedOnceAnswered'
  BY <1>1, <1>2 DEF IInv, TypeOK, NamedOnceAnswered
<1>6. NoUpdateLost'
  BY <1>1, <1>2 DEF IInv, TypeOK, NoUpdateLost
<1>7. DeletedStaysGone'
  BY <1>1 DEF IInv, DeletedStaysGone, Stored
<1> QED
  BY <1>3, <1>4, <1>5, <1>6, <1>7 DEF IInv

LEMMA UpsertMessageFailsKeeps ==
    ASSUME IInv, NEW id \in Ids, NEW m \in Messages, NEW c \in Contents, UpsertMessageFails(id, m, c)
    PROVE  IInv'
<1>1. TypeOK'
  BY DEF IInv, TypeOK, Stored, Upserts, UpsertMessageFails
<1>2. Known'
  BY DEF IInv, Known, Upserts, UpsertMessageFails
<1>3. NamedOnceAnswered'
  BY DEF IInv, NamedOnceAnswered, UpsertMessageFails
<1>4. NoUpdateLost'
  BY DEF IInv, NoUpdateLost, Upserts, UpsertMessageFails
<1>5. DeletedStaysGone'
  BY DEF IInv, DeletedStaysGone, Stored, Upserts, UpsertMessageFails
<1> QED
  BY <1>1, <1>2, <1>3, <1>4, <1>5 DEF IInv

LEMMA ArrivesKeeps ==
    ASSUME IInv, NEW r \in Requests, NEW id \in Ids, NEW title \in Titles \cup {NoTitle},
           NEW lock \in Locks, NEW update \in Updates \cup {NoUpdate}, Arrives(r, id, title, lock, update)
    PROVE  IInv'
<1>1. TypeOK'
  BY CreatedRow DEF IInv, TypeOK, Patch, Stored, Arrives
<1>2. Known'
  BY DEF IInv, Known, Arrives
<1>3. NamedOnceAnswered'
  BY DEF IInv, NamedOnceAnswered, Arrives
<1>4. NoUpdateLost'
  BY DEF IInv, NoUpdateLost, Arrives
<1>5. DeletedStaysGone'
  BY DEF IInv, DeletedStaysGone, Arrives
<1> QED
  BY <1>1, <1>2, <1>3, <1>4, <1>5 DEF IInv

LEMMA GetsKeeps ==
    ASSUME IInv, NEW r \in Requests, Gets(r)
    PROVE  IInv'
<1>1. TypeOK'
  BY DEF IInv, TypeOK, Patch, Gets
<1>2. Known'
  BY DEF IInv, Known, Gets
<1>3. NamedOnceAnswered'
  BY DEF IInv, NamedOnceAnswered, Gets
<1>4. NoUpdateLost'
  BY DEF IInv, NoUpdateLost, Gets
<1>5. DeletedStaysGone'
  BY DEF IInv, DeletedStaysGone, Gets
<1> QED
  BY <1>1, <1>2, <1>3, <1>4, <1>5 DEF IInv

LEMMA UpdateTitleKeeps ==
    ASSUME IInv, NEW r \in Requests, UpdateTitle(r)
    PROVE  IInv'
<1> DEFINE q == reqs[r]
           n == Titled(convs[q.id], NewTitle(q), q.lock)
<1>1. /\ r \in DOMAIN reqs /\ q.id \in DOMAIN convs
      /\ NewTitle(q) # NoTitle
      /\ convs' = [convs EXCEPT ![q.id] = n]
      /\ AfterTitle(r)
      /\ UNCHANGED <<texts, drawn, answered, named, crashes>>
  BY DEF UpdateTitle, At
<1>2. q \in Patch
  BY <1>1 DEF IInv, TypeOK
<1>3. NewTitle(q) \in Titles /\ q.lock \in Locks
  BY <1>1, <1>2 DEF NewTitle, Patch, Row
<1>4. n \in Row /\ n.title # NoTitle /\ n.context = convs[q.id].context
  <2>1. convs[q.id] \in Row
    BY <1>1 DEF IInv, TypeOK
  <2> HIDE DEF q
  <2> QED
    BY <2>1, <1>1, <1>3, TitledRow, ConversationAssumption
<1>5. /\ DOMAIN reqs' \subseteq Requests
      /\ \A p \in DOMAIN reqs' : reqs'[p] \in Patch
  BY <1>1 DEF IInv, TypeOK, AfterTitle, Reply, Without, Patch
<1> HIDE DEF n
<1>6. TypeOK'
  BY <1>1, <1>2, <1>4, <1>5 DEF IInv, TypeOK
<1>7. Known'
  BY <1>1 DEF IInv, Known
<1>8. NamedOnceAnswered'
  BY <1>1, <1>4 DEF IInv, TypeOK, NamedOnceAnswered
<1>9. NoUpdateLost'
  BY <1>1, <1>4 DEF IInv, TypeOK, NoUpdateLost
<1>10. DeletedStaysGone'
  BY <1>1 DEF IInv, DeletedStaysGone
<1> QED
  BY <1>6, <1>7, <1>8, <1>9, <1>10 DEF IInv

LEMMA UpdateUpstreamContextKeeps ==
    ASSUME IInv, NEW r \in Requests, UpdateUpstreamContext(r)
    PROVE  IInv'
<1> DEFINE q == reqs[r]
           n == Contexted(convs[q.id], q.seen, q.update)
           w == [f \in Fields |-> IF f \in DOMAIN q.update THEN q.update[f]
                                  ELSE named[q.id][f]]
<1>1. /\ r \in DOMAIN reqs /\ q.id \in DOMAIN convs
      /\ convs' = [convs EXCEPT ![q.id] = n]
      /\ named' = [named EXCEPT ![q.id] = w]
      /\ reqs' = Without(reqs, r)
      /\ UNCHANGED <<texts, drawn, answered, crashes>>
  BY DEF UpdateUpstreamContext, At, Reply
<1>2. /\ q.update \in Updates \cup {NoUpdate}
      /\ convs[q.id] \in Row /\ convs[q.id].context = named[q.id]
      /\ q.id \in DOMAIN named
  BY <1>1 DEF IInv, TypeOK, Known, NoUpdateLost, Patch
<1>3. /\ n \in Row /\ n.context = w
      /\ n.title = convs[q.id].title /\ n.locked = convs[q.id].locked
  <2> HIDE DEF q
  <2> QED
    BY <1>2, ContextedRow
<1>4. w \in [Fields -> Upstream \cup {NoUpstream}]
  BY <1>3 DEF Row
<1> HIDE DEF n, w
<1>5. TypeOK'
  BY <1>1, <1>2, <1>3, <1>4 DEF IInv, TypeOK, Without
<1>6. Known'
  BY <1>1 DEF IInv, Known
<1>7. NamedOnceAnswered'
  BY <1>1, <1>3 DEF IInv, TypeOK, NamedOnceAnswered
<1>8. NoUpdateLost'
  BY <1>1, <1>2, <1>3 DEF IInv, TypeOK, Known, NoUpdateLost
<1>9. DeletedStaysGone'
  BY <1>1 DEF IInv, DeletedStaysGone
<1> QED
  BY <1>5, <1>6, <1>7, <1>8, <1>9 DEF IInv

LEMMA RefusedKeeps ==
    ASSUME IInv, NEW r \in Requests, Refused(r)
    PROVE  IInv'
<1>1. TypeOK'
  BY DEF IInv, TypeOK, Reply, Without, Refused
<1>2. Known'
  BY DEF IInv, Known, Refused
<1>3. NamedOnceAnswered'
  BY DEF IInv, NamedOnceAnswered, Refused
<1>4. NoUpdateLost'
  BY DEF IInv, NoUpdateLost, Refused
<1>5. DeletedStaysGone'
  BY DEF IInv, DeletedStaysGone, Refused
<1> QED
  BY <1>1, <1>2, <1>3, <1>4, <1>5 DEF IInv

LEMMA CrashKeeps ==
    ASSUME IInv, Crash
    PROVE  IInv'
<1>1. /\ reqs' = << >> /\ crashes' = crashes + 1
      /\ UNCHANGED <<convs, drawn, answered, named>>
      /\ \/ texts' = texts
         \/ \E id \in DOMAIN convs, m \in Messages, c \in Contents :
              texts' = Stored(texts, <<id, m>>, c)
  BY DEF Crash
<1>2. /\ DOMAIN texts' \subseteq Ids \X Messages
      /\ \A k \in DOMAIN texts' : texts'[k] \in Contents
      /\ \A k \in DOMAIN texts' : k[1] \in DOMAIN convs
  <2>1. CASE texts' = texts
    BY <2>1 DEF IInv, TypeOK, DeletedStaysGone
  <2>2. ASSUME NEW id \in DOMAIN convs, NEW m \in Messages, NEW c \in Contents,
               texts' = Stored(texts, <<id, m>>, c)
        PROVE  /\ DOMAIN texts' \subseteq Ids \X Messages
               /\ \A k \in DOMAIN texts' : texts'[k] \in Contents
               /\ \A k \in DOMAIN texts' : k[1] \in DOMAIN convs
    BY <2>2 DEF IInv, TypeOK, DeletedStaysGone, Stored
  <2> QED
    BY <1>1, <2>1, <2>2
<1>3. TypeOK'
  BY <1>1, <1>2 DEF IInv, TypeOK
<1>4. DeletedStaysGone'
  BY <1>1, <1>2 DEF DeletedStaysGone
<1> QED
  BY <1>1, <1>3, <1>4 DEF IInv, Known, NamedOnceAnswered, NoUpdateLost

LEMMA NextKeeps == IInv /\ [Next]_vars => IInv'
<1> SUFFICES ASSUME IInv, [Next]_vars PROVE IInv'
  OBVIOUS
<1>1. CASE UNCHANGED vars
  BY <1>1 DEF vars, IInv, TypeOK, Known, NamedOnceAnswered, NoUpdateLost,
              DeletedStaysGone
<1>2. CASE Next
  <2>1. ASSUME NEW id \in Ids, NEW title \in Titles \cup {NoTitle}, Create(id, title) PROVE IInv'
    BY <2>1, CreateKeeps
  <2>2. ASSUME NEW id \in Ids, Delete(id) PROVE IInv'
    BY <2>2, DeleteKeeps
  <2>3. ASSUME NEW id \in Ids, NEW m \in Messages, NEW c \in Contents, UpsertMessage(id, m, c) PROVE IInv'
    BY <2>3, UpsertMessageKeeps
  <2>4. ASSUME NEW id \in Ids, NEW m \in Messages, NEW c \in Contents, UpsertMessageFails(id, m, c) PROVE IInv'
    BY <2>4, UpsertMessageFailsKeeps
  <2>5. ASSUME NEW r \in Requests, NEW id \in Ids, NEW title \in Titles \cup {NoTitle}, NEW lock \in Locks, NEW update \in Updates \cup {NoUpdate}, Arrives(r, id, title, lock, update) PROVE IInv'
    BY <2>5, ArrivesKeeps
  <2>6. ASSUME NEW r \in Requests, Gets(r) PROVE IInv'
    BY <2>6, GetsKeeps
  <2>7. ASSUME NEW r \in Requests, UpdateTitle(r) PROVE IInv'
    BY <2>7, UpdateTitleKeeps
  <2>8. ASSUME NEW r \in Requests, UpdateUpstreamContext(r) PROVE IInv'
    BY <2>8, UpdateUpstreamContextKeeps
  <2>9. ASSUME NEW r \in Requests, Refused(r) PROVE IInv'
    BY <2>9, RefusedKeeps
  <2>10. ASSUME Crash PROVE IInv'
    BY <2>10, CrashKeeps
  <2> QED
    BY <1>2, <2>1, <2>2, <2>3, <2>4, <2>5, <2>6, <2>7, <2>8, <2>9, <2>10 DEF Next
<1> QED
  BY <1>1, <1>2

LEMMA Invariance == Spec => []IInv
BY InitInv, NextKeeps, PTL DEF Spec

\* The variables keep their types (all of conversations.go and store.go).
THEOREM TypesKept == Spec => []TypeOK
<1>1. IInv => TypeOK
  BY DEF IInv
<1> QED
  BY <1>1, Invariance, PTL

\* A locked conversation and one with a confirmed message have a title.
THEOREM ConversationsAreNamed == Spec => []NamedOnceAnswered
<1>1. IInv => NamedOnceAnswered
  BY DEF IInv
<1> QED
  BY <1>1, Invariance, PTL

\* Concurrent updates of different upstream columns are all kept.
THEOREM UpdatesAreKept == Spec => []NoUpdateLost
<1>1. IInv => NoUpdateLost
  BY DEF IInv
<1> QED
  BY <1>1, Invariance, PTL

\* No request brings back anything of a deleted conversation.
THEOREM DeletionIsFinal == Spec => []DeletedStaysGone
<1>1. IInv => DeletedStaysGone
  BY DEF IInv
<1> QED
  BY <1>1, Invariance, PTL

-----------------------------------------------------------------------------
(* The page: renames.                                                      *)

\* The rename dialog waits for its PATCH, and there is one at a time.
Dialog ==
    /\ \A n \in DOMAIN patches : patches[n].from = "user" => renaming
    /\ \A n, k \in DOMAIN patches :
        patches[n].from = "user" /\ patches[k].from = "user" => n = k
    /\ renamed # NoTitle => ~renaming

\* While an undisturbed rename is under way its PATCH is the only one.
Undisturbed ==
    quiet /\ renaming =>
        /\ call # "asking"
        /\ \A n \in DOMAIN patches :
            /\ patches[n].from = "user" /\ patches[n].lock = "lock"
            /\ patches[n].step = "done"
                => row.locked /\ row.title = patches[n].title

\* When it is confirmed the page knows of the lock, and nothing that names the
\* conversation is under way.
Confirmed ==
    quiet /\ renamed # NoTitle =>
        /\ row.locked /\ row.title = renamed
        /\ titleLocked /\ session.titleLocked
        /\ call # "asking"
        /\ DOMAIN patches = {}

Naming == PageTypeOK /\ Dialog /\ Undisturbed /\ Confirmed

-----------------------------------------------------------------------------
(* The page: captions.                                                     *)

\* The last version of a caption in the chain is the page's; of the captions
\* that are not in the chain the server has the page's version.
Captions ==
    /\ said = [m \in DOMAIN said |-> said[m]]
    /\ captions = [m \in DOMAIN captions |-> captions[m]]
    /\ ~lossy =>
        /\ DOMAIN said \subseteq DOMAIN captions
        /\ \A i \in 1 .. Len(chain) :
            /\ chain[i].message \in DOMAIN captions
            /\ \/ chain[i].content = captions[chain[i].message]
               \/ \E j \in i + 1 .. Len(chain) : chain[j].message = chain[i].message
        /\ \A m \in DOMAIN captions :
            \/ m \in DOMAIN said /\ said[m] = captions[m]
            \/ \E i \in 1 .. Len(chain) : chain[i].message = m

-----------------------------------------------------------------------------
(* The page: types.                                                        *)

\* What the server does to a row when a caption comes.
LEMMA SpokenKeeps ==
    ASSUME NEW old \in Row, NEW content \in Contents, NEW new
    PROVE  /\ Spoken(old, content, new) \in Row
           /\ Spoken(old, content, new).locked = old.locked
           /\ old.locked => Spoken(old, content, new).title = old.title
<1>1. Heading[content] \in Titles
  BY ConversationAssumption
<1> QED
  BY <1>1 DEF Spoken, Row

LEMMA TitledLocks ==
    ASSUME NEW old \in Row, NEW title \in Titles
    PROVE  Titled(old, title, "lock").locked
BY DEF Titled, Row

\* The variables that only some actions of the page change.
LEMMA SendsTypes ==
    ASSUME PageTypeOK, NEW from \in Senders, NEW title \in Titles, NEW lock \in Locks,
           Sends(from, title, lock)
    PROVE  /\ sent' \in Nat
           /\ DOMAIN patches' \subseteq {n \in Nat : n < sent'}
           /\ \A n \in DOMAIN patches' : patches'[n] \in PatchRequest
BY DEF PageTypeOK, Sends, Stored, PatchRequest

LEMMA HearsTypes ==
    ASSUME PageTypeOK, NEW message \in Messages, NEW content \in Contents,
           Hears(message, content)
    PROVE  /\ last' \in Messages /\ heard' \in Nat
           /\ DOMAIN captions' \subseteq Messages
           /\ \A m \in DOMAIN captions' : captions'[m] \in Contents
           /\ chain' \in Seq([message : Messages, content : Contents])
BY DEF PageTypeOK, Hears, Stored

\* The first caption of the chain reaches the server.
LEMMA PostTypes ==
    ASSUME PageTypeOK, chain # << >>
    PROVE  /\ Head(chain) \in [message : Messages, content : Contents]
           /\ Tail(chain) \in Seq([message : Messages, content : Contents])
<1> DEFINE Posts == [message : Messages, content : Contents]
<1>1. chain \in Seq(Posts)
  BY DEF PageTypeOK
<1> HIDE DEF Posts
<1>2. Head(chain) \in Posts /\ Tail(chain) \in Seq(Posts)
  BY <1>1
<1> QED
  BY <1>2 DEF Posts

LEMMA StoredTypes ==
    ASSUME PageTypeOK, NEW post \in [message : Messages, content : Contents],
           said' = Stored(said, post.message, post.content)
    PROVE  /\ DOMAIN said' \subseteq Messages
           /\ \A m \in DOMAIN said' : said'[m] \in Contents
BY DEF PageTypeOK, Stored

LEMMA HearsUserTypes ==
    ASSUME PageTypeOK, NEW content \in Contents, HearsUser(content)
    PROVE  PageTypeOK'
<1>1. Hears(mine, content)
  BY DEF HearsUser
<1>2. /\ last' \in Messages /\ heard' \in Nat
      /\ DOMAIN captions' \subseteq Messages
      /\ \A m \in DOMAIN captions' : captions'[m] \in Contents
      /\ chain' \in Seq([message : Messages, content : Contents])
  BY <1>1, HearsTypes, PageAssumption
<1>3. /\ UNCHANGED <<server, session, applied, call, renaming, renamed, reloads>>
      /\ UNCHANGED lossy
      /\ titleLocked' \in BOOLEAN
  BY <1>1 DEF HearsUser, Hears, PageTypeOK
<1>4. /\ quiet' \in BOOLEAN
      /\ sent' \in Nat
      /\ DOMAIN patches' \subseteq {n \in Nat : n < sent'}
      /\ \A n \in DOMAIN patches' : patches'[n] \in PatchRequest
  <2>1. CASE NamesIt(FirstWords[content])
    <3>1. Sends("speech", FirstWords[content], "unlock") /\ quiet' = (quiet /\ ~renaming)
      BY <2>1 DEF HearsUser
    <3>2. FirstWords[content] \in Titles /\ "speech" \in Senders /\ "unlock" \in Locks
      BY PageAssumption DEF Senders, Locks
    <3>3. quiet' \in BOOLEAN
      BY <3>1 DEF PageTypeOK
    <3> QED
      BY <3>1, <3>2, <3>3, SendsTypes
  <2>2. CASE ~NamesIt(FirstWords[content])
    BY <2>2 DEF HearsUser, PageTypeOK
  <2> QED
    BY <2>1, <2>2
<1> QED
  BY <1>2, <1>3, <1>4 DEF PageTypeOK, server

LEMMA PostTypesKept ==
    ASSUME PageTypeOK, PostIsStored \/ PostFails
    PROVE  PageTypeOK'
<1>1. /\ chain # << >>
      /\ chain' = Tail(chain)
      /\ lossy' \in BOOLEAN
      /\ UNCHANGED <<titles, captions, last, heard, rename, call, patches, sent, reloads>>
      /\ \/ /\ said' = Stored(said, Head(chain).message, Head(chain).content)
            /\ row' = Spoken(row, Head(chain).content, Head(chain).message \notin DOMAIN said)
         \/ UNCHANGED server
  BY DEF PostIsStored, PostFails, PageTypeOK
<1>2. PICK post : post = Head(chain)
  OBVIOUS
<1>3. post \in [message : Messages, content : Contents]
  BY <1>1, <1>2, PostTypes
<1>4. chain' \in Seq([message : Messages, content : Contents])
  BY <1>1, PostTypes
<1>5. /\ row' \in Row
      /\ DOMAIN said' \subseteq Messages
      /\ \A m \in DOMAIN said' : said'[m] \in Contents
  <2>1. CASE UNCHANGED server
    BY <2>1 DEF PageTypeOK, server
  <2>2. CASE /\ said' = Stored(said, post.message, post.content)
             /\ row' = Spoken(row, post.content, post.message \notin DOMAIN said)
    <3>1. row' \in Row
      BY <2>2, <1>3, SpokenKeeps DEF PageTypeOK
    <3> QED
      BY <2>2, <1>3, <3>1, StoredTypes
  <2> QED
    BY <1>1, <1>2, <2>1, <2>2
<1> QED
  BY <1>1, <1>4, <1>5 DEF PageTypeOK, titles, rename

\* A PATCH that arrived, was answered, failed or was lost leaves the others.
LEMMA PatchTypes ==
    ASSUME PageTypeOK, NEW n \in DOMAIN patches,
           Applies(n) \/ Lost(n) \/ Answered(n) \/ Fails(n)
    PROVE  PageTypeOK'
<1>1. patches[n] \in PatchRequest
  BY DEF PageTypeOK
<1>2. CASE Applies(n)
  <2>1. row' \in Row
    BY <1>1, <1>2, TitledRow DEF Applies, PageTypeOK, PatchRequest
  <2>2. /\ DOMAIN patches' = DOMAIN patches
        /\ \A k \in DOMAIN patches' : patches'[k] \in PatchRequest
    BY <1>2 DEF Applies, PageTypeOK, PatchRequest
  <2> QED
    BY <1>2, <2>1, <2>2 DEF Applies, PageTypeOK, titles, speech, rename
<1>3. CASE Lost(n)
  BY <1>3 DEF Lost, Without, PageTypeOK, server, titles, speech, rename
<1>4. CASE Answered(n)
  <2>1. /\ session' \in [title : Titles \cup {NoTitle}, titleLocked : BOOLEAN]
        /\ titleLocked' \in BOOLEAN /\ applied' \in BOOLEAN /\ renaming' \in BOOLEAN
        /\ renamed' \in Titles \cup {NoTitle}
        /\ call' \in CallStates
    BY <1>1, <1>4 DEF Answered, Resumes, PageTypeOK, PatchRequest, CallStates
  <2>2. /\ DOMAIN patches' \subseteq DOMAIN patches
        /\ \A k \in DOMAIN patches' : patches'[k] \in PatchRequest
    BY <1>4 DEF Answered, Without, PageTypeOK
  <2> QED
    BY <1>4, <2>1, <2>2 DEF Answered, PageTypeOK, server, speech
<1>5. CASE Fails(n)
  <2>1. /\ renaming' \in BOOLEAN /\ call' \in CallStates
    BY <1>5 DEF Fails, Resumes, PageTypeOK, CallStates
  <2>2. /\ DOMAIN patches' = DOMAIN patches
        /\ \A k \in DOMAIN patches' : patches'[k] \in PatchRequest
    BY <1>5 DEF Fails, PageTypeOK, PatchRequest, Senders
  <2> QED
    BY <1>5, <2>1, <2>2 DEF Fails, PageTypeOK, server, titles, speech
<1> QED
  BY <1>2, <1>3, <1>4, <1>5

LEMMA PageTypeStep == PageTypeOK /\ [PageNext]_pageVars => PageTypeOK'
<1> SUFFICES ASSUME PageTypeOK, [PageNext]_pageVars PROVE PageTypeOK'
  OBVIOUS
<1> USE DEF PageTypeOK, server, titles, speech, rename
<1>1. CASE UNCHANGED pageVars
  BY <1>1 DEF pageVars
<1>2. CASE Dials \/ NewThread \/ HangsUp \/ Asks \/ DoesNotAsk \/ NoTitleComes \/ Released
  BY <1>2 DEF Dials, NewThread, HangsUp, Asks, DoesNotAsk, NoTitleComes, Released, CallStates
<1>3. ASSUME NEW c \in Contents, HearsUser(c) PROVE PageTypeOK'
  BY <1>3, HearsUserTypes
<1>4. ASSUME NEW c \in Contents, HearsAssistant(c) PROVE PageTypeOK'
  <2>1. /\ Hears(theirs, c)
        /\ UNCHANGED <<server, titles, rename, call, patches, sent, reloads>>
        /\ UNCHANGED lossy
    BY <1>4 DEF HearsAssistant, Hears
  <2> QED
    BY <2>1, HearsTypes, PageAssumption
<1>5. CASE PostIsStored \/ PostFails
  BY <1>5, PostTypesKept
<1>6. ASSUME NEW t \in OfficialTitles, TitleComes(t) PROVE PageTypeOK'
  <2>1. t \in Titles /\ "hangup" \in Senders /\ "unlock" \in Locks
    BY PageAssumption DEF Senders, Locks
  <2>2. Sends("hangup", t, "unlock")
    BY <1>6 DEF TitleComes
  <2>3. call' \in CallStates
    BY <1>6 DEF TitleComes, CallStates
  <2> QED
    BY <1>6, <2>1, <2>2, <2>3, SendsTypes DEF TitleComes
<1>7. ASSUME NEW t \in RenameTitles, Renames(t) PROVE PageTypeOK'
  <2>1. t \in Titles /\ "user" \in Senders /\ "lock" \in Locks
    BY PageAssumption DEF Senders, Locks
  <2>2. Sends("user", t, "lock")
    BY <1>7 DEF Renames
  <2> QED
    BY <1>7, <2>1, <2>2, SendsTypes DEF Renames
<1>8. ASSUME NEW n \in DOMAIN patches, Applies(n) \/ Lost(n) \/ Answered(n) \/ Fails(n)
      PROVE  PageTypeOK'
  BY <1>8, PatchTypes
<1>9. CASE Reload
  <2>1. /\ DOMAIN patches' = DOMAIN patches
        /\ \A k \in DOMAIN patches' : patches'[k] \in PatchRequest
    BY <1>9 DEF Reload, PatchRequest, Senders
  <2>2. last' \in Messages
    BY <1>9 DEF Reload
  <2>3. chain' \in Seq([message : Messages, content : Contents])
    BY <1>9 DEF Reload
  <2>4. session' \in [title : Titles \cup {NoTitle}, titleLocked : BOOLEAN] /\ titleLocked' \in BOOLEAN
    BY <1>9 DEF Reload, Row
  <2>5. lossy' \in BOOLEAN /\ {applied', renaming', quiet'} \subseteq BOOLEAN
    BY <1>9 DEF Reload
  <2>6. /\ row' \in Row
        /\ DOMAIN said' \subseteq Messages /\ DOMAIN captions' \subseteq Messages
        /\ \A m \in DOMAIN said' : said'[m] \in Contents
        /\ \A m \in DOMAIN captions' : captions'[m] \in Contents
    BY <1>9 DEF Reload
  <2>7. /\ call' \in CallStates
        /\ renamed' \in Titles \cup {NoTitle}
        /\ sent' \in Nat /\ heard' \in Nat /\ reloads' \in Nat /\ sent' = sent
    BY <1>9 DEF Reload, CallStates
  <2> QED
    BY <2>1, <2>2, <2>3, <2>4, <2>5, <2>6, <2>7
<1> QED
  BY <1>1, <1>2, <1>3, <1>4, <1>5, <1>6, <1>7, <1>8, <1>9 DEF PageNext

LEMMA PageInitTypes == PageInit => PageTypeOK
<1> SUFFICES ASSUME PageInit PROVE PageTypeOK
  OBVIOUS
<1>1. row \in Row
  BY CreatedRow DEF PageInit
<1>2. chain \in Seq([message : Messages, content : Contents])
  BY DEF PageInit
<1>3. {titleLocked, applied, renaming, quiet, lossy} \subseteq BOOLEAN
  BY DEF PageInit
<1>4. /\ DOMAIN said = {} /\ DOMAIN captions = {} /\ DOMAIN patches = {}
      /\ last \in Messages
      /\ session \in [title : Titles \cup {NoTitle}, titleLocked : BOOLEAN]
  BY PageAssumption DEF PageInit
<1> QED
  BY <1>1, <1>2, <1>3, <1>4 DEF PageInit, PageTypeOK, CallStates

-----------------------------------------------------------------------------
(* The page: the steps of a rename.                                        *)

\* No action touches what Naming speaks of.
Aside ==
    /\ UNCHANGED <<patches, renaming, renamed, quiet, titleLocked>>
    /\ session' = session
    /\ row'.locked = row.locked
    /\ row.locked => row'.title = row.title
    /\ call # "asking" => call' # "asking"

LEMMA AsideNames ==
    ASSUME Naming, PageTypeOK', Aside
    PROVE  Naming'
<1>1. Dialog'
  BY DEF Naming, Dialog, Aside
<1>2. Undisturbed'
  BY DEF Naming, Undisturbed, Aside
<1>3. Confirmed'
  BY DEF Naming, Confirmed, Aside
<1> QED
  BY <1>1, <1>2, <1>3 DEF Naming

\* A PATCH of another part of the page is sent: there is no undisturbed rename.
LEMMA AutomaticNames ==
    ASSUME Naming, PageTypeOK', NEW from \in {"speech", "hangup"}, NEW title \in Titles,
           Sends(from, title, "unlock"),
           quiet' = (quiet /\ ~renaming),
           ~(quiet /\ renamed # NoTitle),
           UNCHANGED <<row, renaming, renamed>>
    PROVE  Naming'
<1>1. /\ DOMAIN patches' = DOMAIN patches \cup {sent}
      /\ patches'[sent].from # "user"
      /\ \A n \in DOMAIN patches : patches'[n] = patches[n]
  BY DEF Sends, Stored, Naming, PageTypeOK
<1>2. Dialog'
  BY <1>1 DEF Naming, Dialog
<1>3. Undisturbed' /\ Confirmed'
  BY DEF Undisturbed, Confirmed
<1> QED
  BY <1>2, <1>3 DEF Naming

LEMMA RenamesNames ==
    ASSUME Naming, PageTypeOK', NEW title \in Titles, Renames(title)
    PROVE  Naming'
<1>1. /\ ~renaming /\ renaming' /\ renamed' = NoTitle
      /\ quiet' = (patches = << >> /\ call # "asking")
      /\ row' = row /\ call' = call
      /\ Sends("user", title, "lock")
  BY DEF Renames, server
<1>2. /\ DOMAIN patches' = DOMAIN patches \cup {sent}
      /\ patches'[sent] = [from |-> "user", title |-> title, lock |-> "lock", step |-> "sent"]
      /\ \A n \in DOMAIN patches : patches'[n] = patches[n]
  BY <1>1 DEF Sends, Stored, Naming, PageTypeOK
<1>3. Dialog'
  BY <1>1, <1>2 DEF Naming, Dialog
<1>4. Undisturbed'
  <2>1. patches = << >> => DOMAIN patches = {}
    OBVIOUS
  <2>2. ASSUME quiet' PROVE DOMAIN patches' = {sent} /\ call' # "asking"
    BY <1>1, <1>2, <2>1, <2>2
  <2> QED
    BY <1>2, <2>2 DEF Undisturbed
<1>5. Confirmed'
  BY <1>1 DEF Confirmed
<1> QED
  BY <1>3, <1>4, <1>5 DEF Naming

LEMMA AppliesNames ==
    ASSUME Naming, PageTypeOK', NEW n \in DOMAIN patches, Applies(n)
    PROVE  Naming'
<1>1. /\ row' = Titled(row, patches[n].title, patches[n].lock)
      /\ patches' = [patches EXCEPT ![n].step = "done"]
      /\ UNCHANGED <<renaming, renamed, quiet, titleLocked, session, call>>
  BY DEF Applies, titles, rename
<1>2. /\ patches[n] \in PatchRequest
      /\ DOMAIN patches' = DOMAIN patches
      /\ \A k \in DOMAIN patches :
            /\ patches'[k].from = patches[k].from /\ patches'[k].title = patches[k].title
            /\ patches'[k].lock = patches[k].lock
  BY <1>1 DEF Naming, PageTypeOK, PatchRequest
<1>3. Dialog'
  BY <1>1, <1>2 DEF Naming, Dialog
<1>4. Undisturbed'
  <2> SUFFICES ASSUME quiet, renaming
               PROVE  /\ call' # "asking"
                      /\ \A k \in DOMAIN patches' :
                            /\ patches'[k].from = "user" /\ patches'[k].lock = "lock"
                            /\ row'.locked /\ row'.title = patches'[k].title
    BY <1>1 DEF Undisturbed
  <2>1. \A k \in DOMAIN patches : patches[k].from = "user" /\ patches[k].lock = "lock" /\ k = n
    BY DEF Naming, Undisturbed, Dialog
  <2>2. row'.locked /\ row'.title = patches[n].title
    <3>1. patches[n].title \in Titles /\ patches[n].lock = "lock" /\ "lock" \in Locks /\ row \in Row
      BY <1>2, <2>1 DEF PatchRequest, Locks, Naming, PageTypeOK
    <3> QED
      BY <1>1, <3>1, TitledRow, TitledLocks
  <2> QED
    BY <1>1, <1>2, <2>1, <2>2 DEF Naming, Undisturbed
<1>5. Confirmed'
  BY <1>1 DEF Naming, Confirmed
<1> QED
  BY <1>3, <1>4, <1>5 DEF Naming

LEMMA AnsweredNames ==
    ASSUME Naming, PageTypeOK', NEW n \in DOMAIN patches, Answered(n)
    PROVE  Naming'
<1>1. /\ patches[n].step = "done"
      /\ patches' = Without(patches, n)
      /\ renaming' = (renaming /\ patches[n].from # "user")
      /\ call' = (IF patches[n].from = "hangup" THEN "releasing" ELSE call)
      /\ session' = [title |-> patches[n].title, titleLocked |-> patches[n].lock = "lock"]
      /\ titleLocked' = (patches[n].lock = "lock")
      /\ renamed' = (IF patches[n].from = "user" THEN patches[n].title ELSE renamed)
      /\ row' = row /\ quiet' = quiet
  BY DEF Answered, Resumes, server
<1>2. /\ DOMAIN patches' = DOMAIN patches \ {n}
      /\ \A k \in DOMAIN patches' : patches'[k] = patches[k]
  BY <1>1 DEF Without
<1>3. Dialog'
  BY <1>1, <1>2 DEF Naming, Dialog
<1>4. Undisturbed'
  BY <1>1, <1>2 DEF Naming, Undisturbed
<1>5. Confirmed'
  <2> SUFFICES ASSUME quiet, renamed' # NoTitle PROVE Confirmed'
    BY <1>1 DEF Confirmed
  <2>1. patches[n].from = "user" /\ renaming
    BY <1>1 DEF Naming, Confirmed, Dialog
  <2>2. /\ patches[n].lock = "lock" /\ call # "asking"
        /\ row.locked /\ row.title = patches[n].title
        /\ \A k \in DOMAIN patches : k = n
    BY <1>1, <2>1 DEF Naming, Undisturbed, Dialog
  <2>3. DOMAIN patches' = {}
    BY <1>2, <2>2
  <2>4. session'.titleLocked /\ titleLocked' /\ renamed' = patches[n].title /\ call' # "asking"
    BY <1>1, <2>1, <2>2
  <2> QED
    BY <1>1, <2>2, <2>3, <2>4 DEF Confirmed
<1> QED
  BY <1>3, <1>4, <1>5 DEF Naming

LEMMA FailsNames ==
    ASSUME Naming, PageTypeOK', NEW n \in DOMAIN patches, Fails(n)
    PROVE  Naming'
<1>1. /\ patches[n].from # "gone"
      /\ patches' = [patches EXCEPT ![n].from = "gone"]
      /\ renaming' = (renaming /\ patches[n].from # "user")
      /\ call' = (IF patches[n].from = "hangup" THEN "releasing" ELSE call)
      /\ UNCHANGED <<row, session, titleLocked, renamed, quiet>>
  BY DEF Fails, Resumes, server, titles
<1>2. /\ patches[n] \in PatchRequest
      /\ DOMAIN patches' = DOMAIN patches
      /\ patches'[n].from = "gone"
      /\ \A k \in DOMAIN patches : k # n => patches'[k] = patches[k]
  BY <1>1 DEF Naming, PageTypeOK, PatchRequest
<1>3. Dialog'
  BY <1>1, <1>2 DEF Naming, Dialog
<1>4. Undisturbed'
  BY <1>1, <1>2 DEF Naming, Undisturbed
<1>5. Confirmed'
  BY <1>1, <1>2 DEF Naming, Confirmed
<1> QED
  BY <1>3, <1>4, <1>5 DEF Naming

LEMMA LostNames ==
    ASSUME Naming, PageTypeOK', NEW n \in DOMAIN patches, Lost(n)
    PROVE  Naming'
<1>1. /\ patches' = Without(patches, n)
      /\ UNCHANGED <<row, session, titleLocked, renaming, renamed, quiet, call>>
  BY DEF Lost, server, titles, rename
<1>2. /\ DOMAIN patches' = DOMAIN patches \ {n}
      /\ \A k \in DOMAIN patches' : patches'[k] = patches[k]
  BY <1>1 DEF Without
<1>3. Dialog'
  BY <1>1, <1>2 DEF Naming, Dialog
<1>4. Undisturbed'
  BY <1>1, <1>2 DEF Naming, Undisturbed
<1>5. Confirmed'
  BY <1>1, <1>2 DEF Naming, Confirmed
<1> QED
  BY <1>3, <1>4, <1>5 DEF Naming

LEMMA ReloadNames ==
    ASSUME Naming, PageTypeOK', Reload
    PROVE  Naming'
<1>1. /\ row' = row
      /\ session' = [title |-> row.title, titleLocked |-> row.locked]
      /\ titleLocked' = row.locked
      /\ call' = "idle" /\ renaming' = FALSE
      /\ patches' = [n \in DOMAIN patches |-> [patches[n] EXCEPT !.from = "gone"]]
      /\ UNCHANGED <<renamed, quiet>>
  BY DEF Reload, server
<1>2. \A n \in DOMAIN patches' : patches'[n].from = "gone"
  BY <1>1 DEF Naming, PageTypeOK, PatchRequest
<1>3. Dialog'
  BY <1>1, <1>2 DEF Dialog
<1>4. Undisturbed'
  BY <1>1 DEF Undisturbed
<1>5. Confirmed'
  BY <1>1 DEF Naming, Confirmed
<1> QED
  BY <1>3, <1>4, <1>5 DEF Naming

\* The hang-up asks for the title only where the page knows of no lock.
LEMMA AsksNames ==
    ASSUME Naming, PageTypeOK', Asks
    PROVE  Naming'
<1>1. /\ ~titleLocked /\ ~session.titleLocked
      /\ quiet' = (quiet /\ ~renaming)
      /\ UNCHANGED <<row, session, titleLocked, renaming, renamed, patches>>
  BY DEF Asks, server, titles
<1>2. Dialog'
  BY <1>1 DEF Naming, Dialog
<1>3. Undisturbed'
  BY <1>1 DEF Undisturbed
<1>4. Confirmed'
  BY <1>1 DEF Naming, Confirmed
<1> QED
  BY <1>2, <1>3, <1>4 DEF Naming

LEMMA HearsUserNames ==
    ASSUME Naming, PageTypeOK', NEW content \in Contents, HearsUser(content)
    PROVE  Naming'
<1>1. /\ titleLocked' = (titleLocked \/ (~applied /\ session.titleLocked))
      /\ UNCHANGED <<row, session, call, renaming, renamed>>
  BY DEF HearsUser, server
<1>2. CASE NamesIt(FirstWords[content])
  <2>1. /\ Sends("speech", FirstWords[content], "unlock")
        /\ quiet' = (quiet /\ ~renaming)
        /\ ~titleLocked
        /\ FirstWords[content] \in Titles
    BY <1>2, PageAssumption DEF HearsUser, NamesIt
  <2>2. ~(quiet /\ renamed # NoTitle)
    BY <2>1 DEF Naming, Confirmed
  <2> QED
    BY <1>1, <2>1, <2>2, AutomaticNames
<1>3. CASE ~NamesIt(FirstWords[content])
  <2>1. UNCHANGED <<patches, quiet>>
    BY <1>3 DEF HearsUser
  <2>2. Dialog'
    BY <1>1, <2>1 DEF Naming, Dialog
  <2>3. Undisturbed'
    BY <1>1, <2>1 DEF Naming, Undisturbed
  <2>4. Confirmed'
    BY <1>1, <2>1 DEF Naming, Confirmed
  <2> QED
    BY <2>2, <2>3, <2>4 DEF Naming
<1> QED
  BY <1>2, <1>3

LEMMA PostsAside ==
    ASSUME PageTypeOK, PostIsStored \/ PostFails
    PROVE  Aside
<1>1. /\ chain # << >>
      /\ UNCHANGED <<titles, rename, call, patches>>
      /\ \/ row' = Spoken(row, Head(chain).content, Head(chain).message \notin DOMAIN said)
         \/ row' = row
  BY DEF PostIsStored, PostFails, server
<1>2. Head(chain).content \in Contents /\ row \in Row
  BY <1>1, PostTypes DEF PageTypeOK
<1>3. row'.locked = row.locked /\ (row.locked => row'.title = row.title)
  BY <1>1, <1>2, SpokenKeeps
<1> QED
  BY <1>1, <1>3 DEF Aside, titles, rename

LEMMA NamingStep == Naming /\ [PageNext]_pageVars => Naming'
<1> SUFFICES ASSUME Naming, [PageNext]_pageVars PROVE Naming'
  OBVIOUS
<1>1. PageTypeOK /\ PageTypeOK'
  BY PageTypeStep DEF Naming
<1>2. CASE UNCHANGED pageVars
  <2>1. Aside
    BY <1>2 DEF pageVars, server, titles, rename, Aside
  <2> QED
    BY <1>1, <2>1, AsideNames
<1>3. CASE Dials \/ NewThread \/ HangsUp \/ NoTitleComes \/ Released
  <2>1. Aside
    BY <1>3 DEF Dials, NewThread, HangsUp, NoTitleComes, Released, server, titles, rename, Aside
  <2> QED
    BY <1>1, <2>1, AsideNames
<1>4. CASE Asks
  BY <1>1, <1>4, AsksNames
<1>5. CASE DoesNotAsk
  <2>1. /\ titleLocked' = (titleLocked \/ session.titleLocked)
        /\ call' = "releasing"
        /\ UNCHANGED <<row, session, renaming, renamed, quiet, patches>>
    BY <1>5 DEF DoesNotAsk, server, rename
  <2>2. Dialog'
    BY <2>1 DEF Naming, Dialog
  <2>3. Undisturbed'
    BY <2>1 DEF Naming, Undisturbed
  <2>4. Confirmed'
    BY <2>1 DEF Naming, Confirmed
  <2> QED
    BY <1>1, <2>2, <2>3, <2>4 DEF Naming
<1>6. ASSUME NEW c \in Contents, HearsUser(c) PROVE Naming'
  BY <1>1, <1>6, HearsUserNames
<1>7. ASSUME NEW c \in Contents, HearsAssistant(c) PROVE Naming'
  <2>1. Aside
    BY <1>7 DEF HearsAssistant, Hears, server, titles, rename, Aside
  <2> QED
    BY <1>1, <2>1, AsideNames
<1>8. CASE PostIsStored \/ PostFails
  BY <1>1, <1>8, PostsAside, AsideNames
<1>9. ASSUME NEW t \in OfficialTitles, TitleComes(t) PROVE Naming'
  <2>1. /\ call = "asking"
        /\ Sends("hangup", t, "unlock")
        /\ quiet' = (quiet /\ ~renaming)
        /\ UNCHANGED <<row, renaming, renamed>>
        /\ t \in Titles
    BY <1>9, PageAssumption DEF TitleComes, server
  <2>2. ~(quiet /\ renamed # NoTitle)
    BY <2>1 DEF Naming, Confirmed
  <2> QED
    BY <1>1, <2>1, <2>2, AutomaticNames
<1>10. ASSUME NEW t \in RenameTitles, Renames(t) PROVE Naming'
  BY <1>1, <1>10, RenamesNames, PageAssumption
<1>11. ASSUME NEW n \in DOMAIN patches, Applies(n) PROVE Naming'
  BY <1>1, <1>11, AppliesNames
<1>12. ASSUME NEW n \in DOMAIN patches, Lost(n) PROVE Naming'
  BY <1>1, <1>12, LostNames
<1>13. ASSUME NEW n \in DOMAIN patches, Answered(n) PROVE Naming'
  BY <1>1, <1>13, AnsweredNames
<1>14. ASSUME NEW n \in DOMAIN patches, Fails(n) PROVE Naming'
  BY <1>1, <1>14, FailsNames
<1>15. CASE Reload
  BY <1>1, <1>15, ReloadNames
<1> QED
  BY <1>2, <1>3, <1>4, <1>5, <1>6, <1>7, <1>8, <1>9, <1>10, <1>11, <1>12, <1>13, <1>14, <1>15
  DEF PageNext

LEMMA PageNames == PageSpec => []Naming
<1>1. PageInit => Naming
  BY PageInitTypes DEF PageInit, Naming, Dialog, Undisturbed, Confirmed
<1> QED
  BY <1>1, NamingStep, PTL DEF PageSpec

\* The page's variables and the row and messages it works on keep their types
\* (src/static/voice.html and store.go).
THEOREM PageTypesKept == PageSpec => []PageTypeOK
<1>1. Naming => PageTypeOK
  BY DEF Naming
<1> QED
  BY <1>1, PageNames, PTL

\* A rename no automatic title overlapped stays, title and lock, until the next
\* one, whatever is said, hung up, lost or loaded again (voice.html:2619-2626,
\* 2660-2671, 2756; store.go:153-158, 329-332).
THEOREM RenamesStay == PageSpec => []QuietRenameStays
<1>1. Naming => QuietRenameStays
  BY DEF Naming, Confirmed, QuietRenameStays
<1> QED
  BY <1>1, PageNames, PTL

-----------------------------------------------------------------------------
(* The page: the steps of a caption.                                       *)

LEMMA HearsCaptions ==
    ASSUME PageTypeOK, Captions, NEW message \in Messages, NEW content \in Contents,
           Hears(message, content), said' = said
    PROVE  Captions'
<1>1. /\ captions' = Stored(captions, message, content)
      /\ chain' = Append(chain, [message |-> message, content |-> content])
      /\ lossy' = lossy
  BY DEF Hears
<1>2. /\ DOMAIN captions' = DOMAIN captions \cup {message}
      /\ captions'[message] = content
      /\ \A m \in DOMAIN captions : m # message => captions'[m] = captions[m]
      /\ captions' = [m \in DOMAIN captions' |-> captions'[m]]
  BY <1>1 DEF Stored
<1>3. /\ Len(chain) \in Nat /\ Len(chain') = Len(chain) + 1
      /\ \A i \in 1 .. Len(chain) : chain'[i] = chain[i]
      /\ chain'[Len(chain) + 1] = [message |-> message, content |-> content]
  BY <1>1 DEF PageTypeOK
<1>4. said' = [m \in DOMAIN said' |-> said'[m]]
  BY DEF Captions
<1>5. ASSUME ~lossy', NEW i \in 1 .. Len(chain')
      PROVE  /\ chain'[i].message \in DOMAIN captions'
             /\ \/ chain'[i].content = captions'[chain'[i].message]
                \/ \E j \in i + 1 .. Len(chain') : chain'[j].message = chain'[i].message
  <2>1. CASE i = Len(chain) + 1
    BY <1>2, <1>3, <2>1
  <2>2. CASE i # Len(chain) + 1 /\ chain[i].message = message
    <3>1. i \in 1 .. Len(chain) /\ Len(chain) + 1 \in i + 1 .. Len(chain')
      BY <1>3, <2>2
    <3> QED
      BY <1>2, <1>3, <2>2, <3>1
  <2>3. CASE i # Len(chain) + 1 /\ chain[i].message # message
    <3>1. i \in 1 .. Len(chain) /\ i + 1 .. Len(chain) \subseteq i + 1 .. Len(chain')
      BY <1>3, <2>3
    <3>2. /\ chain[i].message \in DOMAIN captions
          /\ \/ chain[i].content = captions[chain[i].message]
             \/ \E j \in i + 1 .. Len(chain) : chain[j].message = chain[i].message
      BY <1>1, <1>5, <3>1 DEF Captions
    <3>3. \A j \in i + 1 .. Len(chain) : chain'[j] = chain[j]
      BY <1>3, <3>1
    <3> QED
      BY <1>2, <1>3, <2>3, <3>1, <3>2, <3>3
  <2> QED
    BY <2>1, <2>2, <2>3
<1>6. ASSUME ~lossy', NEW m \in DOMAIN captions'
      PROVE  \/ m \in DOMAIN said' /\ said'[m] = captions'[m]
             \/ \E i \in 1 .. Len(chain') : chain'[i].message = m
  <2>1. CASE m = message
    <3>1. Len(chain) + 1 \in 1 .. Len(chain')
      BY <1>3
    <3> QED
      BY <1>3, <2>1, <3>1
  <2>2. CASE m # message
    <3>1. \/ m \in DOMAIN said /\ said[m] = captions[m]
          \/ \E i \in 1 .. Len(chain) : chain[i].message = m
      BY <1>1, <1>2, <1>6, <2>2 DEF Captions
    <3> QED
      BY <1>2, <1>3, <2>2, <3>1
  <2> QED
    BY <2>1, <2>2
<1>7. ~lossy' => DOMAIN said' \subseteq DOMAIN captions'
  BY <1>1, <1>2 DEF Captions
<1> QED
  BY <1>2, <1>4, <1>5, <1>6, <1>7 DEF Captions

LEMMA PostIsStoredCaptions ==
    ASSUME PageTypeOK, Captions, PostIsStored
    PROVE  Captions'
<1>1. /\ chain # << >> /\ chain' = Tail(chain)
      /\ said' = Stored(said, chain[1].message, chain[1].content)
      /\ UNCHANGED <<captions, lossy>>
  BY DEF PostIsStored, PageTypeOK
<1>2. /\ DOMAIN said' = DOMAIN said \cup {chain[1].message}
      /\ said'[chain[1].message] = chain[1].content
      /\ \A m \in DOMAIN said : m # chain[1].message => said'[m] = said[m]
      /\ said' = [m \in DOMAIN said' |-> said'[m]]
  BY <1>1 DEF Stored
<1>3. /\ Len(chain) \in Nat /\ Len(chain) >= 1 /\ Len(chain') = Len(chain) - 1
      /\ \A i \in 1 .. Len(chain') : chain'[i] = chain[i + 1]
  BY <1>1 DEF PageTypeOK
<1>4. \A i \in 2 .. Len(chain) : i - 1 \in 1 .. Len(chain') /\ chain'[i - 1] = chain[i]
  <2> TAKE i \in 2 .. Len(chain)
  <2>1. i - 1 \in 1 .. Len(chain') /\ (i - 1) + 1 = i
    BY <1>3
  <2> QED
    BY <1>3, <2>1
<1>5. ASSUME ~lossy, NEW i \in 1 .. Len(chain)
      PROVE  /\ chain[i].message \in DOMAIN captions
             /\ \/ chain[i].content = captions[chain[i].message]
                \/ \E j \in i + 1 .. Len(chain) : chain[j].message = chain[i].message
  BY <1>5 DEF Captions
<1>6. ASSUME ~lossy', NEW i \in 1 .. Len(chain')
      PROVE  /\ chain'[i].message \in DOMAIN captions'
             /\ \/ chain'[i].content = captions'[chain'[i].message]
                \/ \E j \in i + 1 .. Len(chain') : chain'[j].message = chain'[i].message
  <2>1. i + 1 \in 1 .. Len(chain) /\ chain'[i] = chain[i + 1]
    BY <1>3
  <2>2. ASSUME NEW j \in (i + 1) + 1 .. Len(chain)
        PROVE  j - 1 \in i + 1 .. Len(chain') /\ chain'[j - 1] = chain[j]
    <3>1. j - 1 \in i + 1 .. Len(chain') /\ j \in 2 .. Len(chain)
      BY <1>3
    <3> QED
      BY <1>4, <3>1
  <2>3. /\ chain[i + 1].message \in DOMAIN captions
        /\ \/ chain[i + 1].content = captions[chain[i + 1].message]
           \/ \E j \in (i + 1) + 1 .. Len(chain) : chain[j].message = chain[i + 1].message
    BY <1>1, <1>5, <1>6, <2>1
  <2> QED
    BY <1>1, <2>1, <2>2, <2>3
<1>7. ASSUME ~lossy', NEW m \in DOMAIN captions'
      PROVE  \/ m \in DOMAIN said' /\ said'[m] = captions'[m]
             \/ \E i \in 1 .. Len(chain') : chain'[i].message = m
  <2>1. CASE m = chain[1].message
    <3>1. 1 \in 1 .. Len(chain) /\ 1 + 1 .. Len(chain) = 2 .. Len(chain)
      BY <1>3
    <3>2. \/ chain[1].content = captions[m]
          \/ \E j \in 2 .. Len(chain) : chain[j].message = m
      BY <1>1, <1>5, <1>7, <2>1, <3>1
    <3> QED
      BY <1>1, <1>2, <1>4, <2>1, <3>2
  <2>2. CASE m # chain[1].message
    <3>1. \/ m \in DOMAIN said /\ said[m] = captions[m]
          \/ \E i \in 1 .. Len(chain) : chain[i].message = m
      BY <1>1, <1>7 DEF Captions
    <3>2. CASE m \in DOMAIN said /\ said[m] = captions[m]
      BY <1>1, <1>2, <2>2, <3>2
    <3>3. ASSUME NEW i \in 1 .. Len(chain), chain[i].message = m
          PROVE  \E k \in 1 .. Len(chain') : chain'[k].message = m
      <4>1. i \in 2 .. Len(chain)
        BY <1>3, <2>2, <3>3
      <4> QED
        BY <1>4, <3>3, <4>1
    <3> QED
      BY <3>1, <3>2, <3>3
  <2> QED
    BY <2>1, <2>2
<1>8. ~lossy' => DOMAIN said' \subseteq DOMAIN captions'
  <2>1. 1 \in 1 .. Len(chain)
    BY <1>3
  <2> QED
    BY <1>1, <1>2, <1>5, <2>1 DEF Captions
<1>9. captions' = [m \in DOMAIN captions' |-> captions'[m]]
  BY <1>1 DEF Captions
<1> QED
  BY <1>2, <1>6, <1>7, <1>8, <1>9 DEF Captions

LEMMA CaptionsStep == PageTypeOK /\ Captions /\ [PageNext]_pageVars => Captions'
<1> SUFFICES ASSUME PageTypeOK, Captions, [PageNext]_pageVars PROVE Captions'
  OBVIOUS
<1>1. ASSUME UNCHANGED <<said, captions, chain, lossy>> PROVE Captions'
  BY <1>1 DEF Captions
<1>2. CASE UNCHANGED pageVars
  BY <1>1, <1>2 DEF pageVars, server, speech
<1>3. CASE Dials \/ NewThread \/ HangsUp \/ Asks \/ DoesNotAsk \/ NoTitleComes \/ Released
  BY <1>1, <1>3 DEF Dials, NewThread, HangsUp, Asks, DoesNotAsk, NoTitleComes, Released,
                    server, speech
<1>4. ASSUME NEW c \in Contents, HearsUser(c) \/ HearsAssistant(c) PROVE Captions'
  BY <1>4, HearsCaptions, PageAssumption DEF HearsUser, HearsAssistant, server
<1>5. CASE PostIsStored
  BY <1>5, PostIsStoredCaptions
<1>6. CASE PostFails
  BY <1>6 DEF PostFails, Captions, Stored, server
<1>7. ASSUME NEW t \in Titles, TitleComes(t) \/ Renames(t) PROVE Captions'
  BY <1>1, <1>7 DEF TitleComes, Renames, server, speech
<1>8. ASSUME NEW n \in DOMAIN patches, Applies(n) \/ Lost(n) \/ Answered(n) \/ Fails(n)
      PROVE  Captions'
  BY <1>1, <1>8 DEF Applies, Lost, Answered, Fails, server, speech
<1>9. CASE Reload
  <2>1. said' = said /\ captions' = said /\ chain' = << >>
    BY <1>9 DEF Reload, server
  <2>2. 1 .. Len(chain') = {}
    BY <2>1
  <2> QED
    BY <2>1, <2>2 DEF Captions
<1> QED
  BY <1>2, <1>3, <1>4, <1>5, <1>6, <1>7, <1>8, <1>9, PageAssumption DEF PageNext

\* When the chain of captions has run dry without a failure the server has each
\* caption of the page in its last version (voice.html:3181-3205).
THEOREM CaptionsReachTheServer == PageSpec => []CaptionsArrive
<1>1. PageInit => Captions
  <2> SUFFICES ASSUME PageInit PROVE Captions
    OBVIOUS
  <2>1. said = << >> /\ captions = << >> /\ chain = << >>
    BY DEF PageInit
  <2>2. DOMAIN said = {} /\ DOMAIN captions = {} /\ 1 .. Len(chain) = {}
    BY <2>1
  <2>3. said = [m \in DOMAIN said |-> said[m]] /\ captions = [m \in DOMAIN captions |-> captions[m]]
    BY <2>1
  <2> QED
    BY <2>2, <2>3 DEF Captions
<1>2. Captions => CaptionsArrive
  <2> SUFFICES ASSUME Captions, ~lossy, chain = << >> PROVE said = captions
    BY DEF CaptionsArrive
  <2>1. 1 .. Len(chain) = {}
    OBVIOUS
  <2>2. /\ DOMAIN said = DOMAIN captions
        /\ \A m \in DOMAIN captions : said[m] = captions[m]
    BY <2>1 DEF Captions
  <2> QED
    BY <2>2 DEF Captions
<1> QED
  BY <1>1, <1>2, CaptionsStep, PageTypesKept, PTL DEF PageSpec
=============================================================================
