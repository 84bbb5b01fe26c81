--------------------------- MODULE Conversations ---------------------------
(***************************************************************************)
(* The handlers of /api/conversations (internal/api/conversations.go) over *)
(* the tables of ConversationTable: requests of any number of pages in     *)
(* flight together, statements that fail, and a process that dies.         *)
(*                                                                         *)
(* A handler takes store.DB.mu once per call of the repository.  A PATCH   *)
(* that names a title and upstream ids makes two calls, and one that names *)
(* a lock and no title reads the row in one and writes it in another.      *)
(* The owner column is left out: all requests are of one administrator.    *)
(***************************************************************************)
EXTENDS ConversationTable

CONSTANTS
    Ids,                \* conversation ids: uuids, drawn once
    Requests,           \* goroutines that may be in flight together
    Updates,            \* the sets of columns a PATCH may name, with values
    StoreFaults,        \* whether a statement may fail
    MaxCrashes          \* bound: crashes of the process

ASSUME RequestsAssumption ==
    /\ \A u \in Updates : /\ DOMAIN u \subseteq Fields
                          /\ \A f \in DOMAIN u : u[f] \in Upstream \cup {NoUpstream}
    /\ StoreFaults \in BOOLEAN
    /\ MaxCrashes \in Nat

VARIABLES
    convs,              \* conversations: id -> row
    texts,              \* conversation_messages: <<id, client id>> -> content
    reqs,               \* the PATCH requests between two calls
    \* history
    drawn,              \* ids that were given out
    answered,           \* conversations with a message that was answered 200
    named,              \* id -> each upstream column as it was last asked for
    crashes             \* how much of MaxCrashes is used

vars == <<convs, texts, reqs, drawn, answered, named, crashes>>

NoUpdate == [f \in {} |-> NoUpstream]

\* A PATCH: title is NoTitle when the body has none, update is NoUpdate when it
\* names no column; seen is the row the handler read.
Patch == [pc : {"get", "title", "context"}, id : Ids,
          title : Titles \cup {NoTitle}, lock : Locks,
          update : Updates \cup {NoUpdate}, seen : Row]

Init ==
    /\ convs = << >> /\ texts = << >> /\ reqs = << >>
    /\ drawn = {} /\ answered = {}
    /\ named = << >>
    /\ crashes = 0

At(r, pc) == r \in DOMAIN reqs /\ reqs[r].pc = pc
Reply(r) == reqs' = Without(reqs, r)

-----------------------------------------------------------------------------
\* createConversation; the title of a new conversation may be empty.
Create(id, title) ==
    /\ id \notin drawn
    /\ drawn' = drawn \cup {id}
    /\ convs' = Stored(convs, id, Created(title))
    /\ named' = Stored(named, id, Created(title).context)
    /\ UNCHANGED <<texts, reqs, answered, crashes>>

\* Mutant of Delete: the messages stay (no ON DELETE CASCADE).
DeleteRowOnly(id) ==
    /\ id \in DOMAIN convs
    /\ convs' = Without(convs, id)
    /\ UNCHANGED <<texts, reqs, drawn, answered, named, crashes>>

\* deleteConversation; the messages go with it (ON DELETE CASCADE).
Delete(id) ==
    /\ id \in DOMAIN convs
    /\ convs' = Without(convs, id)
    /\ texts' = [k \in {j \in DOMAIN texts : j[1] # id} |-> texts[k]]
    /\ UNCHANGED <<reqs, drawn, answered, named, crashes>>

-----------------------------------------------------------------------------
(* upsertConversationMessage                                               *)

Upserts(id, message, content) ==
    /\ id \in DOMAIN convs
    /\ texts' = Stored(texts, <<id, message>>, content)
    /\ UNCHANGED <<reqs, drawn, named>>

UpsertMessage(id, message, content) ==
    /\ Upserts(id, message, content)
    /\ convs' = [convs EXCEPT ![id] =
                    Spoken(@, content, <<id, message>> \notin DOMAIN texts)]
    /\ answered' = answered \cup {id}
    /\ UNCHANGED crashes

\* The message is stored, the statement on its conversation fails: 500.
UpsertMessageFails(id, message, content) ==
    /\ StoreFaults
    /\ Upserts(id, message, content)
    /\ UNCHANGED <<convs, answered, crashes>>

-----------------------------------------------------------------------------
(* updateConversation                                                      *)

\* The call a request makes after its title was dealt with.
AfterTitle(r) ==
    IF reqs[r].update = NoUpdate THEN Reply(r)
    ELSE reqs' = [reqs EXCEPT ![r].pc = "context"]

\* The body names at least one of title, lock and upstream columns.
Arrives(r, id, title, lock, update) ==
    /\ r \notin DOMAIN reqs
    /\ id \in drawn
    /\ title # NoTitle \/ lock # "keep" \/ update # NoUpdate
    /\ reqs' = Stored(reqs, r,
                 [pc |-> IF title # NoTitle THEN "title"
                         ELSE IF lock # "keep" THEN "get" ELSE "context",
                  id |-> id, title |-> title, lock |-> lock,
                  update |-> update, seen |-> Created(NoTitle)])
    /\ UNCHANGED <<convs, texts, drawn, answered, named, crashes>>

\* A lock without a title: Get reads the row, and its title becomes the title
\* of the UpdateTitle that follows.
NewTitle(q) == IF q.title = NoTitle THEN q.seen.title ELSE q.title

Gets(r) ==
    LET id == reqs[r].id IN
    /\ At(r, "get")
    /\ id \in DOMAIN convs
    /\ reqs' = [reqs EXCEPT ![r].pc = "title", ![r].seen = convs[id]]
    /\ UNCHANGED <<convs, texts, drawn, answered, named, crashes>>

\* Mutant of UpdateTitle: any title is stored.
UpdateAnyTitle(r) ==
    LET q == reqs[r] IN
    /\ At(r, "title")
    /\ q.id \in DOMAIN convs
    /\ convs' = [convs EXCEPT ![q.id] = Titled(@, NewTitle(q), q.lock)]
    /\ AfterTitle(r)
    /\ UNCHANGED <<texts, drawn, answered, named, crashes>>

\* Store.UpdateTitle, which refuses an empty title.
UpdateTitle(r) ==
    LET q == reqs[r] IN
    /\ At(r, "title")
    /\ NewTitle(q) # NoTitle
    /\ q.id \in DOMAIN convs
    /\ convs' = [convs EXCEPT ![q.id] = Titled(@, NewTitle(q), q.lock)]
    /\ AfterTitle(r)
    /\ UNCHANGED <<texts, drawn, answered, named, crashes>>

\* Store.UpdateUpstreamContext.
UpdateUpstreamContext(r) ==
    LET q == reqs[r] IN
    /\ At(r, "context")
    /\ q.id \in DOMAIN convs
    /\ convs' = [convs EXCEPT ![q.id] = Contexted(@, q.seen, q.update)]
    /\ named' = [named EXCEPT ![q.id] = [f \in Fields |->
                    IF f \in DOMAIN q.update THEN q.update[f] ELSE @[f]]]
    /\ Reply(r)
    /\ UNCHANGED <<texts, drawn, answered, crashes>>

\* A call answers an error and the request ends: the conversation is gone
\* (404), the title it read is empty (400), a statement fails (500).  What an
\* earlier call of the request wrote stays.
Refused(r) ==
    /\ r \in DOMAIN reqs
    /\ \/ reqs[r].id \notin DOMAIN convs
       \/ At(r, "title") /\ NewTitle(reqs[r]) = NoTitle
       \/ StoreFaults
    /\ Reply(r)
    /\ UNCHANGED <<convs, texts, drawn, answered, named, crashes>>

-----------------------------------------------------------------------------
\* The process dies, possibly between the two statements of an UpsertMessage.
Crash ==
    /\ crashes < MaxCrashes
    /\ crashes' = crashes + 1
    /\ reqs' = << >>
    /\ \/ UNCHANGED texts
       \/ \E id \in DOMAIN convs, m \in Messages, c \in Contents :
            texts' = Stored(texts, <<id, m>>, c)
    /\ UNCHANGED <<convs, drawn, answered, named>>

Next ==
    \/ \E id \in Ids :
        \/ \E title \in Titles \cup {NoTitle} : Create(id, title)
        \/ Delete(id)
        \/ \E m \in Messages, c \in Contents :
            UpsertMessage(id, m, c) \/ UpsertMessageFails(id, m, c)
    \/ \E r \in Requests :
        \/ \E id \in Ids, title \in Titles \cup {NoTitle}, lock \in Locks,
              update \in Updates \cup {NoUpdate} :
            Arrives(r, id, title, lock, update)
        \/ Gets(r) \/ UpdateTitle(r) \/ UpdateUpstreamContext(r)
        \/ Refused(r)
    \/ Crash

Spec == Init /\ [][Next]_vars

-----------------------------------------------------------------------------
TypeOK ==
    /\ DOMAIN convs \subseteq Ids
    /\ \A id \in DOMAIN convs : convs[id] \in Row
    /\ DOMAIN texts \subseteq Ids \X Messages
    /\ \A k \in DOMAIN texts : texts[k] \in Contents
    /\ DOMAIN reqs \subseteq Requests
    /\ \A r \in DOMAIN reqs : reqs[r] \in Patch
    /\ drawn \subseteq Ids /\ answered \subseteq Ids
    /\ DOMAIN named = drawn
    /\ \A id \in drawn : named[id] \in [Fields -> Upstream \cup {NoUpstream}]
    /\ crashes \in Nat

\* A conversation with a message the page was told is stored has a title, and so
\* has a locked one: neither a failure or crash between the two statements of an
\* UpsertMessage and the retry that follows, nor a lock set on a conversation
\* without a title, leaves a nameless one (store.go:138-140, 315-337).
NamedOnceAnswered ==
    \A id \in DOMAIN convs :
        id \in answered \/ convs[id].locked => convs[id].title # NoTitle

\* Updates of different upstream columns do not undo one another, whatever a
\* request read before: each column holds what the last update that named it
\* asked for (store.go:183-229).
NoUpdateLost ==
    \A id \in DOMAIN convs : convs[id].context = named[id]

\* What belongs to a deleted conversation is gone and stays gone, though
\* requests for it are still running (store.go:232-252, 310-325; schema.go:76).
DeletedStaysGone ==
    \A k \in DOMAIN texts : k[1] \in DOMAIN convs

-----------------------------------------------------------------------------
(* What does not hold.                                                     *)

\* "Lock-only update without changing the visible title"
\* (api/conversations.go:115): a PATCH that names a lock and no title leaves the
\* title as it is.  It writes back the title it has read in an earlier step and
\* so undoes a rename in between.
LockOnlyKeepsTitle ==
    [][\A r \in Requests :
        /\ At(r, "title") /\ reqs[r].title = NoTitle
        /\ ~At(r, "title")'
        /\ reqs[r].id \in DOMAIN convs \cap DOMAIN convs'
        => convs'[reqs[r].id].title = convs[reqs[r].id].title]_vars
=============================================================================
