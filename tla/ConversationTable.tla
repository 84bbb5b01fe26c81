------------------------- MODULE ConversationTable -------------------------
(***************************************************************************)
(* The tables "conversations" and "conversation_messages" and what each    *)
(* operation of internal/conversations/store.go does to a row.             *)
(*                                                                         *)
(* Every operation runs under store.DB.mu, so one operator is one atomic   *)
(* step of the modules that use it, except where an operation is two       *)
(* statements and the second one may fail (UpsertMessage).                 *)
(***************************************************************************)
EXTENDS Naturals

CONSTANTS
    Titles,             \* titles as stored: trimmed, not empty, 120 runes at most
    Contents,           \* texts of messages: trimmed, not empty
    Heading,            \* content -> its first 120 runes (truncateText)
    Messages,           \* client ids of messages
    Fields,             \* columns of the upstream context
    Upstream            \* what such a column may hold

CONSTANTS NoTitle, NoText, NoUpstream

ASSUME ConversationAssumption ==
    /\ Heading \in [Contents -> Titles]
    /\ NoTitle \notin Titles
    /\ NoText \notin Contents
    /\ NoUpstream \notin Upstream

Locks == {"keep", "lock", "unlock"}     \* *bool: nil, true, false

Row == [title : Titles \cup {NoTitle}, locked : BOOLEAN,
        preview : Contents \cup {NoText},
        context : [Fields -> Upstream \cup {NoUpstream}]]

Without(f, x) == [y \in DOMAIN f \ {x} |-> f[y]]
Stored(f, x, v) == [y \in DOMAIN f \cup {x} |-> IF y = x THEN v ELSE f[y]]

Created(title) ==
    [title |-> title, locked |-> FALSE, preview |-> NoText,
     context |-> [field \in Fields |-> NoUpstream]]

Titled(row, title, lock) ==
    [row EXCEPT !.title = title,
                !.locked = IF lock = "keep" THEN @ ELSE lock = "lock"]

\* Mutant of Contexted: the columns an update does not name are written from an
\* earlier reading of the row.
ContextedFrom(row, seen, update) ==
    [row EXCEPT !.context = [field \in Fields |->
        IF field \in DOMAIN update THEN update[field] ELSE seen.context[field]]]

\* UpdateUpstreamContext reads the row and writes all the columns back; seen,
\* what an earlier statement of the request read, plays no part.
Contexted(row, seen, update) ==
    [row EXCEPT !.context = [field \in Fields |->
        IF field \in DOMAIN update THEN update[field] ELSE row.context[field]]]

\* Mutant of Spoken: only a message that is new gives the conversation a title.
SpokenFirst(row, content, new) ==
    [row EXCEPT !.title = IF @ = NoTitle /\ ~row.locked /\ new
                          THEN Heading[content] ELSE @,
                !.preview = content]

\* The second statement of UpsertMessage.  It does not matter whether the first
\* one inserted the message or updated it.
Spoken(row, content, new) ==
    [row EXCEPT !.title = IF @ = NoTitle /\ ~row.locked
                          THEN Heading[content] ELSE @,
                !.preview = content]
=============================================================================
