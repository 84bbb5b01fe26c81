-------------------------- MODULE CallSessionTable --------------------------
(***************************************************************************)
(* The rows of the SQLite table "call_sessions" and what each statement of *)
(* internal/callsessions/store.go does to them.  A table is a function     *)
(* from the session ids that have a row to rows.  Every operation runs     *)
(* under store.DB.mu: one operator is one atomic step.                     *)
(*                                                                         *)
(* The upstream ids (conversation, parent message, upstream voice session) *)
(* are merged alike, each kept unless a newer one is given; the row keeps  *)
(* one of them, the conversation, for all three.                           *)
(***************************************************************************)
EXTENDS Naturals

CONSTANTS Owners,           \* "admin:<user>" and "api_key:<id>"
          Sessions,         \* voice_session_id values
          Conversations,    \* conversations on chatgpt.com
          None              \* the empty string, wherever the code has one

CallRow == [owner   : Owners,
            account : Nat,
            conv    : Conversations \cup {None},
            status  : {"active", "released"}]

\* An id that is given replaces the stored one; an empty one leaves it alone.
Merged(base, patch) == IF patch # None THEN patch ELSE base

\* Mutant of Owned: WHERE voice_session_id = ? without the owner.
OwnedByAnyone(table, owner, sid) == sid \in DOMAIN table

\* Get and getUnlocked: a row is found only by its owner.
Owned(table, owner, sid) ==
    sid \in DOMAIN table /\ table[sid].owner = owner

\* Mutant of Upserted: a conflict leaves the status as it was.
UpsertedAsItWas(table, sid, owner, account, conv) ==
    LET isNew == sid \notin DOMAIN table
        row == [owner   |-> owner,
                account |-> IF account > 0 \/ isNew THEN account
                            ELSE table[sid].account,
                conv    |-> IF isNew THEN conv
                            ELSE Merged(table[sid].conv, conv),
                status  |-> IF isNew THEN "active" ELSE table[sid].status]
    IN  [s \in DOMAIN table \cup {sid} |-> IF s = sid THEN row ELSE table[s]]

\* INSERT ... ON CONFLICT DO UPDATE: the row becomes active and the caller's,
\* fields the caller has no value for survive.
Upserted(table, sid, owner, account, conv) ==
    LET isNew == sid \notin DOMAIN table
        row == [owner   |-> owner,
                account |-> IF account > 0 \/ isNew THEN account
                            ELSE table[sid].account,
                conv    |-> IF isNew THEN conv
                            ELSE Merged(table[sid].conv, conv),
                status  |-> "active"]
    IN  [s \in DOMAIN table \cup {sid} |-> IF s = sid THEN row ELSE table[s]]

\* UpdateUpstream on a row the owner has.  A released row becomes active again.
Continued(table, sid, account, conv) ==
    LET old == table[sid]
        row == [owner   |-> old.owner,
                account |-> IF account > 0 THEN account ELSE old.account,
                conv    |-> Merged(old.conv, conv),
                status  |-> "active"]
    IN  [table EXCEPT ![sid] = row]

ReleasedRow(row) == [row EXCEPT !.status = "released"]

\* MarkReleased; a row of another owner, or none, is left alone.
Released(table, owner, sid) ==
    [s \in DOMAIN table |->
        IF s = sid /\ table[s].owner = owner
        THEN ReleasedRow(table[s]) ELSE table[s]]

\* Mutant of AllReleased: startup deletes the rows.
AllDeleted(table) == [s \in {} |-> table[s]]

\* MarkAllActiveReleased, on startup.
AllReleased(table) == [s \in DOMAIN table |-> ReleasedRow(table[s])]
=============================================================================
