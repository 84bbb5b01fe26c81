---------------------------- MODULE StoredTokens ----------------------------
(***************************************************************************)
(* The database from the moment it is opened until the gateway serves: the *)
(* migration of its schema (internal/store/schema.go), the sealing of the  *)
(* access tokens an older version stored in plain text                     *)
(* (accounts/pool.go, SealStoredTokens), and the command that imports      *)
(* accounts.json (cmd/migrate-accounts), which may run beside the server.  *)
(*                                                                         *)
(* Only the rebuild of the table accounts is a transaction.  Every other   *)
(* statement commits by itself, and the column checks are statements of    *)
(* their own, so a process may die, and the other one run, between any     *)
(* two of them.  Compose starts the server again whenever it ends.         *)
(***************************************************************************)
EXTENDS Naturals, Sequences, FiniteSets

CONSTANTS
    Tokens,             \* access tokens
    Keys,               \* values VOICE_TOKEN_ENCRYPTION_KEY may have
    OldSchemas,         \* schemas an earlier version may have left
    OldTokens,          \* the tokens it left
    Imports,            \* accounts.json: a sequence of tokens
    MaxAdds,            \* bound: accounts the administrator adds
    MaxCrashes,         \* bound: deaths of a process
    MaxImports          \* bound: runs of the command

CONSTANTS NoKey, NoHash

ASSUME TokensAssumption ==
    /\ OldTokens \subseteq Tokens
    /\ Imports \in Seq(Tokens)
    /\ NoKey \notin Keys
    /\ NoHash \notin Keys \X Tokens
    /\ MaxAdds \in Nat /\ MaxCrashes \in Nat /\ MaxImports \in Nat

VARIABLES
    schema,             \* what the database has
    rows,               \* accounts: id -> row
    procs,              \* the server and the command
    \* history
    kept,               \* tokens that were stored, whoever stored them
    adds, crashes, imports

vars == <<schema, rows, procs, kept, adds, crashes, imports>>

Processes == {"server", "command"}

\* The column access_token holds a plain token (key NoKey) or one sealed with a
\* key, token_hash the digest under a key (secretbox.Hash) or nothing.
Stored == [token : Tokens, key : Keys \cup {NoKey}]
Hash(key, token) == <<key, token>>
Row == [stored : Stored, hash : (Keys \X Tokens) \cup {NoHash}]

Columns == {"upstream ids", "account_id", "title_locked"}

\* What a schema may have that the code looks at.
SchemaParts ==
    {"accounts", "conversations", "refresh_token", "device_id", "token_hash",
     "hash index", "unique token"} \cup Columns

ASSUME SchemasAssumption == OldSchemas \subseteq SUBSET SchemaParts

\* What is to be gone once the schema is migrated.
Obsolete == {"refresh_token", "device_id", "unique token"}

\* Mutant of Migration: the index before its column.
MigrationIndexFirst ==
    <<"accounts", "conversations", "refresh_token", "device_id", "hash index",
      "token_hash", "unique token", "upstream ids", "account_id", "title_locked">>

\* migrate, in its order.
Migration ==
    <<"accounts", "conversations", "refresh_token", "device_id", "token_hash",
      "hash index", "unique token", "upstream ids", "account_id", "title_locked">>

\* Statements that say IF NOT EXISTS need no look at the schema first.
Unchecked == {"accounts", "conversations", "hash index"}

Settled(part) == IF part \in Obsolete THEN part \notin schema ELSE part \in schema

Migrated == \A i \in DOMAIN Migration : Settled(Migration[i])

Process == [pc : {"off", "check", "alter", "list", "seal", "up",
                  "lookup", "insert", "update"},
            at : Nat, key : Keys, found : Nat,
            \* what SealStoredTokens read and has not written back: id -> row
            pending : UNION {[ids -> Row] : ids \in SUBSET DOMAIN rows}]

Off(key) == [pc |-> "off", at |-> 0, key |-> key, found |-> 0, pending |-> << >>]

Sealed(key, token) == [stored |-> [token |-> token, key |-> key],
                       hash |-> Hash(key, token)]
Plain(token) == [stored |-> [token |-> token, key |-> NoKey], hash |-> NoHash]

\* Only a schema with digests has sealed tokens.
OldRows(token) == {Plain(token)} \cup
    IF "token_hash" \in schema THEN {Sealed(key, token) : key \in Keys} ELSE {}

\* The database is new or was left by an earlier version, its tokens in plain
\* text or sealed, perhaps with a key that is not the present one.  The server
\* and the command have the same key.
Init ==
    /\ schema \in OldSchemas \cup {{}}
    /\ \E n \in IF schema = {} THEN {0} ELSE 0 .. Cardinality(OldTokens) :
          \E f \in [1 .. n -> UNION {OldRows(token) : token \in OldTokens}] :
            /\ \A i, j \in 1 .. n : f[i].stored.token = f[j].stored.token => i = j
            /\ rows = f
    /\ \E key \in Keys : procs = [p \in Processes |-> Off(key)]
    /\ kept = {rows[i].stored.token : i \in DOMAIN rows}
    /\ adds = 0 /\ crashes = 0 /\ imports = 0

At(p, pc) == procs[p].pc = pc
Goto(p, pc) == procs' = [procs EXCEPT ![p].pc = pc]
Exits(p) == procs' = [procs EXCEPT ![p] = Off(procs[p].key)]

Put(id, row) == rows' = [i \in DOMAIN rows \cup {id} |->
                            IF i = id THEN row ELSE rows[i]]

\* Mutant of Conflicts: the index is not unique.
ConflictsNever(id, hash) == FALSE

\* idx_accounts_token_hash lets no two rows have one digest.
Conflicts(id, hash) ==
    /\ "hash index" \in schema
    /\ \E i \in DOMAIN rows \ {id} : rows[i].hash = hash

-----------------------------------------------------------------------------
(* store.Open: each part of the schema is checked and settled in turn.     *)

Starts(p) ==
    /\ At(p, "off")
    /\ p = "command" => imports < MaxImports
    /\ imports' = IF p = "command" THEN imports + 1 ELSE imports
    /\ procs' = [procs EXCEPT ![p].pc = "check", ![p].at = 1]
    /\ UNCHANGED <<schema, rows, kept, adds, crashes>>

\* After the last part: the server seals, the command imports.
Proceeds(p) ==
    procs' = [procs EXCEPT
        ![p].at = IF @ = Len(Migration) THEN 1 ELSE @ + 1,
        ![p].pc = IF procs[p].at < Len(Migration) THEN "check"
                  ELSE IF p = "server" THEN "list" ELSE "lookup"]

\* hasColumn, or the list of indexes.
Checks(p) ==
    LET part == Migration[procs[p].at] IN
    /\ At(p, "check")
    /\ part \notin Unchecked
    /\ IF Settled(part) THEN Proceeds(p) ELSE Goto(p, "alter")
    /\ UNCHANGED <<schema, rows, kept, adds, crashes, imports>>

\* CREATE ... IF NOT EXISTS.  A new table has all of its columns; the index
\* needs its column.
Creates(p) ==
    LET part == Migration[procs[p].at] IN
    /\ At(p, "check")
    /\ part \in Unchecked
    /\ IF part = "hash index" /\ "token_hash" \notin schema
       THEN Exits(p) /\ UNCHANGED schema
       ELSE /\ schema' = schema \cup {part} \cup
                 (IF part \in schema THEN {}
                  ELSE IF part = "accounts" THEN {"token_hash"}
                  ELSE IF part = "conversations" THEN Columns ELSE {})
            /\ Proceeds(p)
    /\ UNCHANGED <<rows, kept, adds, crashes, imports>>

\* ALTER TABLE, or the rebuild of accounts without UNIQUE(access_token), which
\* may run twice.  What another process altered since the check is an error.
Alters(p) ==
    LET part == Migration[procs[p].at] IN
    /\ At(p, "alter")
    /\ IF Settled(part) /\ part # "unique token"
       THEN Exits(p) /\ UNCHANGED schema
       ELSE /\ schema' = IF part \in Obsolete THEN schema \ {part}
                         ELSE schema \cup {part}
            /\ Proceeds(p)
    /\ UNCHANGED <<rows, kept, adds, crashes, imports>>

-----------------------------------------------------------------------------
(* SealStoredTokens, which ends the start of the server.                   *)

ListsRows ==
    /\ At("server", "list")
    /\ procs' = [procs EXCEPT !["server"].pc = "seal", !["server"].pending = rows]
    /\ UNCHANGED <<schema, rows, kept, adds, crashes, imports>>

Opens(key, stored) == stored.key \in {key, NoKey}

Settles(id) ==
    procs' = [procs EXCEPT !["server"].pending =
                [i \in DOMAIN @ \ {id} |-> @[i]]]

\* Mutant of SealsRow: a token that cannot be opened is passed over.
SealsRowOrSkips(id) ==
    LET key == procs["server"].key
        read == procs["server"].pending[id]
        row == Sealed(key, read.stored.token)
    IN
    /\ At("server", "seal")
    /\ id \in DOMAIN procs["server"].pending
    /\ IF ~Opens(key, read.stored) \/ read = row THEN Settles(id) /\ UNCHANGED rows
       ELSE IF Conflicts(id, row.hash) THEN Exits("server") /\ UNCHANGED rows
       ELSE Put(id, row) /\ Settles(id)
    /\ UNCHANGED <<schema, kept, adds, crashes, imports>>

\* One row: the server exits when it cannot be opened or when its digest is
\* taken; a row in order is left alone; any other is written sealed.
SealsRow(id) ==
    LET key == procs["server"].key
        read == procs["server"].pending[id]
        row == Sealed(key, read.stored.token)
    IN
    /\ At("server", "seal")
    /\ id \in DOMAIN procs["server"].pending
    /\ IF ~Opens(key, read.stored) THEN Exits("server") /\ UNCHANGED rows
       ELSE IF read = row THEN Settles(id) /\ UNCHANGED rows
       ELSE IF Conflicts(id, row.hash) THEN Exits("server") /\ UNCHANGED rows
       ELSE Put(id, row) /\ Settles(id)
    /\ UNCHANGED <<schema, kept, adds, crashes, imports>>

\* All rows are in order: the server goes on to serve.
Serves ==
    /\ At("server", "seal")
    /\ procs["server"].pending = << >>
    /\ Goto("server", "up")
    /\ UNCHANGED <<schema, rows, kept, adds, crashes, imports>>

\* The administrator adds an account (Pool.Create).
Adds(id, token) ==
    LET row == Sealed(procs["server"].key, token) IN
    /\ At("server", "up")
    /\ adds < MaxAdds
    /\ adds' = adds + 1
    /\ id \notin DOMAIN rows
    /\ \A i \in DOMAIN rows : rows[i].hash # row.hash
    /\ Put(id, row)
    /\ kept' = kept \cup {token}
    /\ UNCHANGED <<schema, procs, crashes, imports>>

-----------------------------------------------------------------------------
(* migrate-accounts: Pool.Upsert for each account of the file.             *)

Import == Imports[procs["command"].at]
ImportRow == Sealed(procs["command"].key, Import)

\* The SELECT of Upsert.
LooksUp ==
    /\ At("command", "lookup")
    /\ procs["command"].at <= Len(Imports)
    /\ \/ \E i \in DOMAIN rows :
            /\ rows[i].hash = ImportRow.hash
            /\ procs' = [procs EXCEPT !["command"].pc = "update",
                                      !["command"].found = i]
       \/ /\ \A i \in DOMAIN rows : rows[i].hash # ImportRow.hash
          /\ Goto("command", "insert")
    /\ UNCHANGED <<schema, rows, kept, adds, crashes, imports>>

NextImport ==
    procs' = [procs EXCEPT !["command"].pc = "lookup", !["command"].at = @ + 1]

\* Its INSERT or UPDATE.  Between the two, the server may have added the token.
Upserts(id) ==
    /\ \/ At("command", "insert") /\ id \notin DOMAIN rows
       \/ At("command", "update") /\ id = procs["command"].found
    /\ IF Conflicts(id, ImportRow.hash)
       THEN Exits("command") /\ UNCHANGED <<rows, kept>>
       ELSE /\ Put(id, ImportRow)
            /\ kept' = kept \cup {Import}
            /\ NextImport
    /\ UNCHANGED <<schema, adds, crashes, imports>>

Completes ==
    /\ At("command", "lookup")
    /\ procs["command"].at > Len(Imports)
    /\ Exits("command")
    /\ UNCHANGED <<schema, rows, kept, adds, crashes, imports>>

-----------------------------------------------------------------------------
Crash(p) ==
    /\ ~At(p, "off")
    /\ crashes < MaxCrashes
    /\ crashes' = crashes + 1
    /\ Exits(p)
    /\ UNCHANGED <<schema, rows, kept, adds, imports>>

Ids == 1 .. Cardinality(DOMAIN rows) + 1

Step(p) == Checks(p) \/ Creates(p) \/ Alters(p)

Seals == ListsRows \/ Serves \/ \E id \in Ids : SealsRow(id)

Next ==
    \/ \E p \in Processes : Starts(p) \/ Step(p) \/ Crash(p)
    \/ Seals
    \/ \E id \in Ids, token \in Tokens : Adds(id, token)
    \/ LooksUp \/ Completes \/ \E id \in Ids : Upserts(id)

Spec == Init /\ [][Next]_vars

\* Compose restarts the server (restart: unless-stopped), which runs on.
Fairness ==
    /\ WF_vars(Starts("server"))
    /\ WF_vars(Step("server"))
    /\ WF_vars(Seals)

FairSpec == Spec /\ Fairness

-----------------------------------------------------------------------------
TypeOK ==
    /\ schema \subseteq SchemaParts
    /\ DOMAIN rows \subseteq Nat \ {0}
    /\ rows \in [DOMAIN rows -> Row]
    /\ procs \in [Processes -> Process]
    /\ kept \subseteq Tokens
    /\ {adds, crashes, imports} \subseteq Nat

\* A server that serves has the whole schema and a row for every token that was
\* ever stored, and every row it started with can be opened and found with its
\* key: wherever an earlier start, the command or both of them died
\* (schema.go:98-114; pool.go:71-128; app.go:49-68).
ServesEveryToken ==
    At("server", "up") =>
        /\ Migrated
        /\ \A t \in kept : \E i \in DOMAIN rows :
            rows[i] = Sealed(procs["server"].key, t)
        /\ \A i \in DOMAIN rows :
            rows[i] = Sealed(procs["server"].key, rows[i].stored.token)

\* No two accounts have one token, though the command looks up and writes in two
\* statements, in another process than the server, which seals and adds meanwhile
\* (pool.go:178-191, 280-325; schema.go:181-183).
OncePerToken ==
    \A i, j \in DOMAIN rows : rows[i].stored.token = rows[j].stored.token => i = j

\* The server gets to serve and stays up once no process dies any more, whatever
\* schema it found and wherever it died before ("Safe to call on every startup",
\* pool.go:72): unless a token was sealed with a key that is not the present one.
StartsForGood ==
    (\A i \in DOMAIN rows : Opens(procs["server"].key, rows[i].stored))
        => <>[]At("server", "up")
=============================================================================
