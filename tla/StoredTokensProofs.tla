-------------------------- MODULE StoredTokensProofs -------------------------
(***************************************************************************)
(* Proofs about the start of the server and the command that imports       *)
(* accounts, for any tokens, keys and older databases, any accounts.json   *)
(* and any number of crashes.                                              *)
(*                                                                         *)
(* Safe is the inductive invariant: what a process has settled of the      *)
(* schema stays settled (Ahead), a row is out of order only if an older    *)
(* version left it (Table), what the server has still to seal is all that  *)
(* is out of order (Sealing), and what the command is about to update is   *)
(* what it looked up (Importing).                                          *)
(***************************************************************************)
EXTENDS StoredTokens, TLAPS

Key == procs["server"].key
Token(i) == rows[i].stored.token
InOrder(i) == rows[i] = Sealed(Key, Token(i))

Table ==
    /\ procs["command"].key = Key
    /\ kept = {Token(i) : i \in DOMAIN rows}
    /\ \A i \in DOMAIN rows :
        \/ InOrder(i)
        \/ /\ Token(i) \in OldTokens
           /\ \/ rows[i] = Plain(Token(i))
              \/ \E k \in Keys : rows[i] = Sealed(k, Token(i))

Ahead ==
    \A p \in Processes :
        /\ procs[p].pc \in {"check", "alter"} =>
            /\ procs[p].at \in DOMAIN Migration
            /\ \A j \in DOMAIN Migration : j < procs[p].at => Settled(Migration[j])
        /\ procs[p].pc \in {"list", "seal", "up", "lookup", "insert", "update"}
            => Migrated

Sealing ==
    /\ At("server", "seal") =>
        /\ \A i \in DOMAIN procs["server"].pending :
            /\ i \in DOMAIN rows
            /\ procs["server"].pending[i].stored.token = Token(i)
        /\ \A i \in DOMAIN rows :
            \/ InOrder(i)
            \/ /\ i \in DOMAIN procs["server"].pending
               /\ rows[i] = procs["server"].pending[i]
    /\ At("server", "up") => \A i \in DOMAIN rows : InOrder(i)

Importing ==
    /\ At("command", "lookup") => procs["command"].at >= 1
    /\ procs["command"].pc \in {"insert", "update"} =>
        procs["command"].at \in DOMAIN Imports
    /\ At("command", "update") =>
        /\ procs["command"].found \in DOMAIN rows
        /\ rows[procs["command"].found] = ImportRow

Safe == TypeOK /\ Table /\ Ahead /\ Sealing /\ Importing

-----------------------------------------------------------------------------
(* What a step does to the process that takes it.                          *)

Moved(p, pc, at, found, pending) ==
    /\ procs' = [procs EXCEPT ![p] = procs'[p]]
    /\ procs'[p] = [pc |-> pc, at |-> at, key |-> procs[p].key,
                    found |-> found, pending |-> pending]

\* What a process may hold to be sealed, said without the set of functions.
LEMMA PendingIs ==
    ASSUME NEW ids, NEW f
    PROVE  f \in UNION {[s -> Row] : s \in SUBSET ids}
            <=> /\ DOMAIN f \subseteq ids
                /\ f \in [DOMAIN f -> Row]
  OBVIOUS

LEMMA ProcessIs ==
    ASSUME TypeOK, NEW p \in Processes
    PROVE  /\ procs[p].at \in Nat /\ procs[p].key \in Keys
           /\ procs[p].found \in Nat
           /\ DOMAIN procs[p].pending \subseteq DOMAIN rows
           /\ procs[p].pending \in [DOMAIN procs[p].pending -> Row]
  <1>1. procs[p] \in Process
    BY DEF TypeOK
  <1>2. procs[p].pending \in UNION {[s -> Row] : s \in SUBSET DOMAIN rows}
    BY <1>1 DEF Process
  <1> QED
    BY <1>1, <1>2, PendingIs DEF Process

LEMMA MovedIs ==
    ASSUME TypeOK, NEW p \in Processes, NEW pc, NEW at, NEW found, NEW pending,
           Moved(p, pc, at, found, pending)
    PROVE  /\ procs'[p].pc = pc /\ procs'[p].at = at
           /\ procs'[p].found = found /\ procs'[p].pending = pending
           /\ \A q \in Processes : procs'[q].key = procs[q].key
           /\ \A q \in Processes : q # p => procs'[q] = procs[q]
  BY DEF Moved, TypeOK

LEMMA MovedType ==
    ASSUME TypeOK, NEW p \in Processes, DOMAIN rows \subseteq DOMAIN rows',
           NEW pc \in {"off", "check", "alter", "list", "seal", "up",
                       "lookup", "insert", "update"},
           NEW at \in Nat, NEW found \in Nat, NEW pending,
           DOMAIN pending \subseteq DOMAIN rows,
           pending \in [DOMAIN pending -> Row],
           Moved(p, pc, at, found, pending)
    PROVE  procs' \in [Processes -> Process']
  <1>1. \A q \in Processes : procs[q] \in Process'
    <2> SUFFICES ASSUME NEW q \in Processes PROVE procs[q] \in Process'
      OBVIOUS
    <2>1. procs[q] \in Process
      BY DEF TypeOK
    <2>2. DOMAIN procs[q].pending \subseteq DOMAIN rows'
          /\ procs[q].pending \in [DOMAIN procs[q].pending -> Row]
      BY ProcessIs
    <2>3. procs[q].pending \in UNION {[s -> Row] : s \in SUBSET DOMAIN rows'}
      BY <2>2, PendingIs
    <2> QED
      BY <2>1, <2>3 DEF Process
  <1>2. pending \in UNION {[s -> Row] : s \in SUBSET DOMAIN rows'}
    BY PendingIs
  <1>3. [pc |-> pc, at |-> at, key |-> procs[p].key, found |-> found,
         pending |-> pending] \in Process'
    BY <1>2, ProcessIs DEF Process
  <1> QED
    BY <1>1, <1>3 DEF Moved, TypeOK

\* migrate goes through ten parts.
LEMMA MigrationIs ==
    /\ DOMAIN Migration = 1 .. 10 /\ Len(Migration) = 10
    /\ \A j \in DOMAIN Migration : Migration[j] \in SchemaParts
  <1>1. DOMAIN Migration = 1 .. 10
    BY DEF Migration
  <1>2. Len(Migration) = 10
    BY DEF Migration
  <1>3. ASSUME NEW j \in 1 .. 10 PROVE Migration[j] \in SchemaParts
    <2>1. \/ j = 1 \/ j = 2 \/ j = 3 \/ j = 4 \/ j = 5
          \/ j = 6 \/ j = 7 \/ j = 8 \/ j = 9 \/ j = 10
      OBVIOUS
    <2>2. /\ Migration[1] = "accounts" /\ Migration[2] = "conversations"
          /\ Migration[3] = "refresh_token" /\ Migration[4] = "device_id"
          /\ Migration[5] = "token_hash" /\ Migration[6] = "hash index"
          /\ Migration[7] = "unique token" /\ Migration[8] = "upstream ids"
          /\ Migration[9] = "account_id" /\ Migration[10] = "title_locked"
      BY DEF Migration
    <2> QED
      BY <2>1, <2>2 DEF SchemaParts, Columns
  <1> QED
    BY <1>1, <1>2, <1>3

\* One of them makes the digests unique.
LEMMA MigrationIndexes == Migration[6] = "hash index"
  BY DEF Migration

LEMMA GotoMoves ==
    ASSUME TypeOK, NEW p \in Processes, NEW pc, Goto(p, pc)
    PROVE  Moved(p, pc, procs[p].at, procs[p].found, procs[p].pending)
  BY DEF Goto, Moved, TypeOK, Process

LEMMA ExitMoves ==
    ASSUME TypeOK, NEW p \in Processes, Exits(p)
    PROVE  Moved(p, "off", 0, 0, << >>)
  BY DEF Exits, Off, Moved, TypeOK

LEMMA ProceedMoves ==
    ASSUME TypeOK, NEW p \in Processes, Proceeds(p)
    PROVE  Moved(p, IF procs[p].at < Len(Migration) THEN "check"
                    ELSE IF p = "server" THEN "list" ELSE "lookup",
                 IF procs[p].at = Len(Migration) THEN 1 ELSE procs[p].at + 1,
                 procs[p].found, procs[p].pending)
  BY DEF Proceeds, Moved, TypeOK, Process

LEMMA StartMoves ==
    ASSUME TypeOK, NEW p \in Processes, Starts(p)
    PROVE  Moved(p, "check", 1, procs[p].found, procs[p].pending)
  BY DEF Starts, Moved, TypeOK, Process

LEMMA ListMoves ==
    ASSUME TypeOK, ListsRows
    PROVE  Moved("server", "seal", procs["server"].at, procs["server"].found, rows)
  BY DEF ListsRows, Moved, Processes, TypeOK, Process

LEMMA SettleMoves ==
    ASSUME TypeOK, NEW id, Settles(id), At("server", "seal")
    PROVE  Moved("server", "seal", procs["server"].at, procs["server"].found,
                 [i \in DOMAIN procs["server"].pending \ {id} |->
                    procs["server"].pending[i]])
  BY DEF Settles, At, Moved, Processes, TypeOK, Process

LEMMA FoundMoves ==
    ASSUME TypeOK, NEW i,
           procs' = [procs EXCEPT !["command"].pc = "update", !["command"].found = i]
    PROVE  Moved("command", "update", procs["command"].at, i,
                 procs["command"].pending)
  BY DEF Moved, Processes, TypeOK, Process

LEMMA NextMoves ==
    ASSUME TypeOK, NextImport
    PROVE  Moved("command", "lookup", procs["command"].at + 1,
                 procs["command"].found, procs["command"].pending)
  BY DEF NextImport, Moved, Processes, TypeOK, Process

LEMMA CommandFoundMoves ==
    ASSUME TypeOK, LooksUp
    PROVE  \/ \E i \in DOMAIN rows :
                /\ rows[i].hash = ImportRow.hash
                /\ Moved("command", "update", procs["command"].at, i,
                         procs["command"].pending)
           \/ /\ \A i \in DOMAIN rows : rows[i].hash # ImportRow.hash
              /\ Moved("command", "insert", procs["command"].at,
                       procs["command"].found, procs["command"].pending)
  <1>1. "command" \in Processes
    BY DEF Processes
  <1>2. ASSUME NEW i \in DOMAIN rows,
               procs' = [procs EXCEPT !["command"].pc = "update",
                                      !["command"].found = i]
        PROVE  Moved("command", "update", procs["command"].at, i,
                     procs["command"].pending)
    BY <1>2, FoundMoves
  <1>3. Goto("command", "insert") =>
            Moved("command", "insert", procs["command"].at,
                  procs["command"].found, procs["command"].pending)
    BY <1>1, GotoMoves
  <1> QED
    BY <1>2, <1>3 DEF LooksUp

\* No process changes its key (config.go: read once per process).
LEMMA KeysStay ==
    ASSUME TypeOK, [Next]_vars
    PROVE  \A q \in Processes : procs'[q].key = procs[q].key
  <1> DEFINE Goal == \A q \in Processes : procs'[q].key = procs[q].key
  <1>p. "server" \in Processes /\ "command" \in Processes
    BY DEF Processes
  <1>1. ASSUME NEW p \in Processes, Starts(p) PROVE Goal
    BY <1>1, StartMoves, MovedIs
  <1>2. ASSUME NEW p \in Processes, NEW pc, Goto(p, pc) PROVE Goal
    BY <1>2, GotoMoves, MovedIs
  <1>3. ASSUME NEW p \in Processes, Exits(p) PROVE Goal
    BY <1>3, ExitMoves, MovedIs
  <1>4. ASSUME NEW p \in Processes, Proceeds(p) PROVE Goal
    BY <1>4, ProceedMoves, MovedIs
  <1>5. ASSUME NEW p \in Processes, Step(p) PROVE Goal
    BY <1>2, <1>3, <1>4, <1>5 DEF Step, Checks, Creates, Alters
  <1>6. ASSUME NEW p \in Processes, Crash(p) PROVE Goal
    BY <1>3, <1>6 DEF Crash
  <1>7. CASE ListsRows
    BY <1>p, <1>7, ListMoves, MovedIs
  <1>8. ASSUME NEW id, SealsRow(id) PROVE Goal
    <2>1. Settles(id) /\ At("server", "seal") => Goal
      BY <1>p, SettleMoves, MovedIs
    <2> QED
      BY <1>p, <1>3, <1>8, <2>1 DEF SealsRow
  <1>9. CASE Serves
    BY <1>p, <1>2, <1>9 DEF Serves
  <1>10. ASSUME NEW id, NEW token, Adds(id, token) PROVE Goal
    BY <1>10 DEF Adds
  <1>11. CASE LooksUp
    BY <1>p, <1>11, CommandFoundMoves, MovedIs
  <1>12. ASSUME NEW id, Upserts(id) PROVE Goal
    <2>1. NextImport => Goal
      BY <1>p, NextMoves, MovedIs
    <2> QED
      BY <1>p, <1>3, <1>12, <2>1 DEF Upserts
  <1>13. CASE Completes
    BY <1>p, <1>3, <1>13 DEF Completes
  <1>14. CASE UNCHANGED vars
    BY <1>14 DEF vars
  <1> QED
    BY <1>1, <1>5, <1>6, <1>7, <1>8, <1>9, <1>10, <1>11, <1>12, <1>13, <1>14
       DEF Next, Seals

-----------------------------------------------------------------------------
(* What a step does to the table.                                          *)

\* A write puts a sealed row, into a new place or where its token was.
Wrote(id, token) ==
    /\ id \in Nat \ {0} /\ token \in Tokens
    /\ Put(id, Sealed(Key, token))
    /\ kept' = kept \cup {token}
    /\ id \in DOMAIN rows => Token(id) = token

LEMMA AddsWrites ==
    ASSUME Safe, NEW id \in Ids, NEW token \in Tokens, Adds(id, token)
    PROVE  Wrote(id, token)
  BY DEF Adds, Wrote, Ids, Key

LEMMA SealsRowWrites ==
    ASSUME Safe, NEW id \in Ids, SealsRow(id)
    PROVE  \/ rows' = rows /\ kept' = kept
           \/ /\ Wrote(id, Token(id)) /\ id \in DOMAIN rows
              /\ Settles(id)
  <1> DEFINE read == procs["server"].pending[id]
             row == Sealed(procs["server"].key, read.stored.token)
  <1>1. /\ At("server", "seal") /\ id \in DOMAIN procs["server"].pending
        /\ kept' = kept
        /\ rows' = rows \/ (Put(id, row) /\ Settles(id))
    BY DEF SealsRow
  <1>2. id \in DOMAIN rows /\ read.stored.token = Token(id)
    BY <1>1 DEF Safe, Sealing
  <1>3. Token(id) \in kept /\ Token(id) \in Tokens
    BY <1>2 DEF Safe, Table, TypeOK
  <1> QED
    BY <1>1, <1>2, <1>3 DEF Wrote, Ids, Key

LEMMA UpsertsWrites ==
    ASSUME Safe, NEW id \in Ids, Upserts(id)
    PROVE  \/ rows' = rows /\ kept' = kept
           \/ Wrote(id, Import)
  <1>1. /\ procs["command"].pc \in {"insert", "update"}
        /\ At("command", "insert") => id \notin DOMAIN rows
        /\ At("command", "update") => id = procs["command"].found
        /\ \/ rows' = rows /\ kept' = kept
           \/ Put(id, ImportRow) /\ kept' = kept \cup {Import}
    BY DEF Upserts, At
  <1>2. Import \in Tokens
    BY <1>1, TokensAssumption DEF Safe, Importing, Import
  <1>3. procs["command"].key = Key
    BY DEF Safe, Table
  <1>4. id \in DOMAIN rows => Token(id) = Import
    <2> SUFFICES ASSUME id \in DOMAIN rows PROVE Token(id) = Import
      OBVIOUS
    <2>1. rows[id] = ImportRow
      BY <1>1 DEF Safe, Importing, At
    <2> QED
      BY <2>1 DEF ImportRow, Sealed, Token
  <1> QED
    BY <1>1, <1>2, <1>3, <1>4 DEF Wrote, Ids, ImportRow

LEMMA RowsChange ==
    ASSUME Safe, [Next]_vars
    PROVE  \/ rows' = rows /\ kept' = kept
           \/ \E id, token : Wrote(id, token)
  <1>1. ASSUME NEW p \in Processes, Starts(p) \/ Step(p) \/ Crash(p)
        PROVE  rows' = rows /\ kept' = kept
    BY <1>1 DEF Starts, Step, Checks, Creates, Alters, Crash
  <1>2. CASE ListsRows \/ Serves \/ LooksUp \/ Completes \/ UNCHANGED vars
    BY <1>2 DEF ListsRows, Serves, LooksUp, Completes, vars
  <1> QED
    BY <1>1, <1>2, AddsWrites, SealsRowWrites, UpsertsWrites DEF Next, Seals

\* Rows keep their places and their tokens, a row in order is not touched, and
\* what a step writes is in order (pool.go:71-128, 173-191, 280-325).
LEMMA RowsStay ==
    ASSUME Safe, [Next]_vars
    PROVE  /\ DOMAIN rows \subseteq DOMAIN rows'
           /\ DOMAIN rows' \subseteq Nat \ {0}
           /\ rows' \in [DOMAIN rows' -> Row]
           /\ kept' \subseteq Tokens
           /\ \A i \in DOMAIN rows : Token(i)' = Token(i)
           /\ \A i \in DOMAIN rows : InOrder(i) => rows'[i] = rows[i]
           /\ \A i \in DOMAIN rows' : \/ InOrder(i)'
                                      \/ i \in DOMAIN rows /\ rows'[i] = rows[i]
           /\ Table'
  <1>k. Key' = Key /\ (procs["command"].key = Key)' /\ Key \in Keys
    <2>1. "server" \in Processes /\ "command" \in Processes
      BY DEF Processes
    <2> QED
      BY <2>1, KeysStay, ProcessIs DEF Safe, Table, Key
  <1>1. CASE rows' = rows /\ kept' = kept
    <2>1. \A i : Token(i)' = Token(i) /\ InOrder(i)' = InOrder(i)
      BY <1>1, <1>k DEF Token, InOrder
    <2>2. Table'
      BY <1>1, <1>k, <2>1 DEF Safe, Table
    <2> QED
      BY <1>1, <2>1, <2>2 DEF Safe, TypeOK
  <1>2. ASSUME NEW id, NEW token, Wrote(id, token)
        PROVE  /\ DOMAIN rows \subseteq DOMAIN rows'
               /\ DOMAIN rows' \subseteq Nat \ {0}
               /\ rows' \in [DOMAIN rows' -> Row]
               /\ kept' \subseteq Tokens
               /\ \A i \in DOMAIN rows : Token(i)' = Token(i)
               /\ \A i \in DOMAIN rows : InOrder(i) => rows'[i] = rows[i]
               /\ \A i \in DOMAIN rows' : \/ InOrder(i)'
                                          \/ i \in DOMAIN rows /\ rows'[i] = rows[i]
               /\ Table'
    <2>0. rows' = [i \in DOMAIN rows \cup {id} |->
                    IF i = id THEN Sealed(Key, token) ELSE rows[i]]
      BY <1>2 DEF Wrote, Put
    <2>1. /\ DOMAIN rows' = DOMAIN rows \cup {id}
          /\ rows'[id] = Sealed(Key, token)
          /\ \A i \in DOMAIN rows : i # id => rows'[i] = rows[i]
          /\ id \in Nat \ {0} /\ token \in Tokens
          /\ kept' = kept \cup {token}
          /\ id \in DOMAIN rows => Token(id) = token
      BY <1>2 DEF Wrote, Put
    <2>2. /\ Sealed(Key, token) \in Row
          /\ Sealed(Key, token).stored.token = token
      BY <1>k, <2>1 DEF Sealed, Row, Stored, Hash
    <2>3. \A i \in DOMAIN rows : Token(i)' = Token(i)
      BY <2>1, <2>2 DEF Token
    <2>4. Token(id)' = token /\ InOrder(id)'
      BY <1>k, <2>1, <2>2 DEF Token, InOrder
    <2>5. \A i \in DOMAIN rows : InOrder(i) => rows'[i] = rows[i]
      BY <2>1 DEF InOrder
    <2>6. \A i \in DOMAIN rows : i # id => (InOrder(i)' <=> InOrder(i))
      BY <1>k, <2>1, <2>3 DEF InOrder
    <2>7. kept' = {Token(i)' : i \in DOMAIN rows'}
      <3>1. kept = {Token(i) : i \in DOMAIN rows}
        BY DEF Safe, Table
      <3> QED
        BY <2>1, <2>3, <2>4, <3>1
    <2>8. ASSUME NEW i \in DOMAIN rows'
          PROVE  (\/ InOrder(i)
                  \/ /\ Token(i) \in OldTokens
                     /\ \/ rows[i] = Plain(Token(i))
                        \/ \E k \in Keys : rows[i] = Sealed(k, Token(i)))'
      <3>1. CASE i = id
        BY <2>4, <3>1
      <3>2. CASE i # id
        <4>1. i \in DOMAIN rows /\ rows'[i] = rows[i] /\ Token(i)' = Token(i)
              /\ (InOrder(i)' <=> InOrder(i))
          BY <2>1, <2>3, <2>6, <3>2
        <4> QED
          BY <4>1 DEF Safe, Table
      <3> QED
        BY <3>1, <3>2
    <2>9. Table'
      BY <1>k, <2>7, <2>8 DEF Table
    <2>10. rows' \in [DOMAIN rows' -> Row]
      BY <2>0, <2>2 DEF Safe, TypeOK
    <2> QED
      BY <2>1, <2>2, <2>3, <2>4, <2>5, <2>9, <2>10 DEF Safe, TypeOK
  <1> QED
    BY <1>1, <1>2, RowsChange

-----------------------------------------------------------------------------
(* The invariant.                                                          *)

LEMMA InitSafe == Init => Safe
  <1> SUFFICES ASSUME Init PROVE Safe
    OBVIOUS
  <1>p. Processes = {"server", "command"}
    BY DEF Processes
  <1>1. PICK n \in IF schema = {} THEN {0} ELSE 0 .. Cardinality(OldTokens) :
          \E f \in [1 .. n -> UNION {OldRows(token) : token \in OldTokens}] :
            rows = f
    BY DEF Init
  <1>2. /\ DOMAIN rows = 1 .. n /\ rows = [i \in DOMAIN rows |-> rows[i]]
        /\ \A i \in DOMAIN rows : \E token \in OldTokens : rows[i] \in OldRows(token)
    BY <1>1
  <1>3. \A i \in DOMAIN rows :
            /\ Token(i) \in OldTokens
            /\ \/ rows[i] = Plain(Token(i))
               \/ \E k \in Keys : rows[i] = Sealed(k, Token(i))
    BY <1>2 DEF OldRows, Token, Plain, Sealed
  <1>4. \A i \in DOMAIN rows : rows[i] \in Row /\ Token(i) \in Tokens
    <2> SUFFICES ASSUME NEW i \in DOMAIN rows PROVE rows[i] \in Row /\ Token(i) \in Tokens
      OBVIOUS
    <2>1. Token(i) \in Tokens
      BY <1>3, TokensAssumption
    <2> QED
      BY <1>3, <2>1 DEF Row, Stored, Plain, Sealed, Hash
  <1>5. DOMAIN rows \subseteq Nat \ {0}
    BY <1>2
  <1>6. PICK key \in Keys : procs = [p \in Processes |-> Off(key)]
    BY DEF Init
  <1>7. \A p \in Processes : procs[p] = Off(key)
    BY <1>6
  <1>8. Off(key) \in Process
    <2>1. << >> \in UNION {[s -> Row] : s \in SUBSET DOMAIN rows}
      BY PendingIs
    <2> QED
      BY <2>1 DEF Off, Process
  <1>9. kept = {Token(i) : i \in DOMAIN rows}
    BY DEF Init, Token
  <1>10. TypeOK
    <2>1. schema \subseteq SchemaParts
      BY SchemasAssumption DEF Init
    <2>2. kept \subseteq Tokens
      BY <1>4, <1>9
    <2>3. procs \in [Processes -> Process]
      BY <1>6, <1>8
    <2>4. {adds, crashes, imports} \subseteq Nat
      BY DEF Init
    <2>5. rows \in [DOMAIN rows -> Row]
      BY <1>2, <1>4
    <2> QED
      BY <1>5, <2>1, <2>2, <2>3, <2>4, <2>5 DEF TypeOK
  <1>11. Table
    BY <1>p, <1>3, <1>7, <1>9 DEF Table, Key, Off
  <1>12. Ahead /\ Sealing /\ Importing
    BY <1>p, <1>7 DEF Ahead, Sealing, Importing, At, Off
  <1> QED
    BY <1>10, <1>11, <1>12 DEF Safe

LEMMA TypeStep == Safe /\ [Next]_vars => TypeOK'
  <1> SUFFICES ASSUME Safe, [Next]_vars PROVE TypeOK'
    OBVIOUS
  <1>r. /\ DOMAIN rows \subseteq DOMAIN rows'
        /\ DOMAIN rows' \subseteq Nat \ {0}
        /\ rows' \in [DOMAIN rows' -> Row]
        /\ kept' \subseteq Tokens
    BY RowsStay
  <1>p. "server" \in Processes /\ "command" \in Processes
    BY DEF Processes
  <1>t. TypeOK
    BY DEF Safe
  <1> DEFINE Procs == procs' \in [Processes -> Process']
  <1>n. << >> \in [DOMAIN << >> -> Row] /\ DOMAIN << >> \subseteq DOMAIN rows
    OBVIOUS
  <1>1. ASSUME NEW p \in Processes, Exits(p) PROVE Procs
    BY <1>1, <1>t, <1>r, <1>n, ExitMoves, MovedType
  <1>2. ASSUME NEW p \in Processes,
               NEW pc \in {"off", "check", "alter", "list", "seal", "up",
                           "lookup", "insert", "update"},
               Goto(p, pc)
        PROVE  Procs
    <2>1. Moved(p, pc, procs[p].at, procs[p].found, procs[p].pending)
      BY <1>2, <1>t, GotoMoves
    <2>2. /\ procs[p].at \in Nat /\ procs[p].found \in Nat
          /\ DOMAIN procs[p].pending \subseteq DOMAIN rows
          /\ procs[p].pending \in [DOMAIN procs[p].pending -> Row]
      BY <1>t, ProcessIs
    <2> QED
      BY <1>t, <1>r, <2>1, <2>2, MovedType
  <1>3. ASSUME NEW p \in Processes, Proceeds(p) PROVE Procs
    <2> DEFINE pc == IF procs[p].at < Len(Migration) THEN "check"
                     ELSE IF p = "server" THEN "list" ELSE "lookup"
               at == IF procs[p].at = Len(Migration) THEN 1 ELSE procs[p].at + 1
    <2>1. Moved(p, pc, at, procs[p].found, procs[p].pending)
      BY <1>3, <1>t, ProceedMoves
    <2>2. /\ pc \in {"off", "check", "alter", "list", "seal", "up",
                     "lookup", "insert", "update"}
          /\ at \in Nat
      BY <1>t, ProcessIs
    <2> HIDE DEF pc, at
    <2> QED
      BY <1>t, <1>r, <2>1, <2>2, MovedType, ProcessIs
  <1>4. ASSUME NEW p \in Processes, Starts(p) PROVE TypeOK'
    <2>1. Procs
      BY <1>4, <1>t, <1>r, StartMoves, MovedType, ProcessIs
    <2> QED
      BY <1>4, <1>r, <1>t, <2>1 DEF TypeOK, Starts
  <1>5. ASSUME NEW p \in Processes, Step(p) PROVE TypeOK'
    <2>1. Procs
      BY <1>1, <1>2, <1>3, <1>5 DEF Step, Checks, Creates, Alters
    <2>2. schema' \subseteq SchemaParts
      <3>1. CASE Checks(p)
        BY <1>t, <3>1 DEF Checks, TypeOK
      <3>2. CASE Creates(p)
        <4>1. \/ schema' = schema
              \/ schema' \subseteq schema \cup Unchecked \cup {"token_hash"} \cup Columns
          BY <3>2 DEF Creates
        <4>2. Unchecked \cup {"token_hash"} \cup Columns \subseteq SchemaParts
          BY DEF Unchecked, Columns, SchemaParts
        <4> QED
          BY <1>t, <4>1, <4>2 DEF TypeOK
      <3>3. CASE Alters(p)
        <4>1. Migration[procs[p].at] \in SchemaParts
          <5>1. procs[p].at \in DOMAIN Migration
            BY <3>3 DEF Alters, At, Safe, Ahead
          <5> QED
            BY <5>1, MigrationIs
        <4>2. schema' \subseteq schema \cup {Migration[procs[p].at]}
          BY <3>3 DEF Alters
        <4> QED
          BY <1>t, <4>1, <4>2 DEF TypeOK
      <3> QED
        BY <1>5, <3>1, <3>2, <3>3 DEF Step
    <2>3. UNCHANGED <<adds, crashes, imports>>
      BY <1>5 DEF Step, Checks, Creates, Alters
    <2> QED
      BY <1>r, <1>t, <2>1, <2>2, <2>3 DEF TypeOK
  <1>6. ASSUME NEW p \in Processes, Crash(p) PROVE TypeOK'
    BY <1>1, <1>6, <1>r, <1>t DEF TypeOK, Crash
  <1>7. CASE ListsRows
    <2>1. rows \in [DOMAIN rows -> Row]
      BY <1>t DEF TypeOK
    <2>2. Procs
      BY <1>7, <1>p, <1>t, <1>r, <2>1, ListMoves, MovedType, ProcessIs
    <2> QED
      BY <1>7, <1>r, <1>t, <2>2 DEF TypeOK, ListsRows
  <1>8. ASSUME NEW id, SealsRow(id) PROVE TypeOK'
    <2>1. ASSUME Settles(id), At("server", "seal") PROVE Procs
      <3> DEFINE left == [i \in DOMAIN procs["server"].pending \ {id} |->
                            procs["server"].pending[i]]
      <3>1. DOMAIN left \subseteq DOMAIN rows /\ left \in [DOMAIN left -> Row]
        BY <1>p, <1>t, ProcessIs
      <3>2. Moved("server", "seal", procs["server"].at, procs["server"].found, left)
        BY <1>t, <2>1, SettleMoves
      <3> HIDE DEF left
      <3> QED
        BY <1>p, <1>t, <1>r, <3>1, <3>2, MovedType, ProcessIs
    <2>2. Procs
      BY <1>p, <1>1, <1>8, <2>1 DEF SealsRow
    <2> QED
      BY <1>8, <1>r, <1>t, <2>2 DEF TypeOK, SealsRow
  <1>9. CASE Serves
    BY <1>p, <1>2, <1>9, <1>r, <1>t DEF TypeOK, Serves
  <1>10. ASSUME NEW id, NEW token, Adds(id, token) PROVE TypeOK'
    <2>1. Procs
      <3>1. \A q \in Processes : procs[q] \in Process'
        <4> SUFFICES ASSUME NEW q \in Processes PROVE procs[q] \in Process'
          OBVIOUS
        <4>1. procs[q] \in Process
          BY <1>t DEF TypeOK
        <4>2. DOMAIN procs[q].pending \subseteq DOMAIN rows'
              /\ procs[q].pending \in [DOMAIN procs[q].pending -> Row]
          BY <1>t, <1>r, ProcessIs
        <4>3. procs[q].pending \in UNION {[s -> Row] : s \in SUBSET DOMAIN rows'}
          BY <4>2, PendingIs
        <4> QED
          BY <4>1, <4>3 DEF Process
      <3> QED
        BY <1>t, <1>10, <3>1 DEF Adds, TypeOK
    <2> QED
      BY <1>10, <1>r, <1>t, <2>1 DEF TypeOK, Adds
  <1>11. CASE LooksUp
    <2>1. Procs
      <3>1. ASSUME NEW i \in DOMAIN rows,
                   Moved("command", "update", procs["command"].at, i,
                         procs["command"].pending)
            PROVE  Procs
        <4>1. i \in Nat
          BY <1>t DEF TypeOK
        <4> QED
          BY <1>p, <1>t, <1>r, <3>1, <4>1, MovedType, ProcessIs
      <3>2. ASSUME Moved("command", "insert", procs["command"].at,
                         procs["command"].found, procs["command"].pending)
            PROVE  Procs
        BY <1>p, <1>t, <1>r, <3>2, MovedType, ProcessIs
      <3> QED
        BY <1>t, <1>11, <3>1, <3>2, CommandFoundMoves
    <2> QED
      BY <1>11, <1>r, <1>t, <2>1 DEF TypeOK, LooksUp
  <1>12. ASSUME NEW id, Upserts(id) PROVE TypeOK'
    <2>1. ASSUME NextImport PROVE Procs
      <3>1. Moved("command", "lookup", procs["command"].at + 1,
                  procs["command"].found, procs["command"].pending)
        BY <1>t, <2>1, NextMoves
      <3>2. /\ procs["command"].at + 1 \in Nat /\ procs["command"].found \in Nat
            /\ DOMAIN procs["command"].pending \subseteq DOMAIN rows
            /\ procs["command"].pending \in [DOMAIN procs["command"].pending -> Row]
        BY <1>p, <1>t, ProcessIs
      <3> QED
        BY <1>p, <1>t, <1>r, <3>1, <3>2, MovedType
    <2>2. Procs
      BY <1>p, <1>1, <1>12, <2>1 DEF Upserts
    <2> QED
      BY <1>12, <1>r, <1>t, <2>2 DEF TypeOK, Upserts
  <1>13. CASE Completes
    BY <1>p, <1>1, <1>13, <1>r, <1>t DEF TypeOK, Completes
  <1>14. CASE UNCHANGED vars
    BY <1>14, <1>t DEF TypeOK, vars, Process
  <1> QED
    BY <1>4, <1>5, <1>6, <1>7, <1>8, <1>9, <1>10, <1>11, <1>12, <1>13, <1>14
       DEF Next, Seals

\* No step undoes a part of the migration (schema.go:98-114: each is settled once
\* for all, whoever did it).
LEMMA SchemaStays ==
    ASSUME [Next]_vars, NEW part, Settled(part)
    PROVE  Settled(part)'
  <1>1. \/ schema' = schema
        \/ \E x : schema' = schema \ {x} /\ x \in Obsolete
        \/ \E s : schema' = schema \cup s /\ s \cap Obsolete = {}
    <2>1. ASSUME NEW p \in Processes, Creates(p)
          PROVE  schema' = schema \/ \E s : schema' = schema \cup s /\ s \cap Obsolete = {}
      <3> DEFINE x == Migration[procs[p].at]
                 s == {x} \cup (IF x \in schema THEN {}
                                ELSE IF x = "accounts" THEN {"token_hash"}
                                ELSE IF x = "conversations" THEN Columns ELSE {})
      <3>1. x \in Unchecked /\ (schema' = schema \/ schema' = schema \cup s)
        BY <2>1 DEF Creates
      <3>2. s \cap Obsolete = {}
        BY <3>1 DEF Unchecked, Obsolete, Columns
      <3> QED
        BY <3>1, <3>2
    <2>2. ASSUME NEW p \in Processes, Alters(p)
          PROVE  \/ schema' = schema
                 \/ \E x : schema' = schema \ {x} /\ x \in Obsolete
                 \/ \E s : schema' = schema \cup s /\ s \cap Obsolete = {}
      <3> DEFINE x == Migration[procs[p].at]
      <3>1. \/ schema' = schema
            \/ schema' = schema \ {x} /\ x \in Obsolete
            \/ schema' = schema \cup {x} /\ x \notin Obsolete
        BY <2>2 DEF Alters
      <3>2. x \notin Obsolete => {x} \cap Obsolete = {}
        OBVIOUS
      <3> QED
        BY <3>1, <3>2
    <2>3. ASSUME NEW p \in Processes, Starts(p) \/ Checks(p) \/ Crash(p)
          PROVE  schema' = schema
      BY <2>3 DEF Starts, Checks, Crash
    <2>4. CASE ListsRows \/ Serves \/ LooksUp \/ Completes \/ UNCHANGED vars
      BY <2>4 DEF ListsRows, Serves, LooksUp, Completes, vars
    <2>5. ASSUME NEW id, NEW token, SealsRow(id) \/ Adds(id, token) \/ Upserts(id)
          PROVE  schema' = schema
      BY <2>5 DEF SealsRow, Adds, Upserts
    <2> QED
      BY <2>1, <2>2, <2>3, <2>4, <2>5 DEF Next, Seals, Step
  <1> QED
    BY <1>1 DEF Settled

LEMMA AheadStep == Safe /\ [Next]_vars => Ahead'
  <1> SUFFICES ASSUME Safe, [Next]_vars, NEW q \in Processes
               PROVE  (/\ procs[q].pc \in {"check", "alter"} =>
                            /\ procs[q].at \in DOMAIN Migration
                            /\ \A j \in DOMAIN Migration :
                                j < procs[q].at => Settled(Migration[j])
                       /\ procs[q].pc \in {"list", "seal", "up", "lookup",
                                           "insert", "update"}
                            => Migrated)'
    BY DEF Ahead
  <1> DEFINE Goal == (/\ procs[q].pc \in {"check", "alter"} =>
                            /\ procs[q].at \in DOMAIN Migration
                            /\ \A j \in DOMAIN Migration :
                                j < procs[q].at => Settled(Migration[j])
                      /\ procs[q].pc \in {"list", "seal", "up", "lookup",
                                          "insert", "update"}
                            => Migrated)'
             Done == {"list", "seal", "up", "lookup", "insert", "update"}
  <1>p. "server" \in Processes /\ "command" \in Processes
    BY DEF Processes
  <1>t. TypeOK
    BY DEF Safe
  <1>s. \A j \in DOMAIN Migration : Settled(Migration[j]) => Settled(Migration[j])'
    BY SchemaStays
  <1>m. Migrated => Migrated'
    BY <1>s DEF Migrated
  <1>a. /\ procs[q].pc \in {"check", "alter"} =>
            /\ procs[q].at \in DOMAIN Migration
            /\ \A j \in DOMAIN Migration : j < procs[q].at => Settled(Migration[j])
        /\ procs[q].pc \in Done => Migrated
    BY DEF Safe, Ahead
  \* A process that stays where it is, or goes on after the migration.
  <1>1. ASSUME \/ procs'[q] = procs[q]
               \/ procs[q].pc \in Done /\ procs'[q].pc \in Done
               \/ procs'[q].pc = "off"
        PROVE  Goal
    BY <1>1, <1>a, <1>s, <1>m
  <1>2. ASSUME NEW p \in Processes, NEW pc, NEW at, NEW found, NEW pending,
               Moved(p, pc, at, found, pending),
               pc = "off" \/ (pc \in Done /\ procs[p].pc \in Done)
        PROVE  Goal
    BY <1>1, <1>2, <1>t, MovedIs
  <1>3. ASSUME NEW p \in Processes, Exits(p) PROVE Goal
    BY <1>2, <1>3, <1>t, ExitMoves
  <1>4. ASSUME NEW p \in Processes, Starts(p) PROVE Goal
    <2>1. Moved(p, "check", 1, procs[p].found, procs[p].pending)
      BY <1>4, <1>t, StartMoves
    <2>2. CASE p # q
      BY <1>1, <1>t, <2>1, <2>2, MovedIs
    <2>3. CASE p = q
      <3>1. procs'[q].pc = "check" /\ procs'[q].at = 1
        BY <1>t, <2>1, <2>3, MovedIs
      <3>2. 1 \in DOMAIN Migration /\ \A j \in DOMAIN Migration : ~(j < 1)
        BY MigrationIs
      <3> QED
        BY <3>1, <3>2
    <2> QED
      BY <2>2, <2>3
  <1>5. ASSUME NEW p \in Processes, Step(p) PROVE Goal
    <2>1. procs[p].pc \in {"check", "alter"}
      BY <1>5 DEF Step, Checks, Creates, Alters, At
    <2>2. CASE Exits(p)
      BY <1>3, <2>2
    <2>3. CASE Goto(p, "alter")
      <3>1. Moved(p, "alter", procs[p].at, procs[p].found, procs[p].pending)
        BY <1>t, <2>3, GotoMoves
      <3>2. CASE p # q
        BY <1>1, <1>t, <3>1, <3>2, MovedIs
      <3>3. CASE p = q
        <4>1. procs'[q].pc = "alter" /\ procs'[q].at = procs[q].at
          BY <1>t, <3>1, <3>3, MovedIs
        <4> QED
          BY <1>a, <1>s, <2>1, <3>3, <4>1
      <3> QED
        BY <3>2, <3>3
    <2>4. CASE Proceeds(p) /\ ~Exits(p) /\ ~Goto(p, "alter")
      <3>0. PICK k : k = procs[p].at
        OBVIOUS
      <3> DEFINE part == Migration[k]
                 pc == IF procs[p].at < Len(Migration) THEN "check"
                       ELSE IF p = "server" THEN "list" ELSE "lookup"
                 at == IF procs[p].at = Len(Migration) THEN 1 ELSE procs[p].at + 1
      <3>1. Moved(p, pc, at, procs[p].found, procs[p].pending)
        BY <1>t, <2>4, ProceedMoves
      <3>2. CASE p # q
        BY <1>1, <1>t, <3>1, <3>2, MovedIs
      <3>3. CASE p = q
        <4>1. procs'[q].pc = pc /\ procs'[q].at = at
          BY <1>t, <3>1, <3>3, MovedIs
        <4>2. Settled(part)'
          <5>1. CASE Checks(p)
            <6>1. Settled(part)
              BY <2>4, <3>0, <5>1 DEF Checks
            <6> QED
              BY <6>1, SchemaStays
          <5>2. CASE Creates(p)
            <6>1. part \in Unchecked /\ part \in schema'
              BY <2>4, <3>0, <5>2 DEF Creates
            <6> QED
              BY <6>1 DEF Settled, Unchecked, Obsolete
          <5>3. CASE Alters(p)
            <6>1. schema' = IF part \in Obsolete THEN schema \ {part}
                            ELSE schema \cup {part}
              BY <2>4, <3>0, <5>3 DEF Alters
            <6> QED
              BY <6>1 DEF Settled
          <5> QED
            BY <1>5, <5>1, <5>2, <5>3 DEF Step
        <4>3. /\ procs[q].at \in 1 .. 10
              /\ \A j \in DOMAIN Migration : j < procs[q].at => Settled(Migration[j])'
          BY <1>a, <1>s, <2>1, <3>3, MigrationIs
        <4>n. DOMAIN Migration = 1 .. 10 /\ Len(Migration) = 10
          BY MigrationIs
        <4>4. \A j \in DOMAIN Migration : j <= procs[q].at => Settled(Migration[j])'
          <5> SUFFICES ASSUME NEW j \in DOMAIN Migration, j <= procs[q].at
                       PROVE  Settled(Migration[j])'
            OBVIOUS
          <5>1. CASE j = procs[q].at
            BY <3>0, <3>3, <4>2, <5>1
          <5>2. CASE j < procs[q].at
            BY <4>3, <5>2
          <5> QED
            BY <4>3, <4>n, <5>1, <5>2
        <4>5. CASE procs[q].at < 10
          <5>1. procs'[q].pc = "check" /\ procs'[q].at = procs[q].at + 1
            BY <3>3, <4>1, <4>3, <4>5, <4>n
          <5>2. procs'[q].at \in DOMAIN Migration
            BY <4>3, <4>5, <4>n, <5>1
          <5>3. \A j \in DOMAIN Migration : j < procs'[q].at => Settled(Migration[j])'
            BY <4>3, <4>4, <4>n, <5>1
          <5>4. procs'[q].pc \notin Done
            BY <5>1
          <5> QED
            BY <5>2, <5>3, <5>4
        <4>6. CASE procs[q].at = 10
          <5>1. Migrated'
            BY <4>4, <4>6, <4>n DEF Migrated
          <5>2. procs'[q].pc \in {"list", "lookup"}
            BY <3>3, <4>1, <4>6, <4>n
          <5> QED
            BY <5>1, <5>2
        <4> HIDE DEF Goal
        <4> QED
          BY <4>3, <4>5, <4>6
      <3> HIDE DEF Goal
      <3> QED
        BY <3>2, <3>3
    <2> QED
      BY <1>5, <2>2, <2>3, <2>4 DEF Step, Checks, Creates, Alters
  <1>6. ASSUME NEW p \in Processes, Crash(p) PROVE Goal
    BY <1>3, <1>6 DEF Crash
  <1>7. CASE ListsRows
    BY <1>2, <1>7, <1>p, <1>t, ListMoves DEF ListsRows, At
  <1>8. ASSUME NEW id, SealsRow(id) PROVE Goal
    <2>1. ASSUME Settles(id), At("server", "seal") PROVE Goal
      BY <1>2, <1>p, <1>t, <2>1, SettleMoves DEF At
    <2> QED
      BY <1>3, <1>8, <1>p, <2>1 DEF SealsRow
  <1>9. CASE Serves
    BY <1>2, <1>9, <1>p, <1>t, GotoMoves DEF Serves, At
  <1>10. ASSUME NEW id, NEW token, Adds(id, token) PROVE Goal
    BY <1>1, <1>10 DEF Adds
  <1>11. CASE LooksUp
    <2>1. procs["command"].pc \in Done
      BY <1>11 DEF LooksUp, At
    <2> QED
      BY <1>2, <1>11, <1>p, <1>t, <2>1, CommandFoundMoves
  <1>12. ASSUME NEW id, Upserts(id) PROVE Goal
    <2>1. procs["command"].pc \in Done
      BY <1>12 DEF Upserts, At
    <2>2. ASSUME NextImport PROVE Goal
      BY <1>2, <1>p, <1>t, <2>1, <2>2, NextMoves
    <2> QED
      BY <1>3, <1>12, <1>p, <2>2 DEF Upserts
  <1>13. CASE Completes
    BY <1>3, <1>13, <1>p DEF Completes
  <1>14. CASE UNCHANGED vars
    BY <1>1, <1>14 DEF vars
  <1> QED
    BY <1>4, <1>5, <1>6, <1>7, <1>8, <1>9, <1>10, <1>11, <1>12, <1>13, <1>14
       DEF Next, Seals

\* What is in order stays in order.
LEMMA OrderStays ==
    ASSUME Safe, [Next]_vars
    PROVE  \A i \in DOMAIN rows : InOrder(i) => InOrder(i)'
  <1>1. Key' = Key
    <2>1. "server" \in Processes
      BY DEF Processes
    <2> QED
      BY <2>1, KeysStay DEF Key, Safe
  <1> QED
    BY <1>1, RowsStay DEF InOrder

LEMMA SealingStep == Safe /\ [Next]_vars => Sealing'
  <1> SUFFICES ASSUME Safe, [Next]_vars PROVE Sealing'
    OBVIOUS
  <1>t. TypeOK /\ Sealing
    BY DEF Safe
  <1>p. "server" \in Processes /\ "command" \in Processes
    BY DEF Processes
  <1>r. /\ DOMAIN rows \subseteq DOMAIN rows'
        /\ \A i \in DOMAIN rows : Token(i)' = Token(i)
        /\ \A i \in DOMAIN rows : InOrder(i) => InOrder(i)'
        /\ \A i \in DOMAIN rows' : \/ InOrder(i)'
                                   \/ i \in DOMAIN rows /\ rows'[i] = rows[i]
    BY RowsStay, OrderStays
  \* The server stays where it is, or is neither sealing nor up.
  <1>1. ASSUME procs'["server"] = procs["server"] PROVE Sealing'
    <2>1. ASSUME At("server", "seal")
          PROVE  (/\ \A i \in DOMAIN procs["server"].pending :
                        /\ i \in DOMAIN rows
                        /\ procs["server"].pending[i].stored.token = Token(i)
                  /\ \A i \in DOMAIN rows :
                        \/ InOrder(i)
                        \/ /\ i \in DOMAIN procs["server"].pending
                           /\ rows[i] = procs["server"].pending[i])'
      <3>1. /\ \A i \in DOMAIN procs["server"].pending :
                /\ i \in DOMAIN rows
                /\ procs["server"].pending[i].stored.token = Token(i)
            /\ \A i \in DOMAIN rows :
                \/ InOrder(i)
                \/ /\ i \in DOMAIN procs["server"].pending
                   /\ rows[i] = procs["server"].pending[i]
        BY <1>t, <2>1 DEF Sealing
      <3> QED
        BY <1>1, <1>r, <3>1
    <2>2. ASSUME At("server", "up") PROVE (\A i \in DOMAIN rows : InOrder(i))'
      BY <1>r, <1>t, <2>2 DEF Sealing, InOrder
    <2> QED
      BY <1>1, <2>1, <2>2 DEF Sealing, At
  <1>2. ASSUME procs'["server"].pc \notin {"seal", "up"} PROVE Sealing'
    BY <1>2 DEF Sealing, At
  <1>3. ASSUME NEW pc, NEW at, NEW found, NEW pending,
               Moved("command", pc, at, found, pending)
        PROVE  Sealing'
    BY <1>1, <1>3, <1>p, <1>t, MovedIs
  <1>4. ASSUME NEW p \in Processes, Exits(p) PROVE Sealing'
    <2>1. CASE p = "command"
      BY <1>3, <1>4, <1>p, <1>t, <2>1, ExitMoves
    <2>2. CASE p = "server"
      BY <1>2, <1>4, <1>p, <1>t, <2>2, ExitMoves, MovedIs
    <2> QED
      BY <2>1, <2>2 DEF Processes
  <1>5. ASSUME NEW p \in Processes, NEW pc \in {"check", "alter", "list", "lookup"},
               NEW at, NEW found, NEW pending, Moved(p, pc, at, found, pending)
        PROVE  Sealing'
    <2>1. CASE p = "command"
      BY <1>3, <1>5, <2>1
    <2>2. CASE p = "server"
      BY <1>2, <1>5, <1>p, <1>t, <2>2, MovedIs
    <2> QED
      BY <2>1, <2>2 DEF Processes
  <1>6. ASSUME NEW p \in Processes, Proceeds(p) PROVE Sealing'
    <2> DEFINE pc == IF procs[p].at < Len(Migration) THEN "check"
                     ELSE IF p = "server" THEN "list" ELSE "lookup"
               at == IF procs[p].at = Len(Migration) THEN 1 ELSE procs[p].at + 1
    <2>1. Moved(p, pc, at, procs[p].found, procs[p].pending)
      BY <1>6, <1>t, ProceedMoves
    <2>2. pc \in {"check", "alter", "list", "lookup"}
      OBVIOUS
    <2> HIDE DEF pc, at
    <2> QED
      BY <1>5, <2>1, <2>2
  <1>7. ASSUME NEW p \in Processes, Starts(p) PROVE Sealing'
    BY <1>5, <1>7, <1>t, StartMoves
  <1>8. ASSUME NEW p \in Processes, Step(p) PROVE Sealing'
    <2>1. Goto(p, "alter") => Sealing'
      BY <1>5, <1>t, GotoMoves
    <2> QED
      BY <1>4, <1>6, <1>8, <2>1 DEF Step, Checks, Creates, Alters
  <1>9. ASSUME NEW p \in Processes, Crash(p) PROVE Sealing'
    BY <1>4, <1>9 DEF Crash
  <1>10. CASE ListsRows
    <2>1. procs'["server"].pc = "seal" /\ procs'["server"].pending = rows
      BY <1>10, <1>p, <1>t, ListMoves, MovedIs
    <2>2. rows' = rows
      BY <1>10 DEF ListsRows
    <2> QED
      BY <1>r, <2>1, <2>2 DEF Sealing, At, Token
  <1>11. ASSUME NEW id \in Ids, SealsRow(id) PROVE Sealing'
    <2>1. CASE Exits("server")
      BY <1>4, <1>p, <2>1
    <2>2. CASE ~Exits("server")
      <3> DEFINE pending == procs["server"].pending
      <3>1. /\ At("server", "seal") /\ Settles(id)
            /\ id \in DOMAIN pending
            /\ \/ rows' = rows /\ pending[id] = Sealed(Key, pending[id].stored.token)
               \/ Put(id, Sealed(Key, pending[id].stored.token))
        BY <1>11, <2>2 DEF SealsRow, Key
      <3>2. /\ \A i \in DOMAIN pending :
                  i \in DOMAIN rows /\ pending[i].stored.token = Token(i)
            /\ \A i \in DOMAIN rows :
                  InOrder(i) \/ (i \in DOMAIN pending /\ rows[i] = pending[i])
        BY <1>t, <3>1 DEF Sealing
      <3>3. /\ procs'["server"].pc = "seal"
            /\ procs'["server"].pending = [i \in DOMAIN pending \ {id} |-> pending[i]]
        BY <1>p, <1>t, <3>1, SettleMoves, MovedIs
      <3>4. Key' = Key
        BY <1>p, <1>t, KeysStay DEF Key
      <3>5. InOrder(id)'
        <4>1. CASE rows' = rows /\ pending[id] = Sealed(Key, pending[id].stored.token)
          <5>1. rows[id] = Sealed(Key, Token(id))
            BY <3>1, <3>2, <4>1 DEF InOrder
          <5> QED
            BY <3>4, <4>1, <5>1 DEF InOrder, Token
        <4>2. CASE Put(id, Sealed(Key, pending[id].stored.token))
          <5>1. rows'[id] = Sealed(Key, Token(id)) /\ Token(id)' = Token(id)
            BY <1>r, <3>1, <3>2, <4>2 DEF Put
          <5> QED
            BY <3>4, <5>1 DEF InOrder
        <4> QED
          BY <3>1, <4>1, <4>2
      <3> HIDE DEF pending
      <3>6. \A i \in DOMAIN rows' :
                \/ InOrder(i)'
                \/ i \in DOMAIN procs'["server"].pending
                   /\ rows'[i] = procs'["server"].pending[i]
        BY <1>r, <3>2, <3>3, <3>5
      <3>7. \A i \in DOMAIN procs'["server"].pending :
                /\ i \in DOMAIN rows'
                /\ procs'["server"].pending[i].stored.token = Token(i)'
        BY <1>r, <3>2, <3>3
      <3> QED
        BY <3>3, <3>6, <3>7 DEF Sealing, At
    <2> QED
      BY <2>1, <2>2
  <1>12. CASE Serves
    <2>1. /\ At("server", "seal") /\ procs["server"].pending = << >>
          /\ rows' = rows
      BY <1>12 DEF Serves
    <2>2. \A i \in DOMAIN rows : InOrder(i)
      BY <1>t, <2>1 DEF Sealing
    <2>3. procs'["server"].pc = "up"
      BY <1>12, <1>p, <1>t, GotoMoves, MovedIs DEF Serves
    <2> QED
      BY <1>r, <2>1, <2>2, <2>3 DEF Sealing, At
  <1>13. ASSUME NEW id, NEW token, Adds(id, token) PROVE Sealing'
    BY <1>1, <1>13 DEF Adds
  <1>14. CASE LooksUp
    BY <1>3, <1>14, <1>t, CommandFoundMoves
  <1>15. ASSUME NEW id, Upserts(id) PROVE Sealing'
    <2>1. NextImport => Sealing'
      BY <1>3, <1>t, NextMoves
    <2> QED
      BY <1>4, <1>15, <1>p, <2>1 DEF Upserts
  <1>16. CASE Completes
    BY <1>4, <1>16, <1>p DEF Completes
  <1>17. CASE UNCHANGED vars
    BY <1>1, <1>17 DEF vars
  <1> QED
    BY <1>7, <1>8, <1>9, <1>10, <1>11, <1>12, <1>13, <1>14, <1>15, <1>16, <1>17
       DEF Next, Seals

LEMMA ImportingStep == Safe /\ [Next]_vars => Importing'
  <1> SUFFICES ASSUME Safe, [Next]_vars PROVE Importing'
    OBVIOUS
  <1>t. TypeOK /\ Importing
    BY DEF Safe
  <1>p. "server" \in Processes /\ "command" \in Processes
    BY DEF Processes
  <1>k. Key' = Key /\ procs["command"].key = Key
        /\ procs'["command"].key = procs["command"].key
    BY <1>p, <1>t, KeysStay DEF Key, Safe, Table
  <1>1. ASSUME procs'["command"] = procs["command"] PROVE Importing'
    <2>1. ASSUME At("command", "update")
          PROVE  /\ procs["command"].found \in DOMAIN rows'
                 /\ rows'[procs["command"].found] = ImportRow
      <3>1. /\ procs["command"].found \in DOMAIN rows
            /\ rows[procs["command"].found] = ImportRow
        BY <1>t, <2>1 DEF Importing
      <3>2. InOrder(procs["command"].found)
        BY <1>k, <3>1 DEF InOrder, Token, ImportRow, Sealed
      <3> QED
        BY <3>1, <3>2, RowsStay
    <2>2. ImportRow' = ImportRow
      BY <1>1 DEF ImportRow, Import
    <2> QED
      BY <1>1, <1>t, <2>1, <2>2 DEF Importing, At
  <1>2. ASSUME procs'["command"].pc \notin {"lookup", "insert", "update"}
        PROVE  Importing'
    BY <1>2 DEF Importing, At
  <1>3. ASSUME NEW pc, NEW at, NEW found, NEW pending,
               Moved("server", pc, at, found, pending)
        PROVE  Importing'
    BY <1>1, <1>3, <1>p, <1>t, MovedIs
  <1>4. ASSUME NEW p \in Processes, Exits(p) PROVE Importing'
    <2>1. CASE p = "server"
      BY <1>3, <1>4, <1>p, <1>t, <2>1, ExitMoves
    <2>2. CASE p = "command"
      BY <1>2, <1>4, <1>p, <1>t, <2>2, ExitMoves, MovedIs
    <2> QED
      BY <2>1, <2>2 DEF Processes
  <1>5. ASSUME NEW p \in Processes, Starts(p) \/ Goto(p, "alter") PROVE Importing'
    <2>0. \E at, pc : /\ pc \in {"check", "alter"}
                      /\ Moved(p, pc, at, procs[p].found, procs[p].pending)
      BY <1>5, <1>t, StartMoves, GotoMoves
    <2>1. CASE p = "server"
      BY <1>3, <2>0, <2>1
    <2>2. CASE p = "command"
      BY <1>2, <1>p, <1>t, <2>0, <2>2, MovedIs
    <2> QED
      BY <2>1, <2>2 DEF Processes
  <1>6. ASSUME NEW p \in Processes, Proceeds(p) PROVE Importing'
    <2> DEFINE pc == IF procs[p].at < Len(Migration) THEN "check"
                     ELSE IF p = "server" THEN "list" ELSE "lookup"
               at == IF procs[p].at = Len(Migration) THEN 1 ELSE procs[p].at + 1
    <2>1. Moved(p, pc, at, procs[p].found, procs[p].pending)
      BY <1>6, <1>t, ProceedMoves
    <2>2. CASE p = "server"
      BY <1>3, <2>1, <2>2
    <2>3. CASE p = "command"
      <3>1. procs'["command"].pc = pc /\ procs'["command"].at = at
        BY <1>t, <2>1, <2>3, MovedIs
      <3>2. pc \in {"check", "lookup"} /\ (pc = "lookup" => at >= 1)
        <4>1. procs[p].at \in Nat
          BY <1>t, ProcessIs
        <4> QED
          BY <2>3, <4>1
      <3> HIDE DEF pc, at
      <3> QED
        BY <3>1, <3>2 DEF Importing, At
    <2> QED
      BY <2>2, <2>3 DEF Processes
  <1>7. ASSUME NEW p \in Processes, Step(p) PROVE Importing'
    BY <1>4, <1>5, <1>6, <1>7 DEF Step, Checks, Creates, Alters
  <1>8. ASSUME NEW p \in Processes, Crash(p) PROVE Importing'
    BY <1>4, <1>8 DEF Crash
  <1>9. CASE ListsRows
    BY <1>3, <1>9, <1>t, ListMoves
  <1>10. ASSUME NEW id, SealsRow(id) PROVE Importing'
    <2>1. Settles(id) /\ At("server", "seal") => Importing'
      BY <1>3, <1>t, SettleMoves
    <2> QED
      BY <1>4, <1>10, <1>p, <2>1 DEF SealsRow
  <1>11. CASE Serves
    BY <1>3, <1>11, <1>p, <1>t, GotoMoves DEF Serves
  <1>12. ASSUME NEW id, NEW token, Adds(id, token) PROVE Importing'
    BY <1>1, <1>12 DEF Adds
  <1>13. CASE LooksUp
    <2>1. procs["command"].at \in DOMAIN Imports
      <3>1. procs["command"].at >= 1 /\ procs["command"].at <= Len(Imports)
            /\ procs["command"].at \in Nat
        BY <1>13, <1>p, <1>t, ProcessIs DEF LooksUp, Importing
      <3> QED
        BY <3>1, TokensAssumption
    <2>2. ASSUME NEW i \in DOMAIN rows, rows[i].hash = ImportRow.hash,
                 Moved("command", "update", procs["command"].at, i,
                       procs["command"].pending)
          PROVE  Importing'
      <3>1. /\ procs'["command"].pc = "update" /\ procs'["command"].found = i
            /\ procs'["command"].at = procs["command"].at
        BY <1>p, <1>t, <2>2, MovedIs
      <3>2. rows' = rows
        BY <1>13 DEF LooksUp
      <3>3. rows[i] = ImportRow
        <4>1. ImportRow = Sealed(Key, Import) /\ ImportRow.hash = <<Key, Import>>
          BY <1>k DEF ImportRow, Sealed, Hash
        <4>2. Key \in Keys /\ Import \in Tokens
          BY <1>p, <1>t, <2>1, ProcessIs, TokensAssumption DEF Key, Import
        <4>3. rows[i].hash # NoHash
          BY <2>2, <4>1, <4>2, TokensAssumption
        <4>4. \/ rows[i] = Plain(Token(i))
              \/ \E k : rows[i] = Sealed(k, Token(i))
          BY DEF Safe, Table, InOrder
        <4>5. PICK k : rows[i] = Sealed(k, Token(i))
          BY <4>3, <4>4 DEF Plain
        <4>6. k = Key /\ Token(i) = Import
          BY <2>2, <4>1, <4>5 DEF Sealed, Hash
        <4> QED
          BY <4>1, <4>5, <4>6
      <3>4. ImportRow' = ImportRow
        BY <1>k, <3>1 DEF ImportRow, Import
      <3> QED
        BY <2>1, <3>1, <3>2, <3>3, <3>4 DEF Importing, At
    <2>3. ASSUME Moved("command", "insert", procs["command"].at,
                       procs["command"].found, procs["command"].pending)
          PROVE  Importing'
      <3>1. /\ procs'["command"].pc = "insert"
            /\ procs'["command"].at = procs["command"].at
        BY <1>p, <1>t, <2>3, MovedIs
      <3> QED
        BY <2>1, <3>1 DEF Importing, At
    <2> QED
      BY <1>13, <1>t, <2>2, <2>3, CommandFoundMoves
  <1>14. ASSUME NEW id, Upserts(id) PROVE Importing'
    <2>1. ASSUME NextImport PROVE Importing'
      <3>1. /\ procs'["command"].pc = "lookup"
            /\ procs'["command"].at = procs["command"].at + 1
        BY <1>p, <1>t, <2>1, NextMoves, MovedIs
      <3>2. procs["command"].at \in Nat
        BY <1>p, <1>t, ProcessIs
      <3> QED
        BY <3>1, <3>2 DEF Importing, At
    <2> QED
      BY <1>4, <1>14, <1>p, <2>1 DEF Upserts
  <1>15. CASE Completes
    BY <1>4, <1>15, <1>p DEF Completes
  <1>16. CASE UNCHANGED vars
    BY <1>1, <1>16 DEF vars
  <1> QED
    BY <1>5, <1>7, <1>8, <1>9, <1>10, <1>11, <1>12, <1>13, <1>14, <1>15, <1>16
       DEF Next, Seals

LEMMA SafeAlways == Spec => []Safe
  <1>1. Safe /\ [Next]_vars => Safe'
    BY TypeStep, RowsStay, AheadStep, SealingStep, ImportingStep DEF Safe
  <1> QED
    BY InitSafe, <1>1, PTL DEF Spec

-----------------------------------------------------------------------------
(* The theorems.                                                           *)

\* The schema has the parts it may have, rows and processes keep their types.
THEOREM StartTypeCorrect == Spec => []TypeOK
  BY SafeAlways, PTL DEF Safe

\* A server that serves has the whole schema, and a row it can open and find for
\* every token that was ever stored, whatever died on the way
\* (schema.go:98-114; pool.go:71-128; app.go:49-68).
THEOREM StartServesEveryToken == Spec => []ServesEveryToken
  <1>1. Safe => ServesEveryToken
    <2> SUFFICES ASSUME Safe, At("server", "up")
                 PROVE  /\ Migrated
                        /\ \A t \in kept : \E i \in DOMAIN rows :
                            rows[i] = Sealed(procs["server"].key, t)
                        /\ \A i \in DOMAIN rows :
                            rows[i] = Sealed(procs["server"].key, rows[i].stored.token)
      BY DEF ServesEveryToken
    <2>1. Migrated
      BY DEF Safe, Ahead, At, Processes
    <2>2. \A i \in DOMAIN rows : rows[i] = Sealed(procs["server"].key, Token(i))
      BY DEF Safe, Sealing, InOrder, Key
    <2>3. \A t \in kept : \E i \in DOMAIN rows : t = Token(i)
      BY DEF Safe, Table
    <2> QED
      BY <2>1, <2>2, <2>3 DEF Token
  <1> QED
    BY SafeAlways, <1>1, PTL

\* accounts.json has no token that an older version stored in a way that the
\* present key does not find: of the initial state, and of every later one.
NoneOldImported ==
    \A i \in DOMAIN rows :
        InOrder(i) \/ \A j \in DOMAIN Imports : Imports[j] # Token(i)

LEMMA OnceStep ==
    Safe /\ Safe' /\ OncePerToken /\ NoneOldImported /\ [Next]_vars
        => OncePerToken' /\ NoneOldImported'
  <1> SUFFICES ASSUME Safe, Safe', OncePerToken, NoneOldImported, [Next]_vars
               PROVE  OncePerToken' /\ NoneOldImported'
    OBVIOUS
  <1>r. /\ DOMAIN rows \subseteq DOMAIN rows'
        /\ \A i \in DOMAIN rows : Token(i)' = Token(i)
        /\ \A i \in DOMAIN rows : InOrder(i) => InOrder(i)'
        /\ \A i \in DOMAIN rows' : \/ InOrder(i)'
                                   \/ i \in DOMAIN rows /\ rows'[i] = rows[i]
    BY RowsStay, OrderStays
  <1>o. \A i, j \in DOMAIN rows : Token(i) = Token(j) => i = j
    BY DEF OncePerToken, Token
  <1>1. NoneOldImported'
    BY <1>r DEF NoneOldImported
  \* No row is added for a token that has one.
  <1>2. ASSUME NEW id, NEW token, Wrote(id, token),
               \A i \in DOMAIN rows : id \notin DOMAIN rows => Token(i) # token
        PROVE  OncePerToken'
    <2>1. /\ DOMAIN rows' = DOMAIN rows \cup {id}
          /\ Token(id)' = token
      BY <1>2 DEF Wrote, Put, Token, Sealed
    <2>2. \A i, j \in DOMAIN rows' : Token(i)' = Token(j)' => i = j
      BY <1>2, <1>o, <1>r, <2>1 DEF Wrote
    <2> QED
      BY <2>2 DEF OncePerToken, Token
  <1>3. ASSUME rows' = rows PROVE OncePerToken'
    BY <1>3 DEF OncePerToken
  <1>4. ASSUME NEW p \in Processes, Starts(p) \/ Step(p) \/ Crash(p)
        PROVE  OncePerToken'
    <2>1. rows' = rows
      BY <1>4 DEF Starts, Step, Checks, Creates, Alters, Crash
    <2> QED
      BY <1>3, <2>1
  <1>5. ASSUME ListsRows \/ Serves \/ LooksUp \/ Completes \/ UNCHANGED vars
        PROVE  OncePerToken'
    <2>1. rows' = rows
      <3>1. CASE UNCHANGED vars
        BY <3>1 DEF vars
      <3> QED
        BY <1>5, <3>1 DEF ListsRows, Serves, LooksUp, Completes
    <2> QED
      BY <1>3, <2>1
  <1>6. ASSUME NEW id \in Ids, SealsRow(id) PROVE OncePerToken'
    <2>1. CASE rows' = rows
      BY <1>3, <2>1
    <2>2. CASE rows' # rows
      <3>1. Wrote(id, Token(id)) /\ id \in DOMAIN rows
        BY <1>6, <2>2, SealsRowWrites
      <3>2. PICK token : token = Token(id)
        OBVIOUS
      <3> QED
        BY <1>2, <3>1, <3>2
    <2> QED
      BY <2>1, <2>2
  <1>7. ASSUME NEW id \in Ids, NEW token \in Tokens, Adds(id, token)
        PROVE  OncePerToken'
    <2>1. /\ At("server", "up")
          /\ \A i \in DOMAIN rows : rows[i].hash # Hash(Key, token)
      BY <1>7 DEF Adds, Sealed, Key
    <2>2. \A i \in DOMAIN rows : rows[i].hash = Hash(Key, Token(i))
      BY <2>1 DEF Safe, Sealing, InOrder, Sealed
    <2>3. \A i \in DOMAIN rows : Token(i) # token
      BY <2>1, <2>2
    <2> QED
      BY <1>2, <1>7, <2>3, AddsWrites
  <1>8. ASSUME NEW id \in Ids, Upserts(id) PROVE OncePerToken'
    <2>1. CASE rows' = rows
      BY <1>3, <2>1
    <2>2. CASE rows' # rows
      <3>1. Wrote(id, Import)
        BY <1>8, <2>2, UpsertsWrites
      <3>2. ASSUME id \notin DOMAIN rows, NEW i \in DOMAIN rows, Token(i) = Import
            PROVE  FALSE
        <4>1. /\ procs["command"].pc \in {"insert", "update"}
              /\ ~Conflicts(id, ImportRow.hash)
          BY <1>8, <2>2 DEF Upserts, At
        <4>2. "hash index" \in schema
          <5>1. Migrated
            BY <4>1 DEF Safe, Ahead, Processes
          <5>2. 6 \in DOMAIN Migration
            BY MigrationIs
          <5>3. Settled("hash index")
            BY <5>1, <5>2, MigrationIndexes DEF Migrated
          <5> QED
            BY <5>3 DEF Settled, Obsolete
        <4>3. rows[i].hash # ImportRow.hash
          BY <3>2, <4>1, <4>2 DEF Conflicts
        <4>4. \E j \in DOMAIN Imports : Imports[j] = Token(i)
          BY <3>2, <4>1 DEF Import, Safe, Importing
        <4>5. InOrder(i)
          BY <4>4 DEF NoneOldImported
        <4> QED
          BY <3>2, <4>3, <4>5 DEF InOrder, ImportRow, Sealed, Safe, Table
      <3> QED
        BY <1>2, <3>1, <3>2
    <2> QED
      BY <2>1, <2>2
  <1> QED
    BY <1>1, <1>3, <1>4, <1>5, <1>6, <1>7, <1>8 DEF Next, Seals

\* No two accounts have one token, whatever the server and the command do
\* between each other's statements, if accounts.json has no token that an older
\* version stored in the clear or with another key
\* (pool.go:178-191, 280-325; schema.go:181-183).
THEOREM StartOncePerToken == Spec /\ NoneOldImported => []OncePerToken
  <1>1. Init => OncePerToken
    BY DEF Init, OncePerToken
  <1> QED
    BY SafeAlways, OnceStep, <1>1, PTL DEF Spec
=============================================================================
