---------------------------- MODULE AccountTable ----------------------------
(***************************************************************************)
(* The rows of the SQLite table "accounts" and what each statement of      *)
(* internal/accounts/pool.go does to them, as operators on the table.      *)
(*                                                                         *)
(* A table is a function from the ids in use to rows.  A row keeps what    *)
(* the pool's decisions look at: the access token, the two columns that    *)
(* say "disabled", and whether invalid_at is set.  Every operation of the  *)
(* pool runs under store.DB.mu, so one operator is one atomic step of the  *)
(* modules that use it.                                                    *)
(***************************************************************************)
EXTENDS Naturals

CONSTANT Tokens             \* access tokens (trimmed, never empty)

\* The text of the status column: "disabled" stands for the one text the pool
\* gives a meaning to, "normal" for its default, "" for a field left blank.
StatusInputs == {"", "normal", "disabled"}
Statuses == StatusInputs \ {""}

AccountRow ==
    [token : Tokens, disabled : BOOLEAN, status : Statuses, invalid : BOOLEAN]

\* Mutant of Normalized: the two columns are stored as they came.
NormalizedApart(token, status, disabled, invalid) ==
    [token    |-> token,
     disabled |-> disabled,
     status   |-> IF status = "" THEN "normal" ELSE status,
     invalid  |-> disabled /\ invalid]

\* What a write stores: either way of saying "disabled" sets both columns, and
\* an account that is enabled is not marked invalid.
Normalized(token, status, disabled, invalid) ==
    LET off == disabled \/ status = "disabled"
    IN  [token    |-> token,
         disabled |-> off,
         status   |-> IF off THEN "disabled"
                      ELSE IF status = "" THEN "normal" ELSE status,
         invalid  |-> off /\ invalid]

Holders(table, token) == {i \in DOMAIN table : table[i].token = token}

TokenTaken(table, token, exceptId) ==
    Holders(table, token) \ {exceptId} # {}

Available(row) == ~row.disabled /\ row.status # "disabled"

\* The rows the three ways of picking an account choose from.  The caller has
\* already tried the tokens in excluded.
Pickable(table, excluded) ==
    {i \in DOMAIN table : Available(table[i]) /\ table[i].token \notin excluded}

PickableByToken(table, token, excluded) ==
    Pickable(table, excluded) \cap Holders(table, token)

PickableById(table, id, excluded) ==
    Pickable(table, excluded) \cap {id}

Inserted(table, id, row) ==
    [i \in DOMAIN table \cup {id} |-> IF i = id THEN row ELSE table[i]]

Without(table, id) == [i \in DOMAIN table \ {id} |-> table[i]]

\* UPDATE accounts SET disabled = 1, status = '...', invalid_at = now
\* WHERE token_hash = ?
Invalidated(table, token) ==
    [i \in DOMAIN table |->
        IF table[i].token = token
        THEN [table[i] EXCEPT !.disabled = TRUE,
                              !.status = "disabled",
                              !.invalid = TRUE]
        ELSE table[i]]
=============================================================================
