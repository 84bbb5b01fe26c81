--------------------------- MODULE MCStoredTokens ---------------------------
\* Start-up on a small instance.
EXTENDS StoredTokens

CONSTANTS old1, old2, new

\* The first schema (with refresh_token and device_id, tokens in the clear and
\* unique), one that had lost the two columns, and the present one without its
\* latest column.
MCOldSchemas == {{"accounts", "unique token", "refresh_token", "device_id"},
                 {"accounts", "unique token", "conversations"},
                 {"accounts", "token_hash", "hash index", "conversations",
                  "upstream ids", "account_id"}}
MCNew == <<new, new>>
=============================================================================
