-------------------------- MODULE MCConversations --------------------------
\* The conversation handlers on a small instance.
EXTENDS Conversations, TLC

CONSTANTS t1, t2, hello, parent, account

MCTitles == {t1, t2}
MCContents == {hello}
MCHeading == (hello :> t2)
MCFields == {"account_id", "upstream_conversation_id"}

\* A hang-up writes all the columns, a client of the API one of them.
MCUpdates == {[f \in {"account_id"} |-> account],
              [f \in MCFields |-> IF f = "account_id" THEN NoUpstream ELSE parent]}

Interchangeable == Permutations(Requests)
=============================================================================
