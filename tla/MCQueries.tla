----------------------------- MODULE MCQueries -----------------------------
\* Two connections of one user and one of another.
EXTENDS Queries
MCUserOf == [r \in Requests |-> IF r = "b" THEN "guest" ELSE "admin"]
=============================================================================
