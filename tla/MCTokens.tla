------------------------------ MODULE MCTokens ------------------------------
\* The logger and the invoices task of one process, and a command in another.
EXTENDS Tokens
MCProcessOf == [t \in Tasks |-> IF t = "command" THEN "shell" ELSE "serve"]
MCCars == <<"car1", "car2">>
=============================================================================
