----------------------------- MODULE MCPricing -----------------------------
\* Two charges near each other; both are near enough to the first invoice.
EXTENDS Pricing
CONSTANTS i1, i2, c1, c2
MCDistance == [i \in Invoices |-> IF i = i1 THEN [c \in Charges |-> IF c = c1 THEN 1 ELSE 2]
                                            ELSE [c \in Charges |-> IF c = c1 THEN 3 ELSE 1]]
=============================================================================
