----------------------------- MODULE MCSessions -----------------------------
(* Constants for the model checking of Sessions. *)
EXTENDS Sessions

\* What a reading without a range does to the tables, one whose refresh fails
\* does too.
WithRange == {TRUE}
=============================================================================
