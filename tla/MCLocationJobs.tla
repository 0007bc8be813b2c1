--------------------------- MODULE MCLocationJobs ---------------------------
(* Constants for the model checking of LocationJobs. *)
EXTENDS LocationJobs

CONSTANTS a1, a2
TwoAdmins == {a1, a2}
=============================================================================
