---------------------------- MODULE CoalescedWork ----------------------------
(***************************************************************************)
(* What a coalescing worker promises.  Requests are only counted: a run of *)
(* the worker serves every request made before it, and the worker rests    *)
(* only when none is left.                                                 *)
(***************************************************************************)
EXTENDS Naturals

VARIABLES
  made,    \* requests made
  served,  \* requests that a run has begun after
  busy     \* the worker has work

vars == <<made, served, busy>>

Init == made = 0 /\ served = 0 /\ busy = FALSE

Request == made' = made + 1 /\ busy' = TRUE /\ UNCHANGED served
Serve   == busy /\ served' = made /\ UNCHANGED <<made, busy>>
Rest    == busy /\ served = made /\ busy' = FALSE /\ UNCHANGED <<made, served>>

Next == Request \/ Serve \/ Rest

Spec == Init /\ [][Next]_vars /\ WF_vars(Serve) /\ WF_vars(Rest)
=============================================================================
