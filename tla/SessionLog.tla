----------------------------- MODULE SessionLog -----------------------------
(***************************************************************************)
(* What the logger promises of the sessions of a car, its drives and its   *)
(* charges.  One is open at most.  It is discarded, or it ends and enters  *)
(* the history with its bounds; what is in the history stays there as it   *)
(* is, and its session never opens again.                                  *)
(***************************************************************************)
EXTENDS Integers

VARIABLES
  open,   \* the session that is open, <<kind, id>>, if there is one
  ended   \* those that have ended, <<kind, id, start, end>>

vars == <<open, ended>>

Session(e) == <<e[1], e[2]>>

Init == ended = {} /\ \A s, t \in open : s = t

Begin   == /\ open = {}
           /\ \E s \in open' : open' = {s} /\ \A e \in ended : Session(e) # s
           /\ UNCHANGED ended
End     == /\ \E e \in ended' : /\ open = {Session(e)} /\ e[3] <= e[4]
                                /\ ended' = ended \cup {e}
           /\ open' = {}
Discard == open # {} /\ open' = {} /\ UNCHANGED ended

Next == Begin \/ End \/ Discard

Spec == Init /\ [][Next]_vars
=============================================================================
