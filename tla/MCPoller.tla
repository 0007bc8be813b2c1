------------------------------ MODULE MCPoller ------------------------------
(* Constants for the model checking of Poller. *)
EXTENDS Poller

Polling   == [use_streaming |-> FALSE, req_not_unlocked |-> TRUE,
              suspend |-> 2, suspend_after_idle |-> 2]
Streaming == [use_streaming |-> TRUE, req_not_unlocked |-> FALSE,
              suspend |-> 2, suspend_after_idle |-> 2]

BothModes == {Polling, Streaming}

Read(charging, driving, blocks) ==
  [charging |-> charging, driving |-> driving, blocks |-> blocks]

\* Parked and free to sleep, driving, charging, and parked but kept awake.
MCReadings ==
  {Read(FALSE, FALSE, {}), Read(FALSE, TRUE, {"UserPresent"}),
   Read(TRUE, FALSE, {}), Read(FALSE, FALSE, {"Unlocked"}),
   Read(FALSE, FALSE, {"Sentry", "Unlocked"})}
=============================================================================
