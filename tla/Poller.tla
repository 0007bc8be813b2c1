------------------------------- MODULE Poller -------------------------------
(***************************************************************************)
(* One car in the logger loop of src/logger.rs: its Tracked entry (phase   *)
(* and next_poll) and the steps of poll_car and fetch_vehicle_data.  Every *)
(* await of the code is a step boundary: a call to Tesla is begun by one   *)
(* action and answered by another, and time passes in between.  Tesla's    *)
(* answers are arbitrary.  What the poll writes to the database is the     *)
(* subject of other modules.                                               *)
(***************************************************************************)
EXTENDS SleepPolicy

CONSTANTS
  CarSettings,    \* the rows car_settings may hold for this car
  Readings,       \* the vehicle_data answers that are considered
  RetryAfters,    \* the waits a 429 answer may ask for
  RateLimitMax,   \* RATE_LIMIT_MAX: longer ones are cut to this (1 h)
  NormalSecs,     \* poll_secs, the wait after a failed poll
  CallSecs,       \* a call to the Owner API is answered or fails within this
  ProbeSecs,      \* probe_timeout
  StreamIdle,     \* STREAM_IDLE (90 s)
  StreamPatience, \* a stream that never showed motion is left after this (20 s)
  Lateness,       \* a due car waits at most this long for its turn in the loop,
                  \* while no other car of it streams a drive
  MaxTime         \* bound on the clock

ASSUME PollerAssumption ==
  /\ CarSettings \subseteq Settings /\ CarSettings # {}
  /\ Readings \subseteq Reading
  /\ RetryAfters \subseteq Positive
  /\ {RateLimitMax, NormalSecs, CallSecs, ProbeSecs, StreamIdle,
      StreamPatience} \subseteq Positive
  /\ {Lateness, MaxTime} \subseteq Nat

VARIABLES
  now,
  settings,     \* the car's row of car_settings
  phase,        \* tracked[car].phase
  next_poll,    \* tracked[car].next_poll
  pc,           \* the await the logger is in, "waiting" between polls
  cfg,          \* car.cfg, read by load_cars when the round began
  state,        \* the state in the summary of this poll, None before it
  purpose,      \* the purpose of the running probe
  started,      \* when the running call, or the silence of the stream, began
  opened,       \* when the drive stream was opened
  saw_driving,  \* the drive stream has shown motion
  out,          \* phase_out of fetch_vehicle_data while it streams
  \* Observations, which no action reads:
  heard_at,     \* the last time the car or the API explained itself (below)
  busy_at,      \* the last reading or row that showed the car in use
  parked_since  \* first of an unbroken run of readings of a car that may sleep

tracked  == <<phase, next_poll>>
locals   == <<cfg, state, purpose, started, opened, saw_driving, out>>
observed == <<heard_at, busy_at, parked_since>>
vars     == <<now, settings, tracked, pc, locals, observed>>

PC == {"waiting", "summary", "probe", "fetch", "connect", "stream"}

TypeOK ==
  /\ now \in Time
  /\ settings \in CarSettings
  /\ phase \in Phase
  /\ phase.at \in {"Checking", "Awake", "Suspended"} => phase.since \in 0..now
  /\ next_poll \in Time
  /\ pc \in PC
  /\ cfg \in {config_for(s) : s \in CarSettings}
  /\ state \in SummaryState \cup {None}
  /\ purpose \in {"Wake", "Suspend"}
  /\ started \in 0..now
  /\ opened \in 0..now
  /\ saw_driving \in BOOLEAN
  /\ out \in Phase
  /\ pc \in {"connect", "stream"} => out \in {Awake(t) : t \in 0..now}
  /\ heard_at \in 0..now
  /\ busy_at \in 0..now
  /\ parked_since \in 0..now \cup {None}

Init ==
  /\ now \in 0..StreamIdle     \* the age of the clock when the process starts
  /\ settings \in CarSettings
  /\ phase = Startup
  /\ next_poll = now
  /\ pc = "waiting"
  /\ cfg = config_for(settings)
  /\ state = None
  /\ purpose = "Wake"
  /\ started = 0
  /\ opened = 0
  /\ saw_driving = FALSE
  /\ out = Startup
  /\ heard_at = now
  /\ busy_at = now
  /\ parked_since = None

-----------------------------------------------------------------------------
\* poll_car returned, and its locals with it.
Returned ==
  /\ pc' = "waiting"
  /\ state' = None
  /\ purpose' = "Wake"
  /\ started' = 0
  /\ opened' = 0
  /\ saw_driving' = FALSE
  /\ out' = Startup
  /\ UNCHANGED cfg

\* poll_car returned Ok((next, wait)).
Done(next, wait) ==
  /\ Returned
  /\ phase' = next
  /\ next_poll' = now + wait

\* The car is observed, or silence is explained: the idle run is broken.
Explained ==
  /\ heard_at' = now
  /\ parked_since' = None

\* poll_car returned Err: the phase is kept.
rate_limited_for(asked) == IF asked <= RateLimitMax THEN asked ELSE RateLimitMax
ErrWaits == {NormalSecs} \cup
            {Larger(rate_limited_for(asked), NormalSecs) : asked \in RetryAfters}
Failed ==
  /\ Returned
  /\ \E wait \in ErrWaits : next_poll' = now + wait
  /\ Explained
  /\ UNCHANGED <<now, settings, phase, busy_at>>

BeginFetch ==
  /\ pc' = "fetch"
  /\ started' = now

-----------------------------------------------------------------------------
\* The loop reaches the car after next_poll and asks for its summary.
BeginPoll ==
  /\ pc = "waiting"
  /\ next_poll <= now
  /\ pc' = "summary"
  /\ cfg' = config_for(settings)
  /\ state' = None
  /\ started' = now
  /\ UNCHANGED <<now, settings, tracked, purpose, opened, saw_driving, out, observed>>

SummaryFails == pc = "summary" /\ Failed

Summary(answer) ==
  /\ pc = "summary"
  /\ LET action == plan(phase, answer, now, cfg) IN
     \/ /\ action.do = "SummaryOnly"
        /\ Done(action.phase, action.wait)
     \/ /\ action.do = "Probe"
        /\ pc' = "probe"
        /\ state' = answer
        /\ purpose' = action.purpose
        /\ started' = now
        /\ UNCHANGED <<tracked, cfg, opened, saw_driving, out>>
     \/ /\ action.do = "VehicleData"
        /\ BeginFetch
        /\ state' = answer
        /\ UNCHANGED <<tracked, cfg, purpose, opened, saw_driving, out>>
  /\ IF answer = "online" THEN UNCHANGED <<heard_at, parked_since>> ELSE Explained
  /\ UNCHANGED <<now, settings, busy_at>>

\* probe_stream returned; after_probe decides.
ProbeEnds(reading) ==
  /\ pc = "probe"
  /\ LET outcome == after_probe(purpose, reading, phase, now, cfg) IN
     \/ /\ outcome.do = "Wait"
        /\ Done(outcome.phase, outcome.wait)
     \/ /\ outcome.do = "VehicleData"
        /\ BeginFetch
        /\ UNCHANGED <<tracked, cfg, state, purpose, opened, saw_driving, out>>
  /\ UNCHANGED <<now, settings, observed>>

\* The call failed, the answer had no live state, or a write failed.
FetchFails == pc = "fetch" /\ Failed

\* A reading that shows the car in use: unlocked doors, and what the code only
\* looks at after them, do not count.
Busy(data) ==
  \/ activity(data) # "Idle"
  \/ \E b \in data.blocks : BlockRank(b) < BlockRank("Unlocked")

Fetched(data) ==
  /\ pc = "fetch"
  /\ LET applied == apply_vehicle_data(data, phase, now, cfg) IN
     IF applied.activity = "Driving" /\ cfg.use_streaming
     THEN /\ pc' = "connect"
          /\ out' = applied.phase
          /\ started' = now
          /\ UNCHANGED <<tracked, cfg, state, purpose, opened, saw_driving>>
     ELSE Done(applied.phase, applied.wait)
  /\ heard_at' = now
  /\ busy_at' = IF Busy(data) THEN now ELSE busy_at
  /\ parked_since' = IF activity(data) = "Idle" /\ can_fall_asleep(data, cfg)
                     THEN IF parked_since = None THEN now ELSE parked_since
                     ELSE None
  /\ UNCHANGED <<now, settings>>

-----------------------------------------------------------------------------
(***************************************************************************)
(* stream_drive.  The connect has no timeout of its own.  Any message      *)
(* restarts the STREAM_IDLE timer.                                         *)
(***************************************************************************)
StreamConnected ==
  /\ pc = "connect"
  /\ pc' = "stream"
  /\ started' = now
  /\ opened' = now
  /\ saw_driving' = FALSE
  /\ UNCHANGED <<now, settings, tracked, cfg, state, purpose, out, observed>>

StreamReturns(next) ==
  /\ Done(next, cfg.active_poll)
  /\ Explained
  /\ UNCHANGED <<now, settings>>

\* A connect error, data:error, a close, a transport or a database error.
StreamStops ==
  /\ pc \in {"connect", "stream"}
  /\ StreamReturns(out)
  /\ UNCHANGED busy_at

\* Mutant: the subtraction without its check.
AfterStreamIdle_unchecked == Awake(now - StreamIdle)

\* StreamEnd::Idle: the idle clock is set STREAM_IDLE back (checked_sub).
AfterStreamIdle == Awake(IF now >= StreamIdle THEN now - StreamIdle ELSE now)

StreamDrivingRow ==
  /\ pc = "stream"
  /\ saw_driving' = TRUE
  /\ started' = now
  /\ busy_at' = now
  /\ UNCHANGED <<now, settings, tracked, pc, cfg, state, purpose, opened, out, heard_at,
                 parked_since>>

StreamParkedRow ==
  /\ pc = "stream"
  /\ \/ saw_driving /\ StreamReturns(AfterStreamIdle)
     \/ ~saw_driving /\ now - opened >= StreamPatience /\ StreamReturns(out)
     \/ /\ ~saw_driving /\ now - opened < StreamPatience
        /\ started' = now
        /\ UNCHANGED <<now, settings, tracked, pc, cfg, state, purpose, opened, saw_driving,
                       out, heard_at, parked_since>>
  /\ UNCHANGED busy_at

\* A ping, or a row too short to parse.
StreamOtherFrame ==
  /\ pc = "stream"
  /\ started' = now
  /\ UNCHANGED <<now, settings, tracked, pc, cfg, state, purpose, opened, saw_driving, out,
                 observed>>

StreamTimesOut ==
  /\ pc = "stream"
  /\ now - started >= StreamIdle
  /\ StreamReturns(AfterStreamIdle)
  /\ UNCHANGED busy_at

-----------------------------------------------------------------------------
\* The process dies anywhere and starts again: Tracked is memory only.
Restart ==
  /\ Returned
  /\ phase' = Startup
  /\ next_poll' = now
  /\ Explained
  /\ UNCHANGED <<now, settings, busy_at>>

\* Calls end in time; a connect may take for ever.
Tick ==
  /\ now < MaxTime
  /\ pc = "waiting" => now < next_poll + Lateness
  /\ pc \in {"summary", "fetch"} => now < started + CallSecs
  /\ pc = "probe" => now < started + ProbeSecs
  /\ pc = "stream" => now < started + StreamIdle
  /\ now' = now + 1
  /\ UNCHANGED <<settings, tracked, pc, locals, observed>>

Next ==
  \/ Tick
  \/ BeginPoll
  \/ SummaryFails
  \/ \E answer \in SummaryState : Summary(answer)
  \/ \E reading \in StreamReading : ProbeEnds(reading)
  \/ FetchFails
  \/ \E data \in Readings : Fetched(data)
  \/ StreamConnected
  \/ StreamStops
  \/ StreamDrivingRow
  \/ StreamParkedRow
  \/ StreamOtherFrame
  \/ StreamTimesOut
  \/ Restart

Spec == Init /\ [][Next]_vars

-----------------------------------------------------------------------------
(***************************************************************************)
(* Properties.                                                             *)
(***************************************************************************)
K == config_for(settings)

\* The longest wait poll_car can ask for, and the time from the end of a wait
\* to the outcome of the probe.
MaxWait == Larger(Larger(Larger(NormalSecs, RateLimitMax),
                         Larger(K.idle_poll, K.keeper_poll)),
                  Larger(Larger(K.blocked_poll, K.user_present_poll),
                         Larger(K.active_poll, K.asleep_interval)))
Turn == Lateness + CallSecs + ProbeSecs

MaxSilence == MaxWait + Larger(K.suspend_for, K.subsystem_grace)
              + K.asleep_interval + 2 * Turn + CallSecs

\* No car that is online goes unobserved for longer than one suspension (or
\* one subsystem check) and a few polls: suspended or checking, whatever the
\* stream says, vehicle_data is asked for again in time.  A failed call, a
\* summary that is not online and an open drive stream excuse the silence.
SilenceBounded ==
  pc \notin {"connect", "stream"} => now - heard_at <= MaxSilence

(***************************************************************************)
(* SilenceBounded is not inductive.  SilenceInv adds, for every await, how *)
(* far the clock can be from heard_at: in Reach the next poll of a car that*)
(* is held back (suspended or checking) lies just after the end of its     *)
(* hold, and the end of the hold is itself bounded from heard_at.          *)
(***************************************************************************)
Hold == IF phase.at = "Checking"
        THEN phase.since + K.subsystem_grace + K.asleep_interval
        ELSE IF phase.at = "Suspended" /\ phase.resume_at # None
             THEN phase.resume_at + ProbeSecs + K.asleep_interval
             ELSE 0
Reach == Larger(heard_at + MaxWait, Hold)

HoldInv ==
  /\ phase.at = "Checking" => phase.since <= heard_at + MaxWait + Turn
  /\ phase.at = "Suspended" /\ phase.resume_at # None
       => phase.resume_at <= heard_at + MaxWait + Turn + K.suspend_for
  /\ phase.at = "Suspended" /\ phase.resume_at = None => K.use_streaming

AwaitInv ==
  /\ pc = "waiting" => next_poll <= Reach /\ now <= next_poll + Lateness
  /\ pc = "summary" => started <= Reach + Lateness /\ now <= started + CallSecs
  /\ pc = "probe" =>
       /\ now <= started + ProbeSecs
       /\ purpose = "Suspend" <=> phase.at = "Suspended"
       /\ IF phase.at = "Checking" THEN started < phase.since + K.subsystem_grace
          ELSE IF phase.at = "Suspended" /\ phase.resume_at # None
               THEN started < phase.resume_at
               ELSE started <= heard_at + MaxWait + Lateness + CallSecs
  /\ pc = "fetch" => /\ now <= started + CallSecs
                     /\ started + CallSecs <= heard_at + MaxSilence

SilenceInv == cfg = K /\ HoldInv /\ AwaitInv

\* A parked car that every reading finds free to sleep is suspended once
\* idle_before_suspend has passed, one idle poll later at most: vehicle_data
\* does not keep it awake.
ParkedIsSuspended ==
  parked_since # None /\ phase.at = "Awake"
    => now <= parked_since + K.idle_before_suspend + K.idle_poll
              + Lateness + 2 * CallSecs

\* Past the summary every step of a poll concerns a car whose summary said
\* online: neither the stream nor vehicle_data is used on a sleeping car.
OnlyOnlineIsTouched ==
  pc \in {"probe", "fetch", "connect", "stream"} => state = "online"

\* Once a suspension has a deadline no probe, failed poll or summary moves or
\* clears it; it goes when the car is seen asleep, with a new vehicle_data
\* answer, or with the process.
DeadlineFixed ==
  [][/\ phase.at = "Suspended" /\ phase.resume_at # None
     /\ phase'.at = "Suspended" /\ pc # "fetch"
     => phase' = phase]_vars

\* Without streaming, logging is suspended only after the car was out of use, by
\* everything that was read of it, for idle_before_suspend: unlocked doors, failed
\* polls, quiet readings and suspensions in between do not shorten the idle time.
EarlySuspension ==
  /\ phase.at # "Suspended" /\ phase'.at = "Suspended"
  /\ now - busy_at < K.idle_before_suspend
PollingSuspendsAfterIdle == [][~K.use_streaming => ~EarlySuspension]_vars
=============================================================================
