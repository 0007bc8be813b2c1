---------------------------- MODULE SleepPolicy ----------------------------
(***************************************************************************)
(* The polling policy of src/sleep.rs: pure functions from what is known   *)
(* about a car (its phase) and what was just observed (a summary, a stream *)
(* reading, a vehicle_data answer) to the next phase and the time to wait. *)
(* Times are natural numbers; the unit is chosen by the configuration.     *)
(***************************************************************************)
EXTENDS Integers

CONSTANTS
  None,               \* the absent value of an Option
  AsleepSecs,         \* summary-only interval (30 s)
  StreamIdleSecs,     \* idle time before suspending, streaming (3 min)
  StreamSuspendSecs,  \* length of a suspension, streaming (30 min)
  PollSecs,           \* base vehicle_data interval while idle (15 s)
  KeeperSecs,         \* base interval under Sentry, Dog Mode, ... (30 s)
  GraceSecs,          \* length of a subsystem check (5 min)
  ActiveSecs,         \* drive and charge interval, TESLAMATE_RS_POLL_SECS
  Fast                \* TRUE when ActiveSecs compresses every interval

Positive == Nat \ {0}

ASSUME PolicyAssumption ==
  /\ None \notin Nat
  /\ {AsleepSecs, StreamIdleSecs, StreamSuspendSecs, PollSecs, KeeperSecs,
      GraceSecs, ActiveSecs} \subseteq Positive
  /\ Fast \in BOOLEAN

Larger(a, b) == IF a >= b THEN a ELSE b

(***************************************************************************)
(* config_for: the row of car_settings turned into intervals.              *)
(***************************************************************************)
Settings == [use_streaming : BOOLEAN, req_not_unlocked : BOOLEAN,
             suspend : Int, suspend_after_idle : Int]

IdleConfig == [use_streaming : BOOLEAN, req_not_unlocked : BOOLEAN,
               asleep_interval : Positive, idle_before_suspend : Positive,
               suspend_for : Positive, subsystem_grace : Positive,
               idle_poll : Positive, user_present_poll : Positive,
               keeper_poll : Positive, blocked_poll : Positive,
               active_poll : Positive]

config_for(s) ==
  LET scale(secs) == IF Fast THEN ActiveSecs ELSE Larger(secs, 1)
      multiplier  == IF s.use_streaming THEN 2 ELSE 1
  IN [use_streaming       |-> s.use_streaming,
      req_not_unlocked    |-> s.req_not_unlocked,
      asleep_interval     |-> scale(AsleepSecs),
      idle_before_suspend |-> scale(IF s.use_streaming THEN StreamIdleSecs
                                    ELSE Larger(s.suspend_after_idle, 1)),
      suspend_for         |-> scale(IF s.use_streaming THEN StreamSuspendSecs
                                    ELSE Larger(s.suspend, 1)),
      subsystem_grace     |-> scale(GraceSecs),
      idle_poll           |-> scale(PollSecs * multiplier),
      user_present_poll   |-> scale(PollSecs),
      keeper_poll         |-> scale(KeeperSecs * multiplier),
      blocked_poll        |-> scale(PollSecs * multiplier),
      active_poll         |-> ActiveSecs]

(***************************************************************************)
(* Phases.  `since' is the field of Checking, and idle_since of Awake and  *)
(* of Suspended; resume_at is the Option of Suspended.                     *)
(***************************************************************************)
Time    == Nat
Instant == Time \cup {None}

Phase == [at : {"Startup", "Asleep", "Checking", "Awake", "Suspended"},
          since : Instant, resume_at : Instant]

Startup                 == [at |-> "Startup", since |-> None, resume_at |-> None]
Asleep                  == [at |-> "Asleep", since |-> None, resume_at |-> None]
Checking(t)             == [at |-> "Checking", since |-> t, resume_at |-> None]
Awake(t)                == [at |-> "Awake", since |-> t, resume_at |-> None]
Suspended(t, resume_at) == [at |-> "Suspended", since |-> t,
                            resume_at |-> resume_at]

(***************************************************************************)
(* plan: what the state in the summary allows.                             *)
(***************************************************************************)
SummaryState == {"online", "asleep", "offline", "unknown"}

SummaryOnly(phase, wait) == [do |-> "SummaryOnly", phase |-> phase, wait |-> wait]
Probe(purpose)           == [do |-> "Probe", purpose |-> purpose]
VehicleData              == [do |-> "VehicleData"]

\* Mutant: a suspension or a check has no end.
OverDue_never(phase, now, cfg) == FALSE

\* The suspension or the subsystem check has lasted long enough.
OverDue(phase, now, cfg) ==
  \/ /\ phase.at = "Suspended"
     /\ phase.resume_at # None
     /\ now >= phase.resume_at
  \/ /\ phase.at = "Checking"
     /\ now - phase.since >= cfg.subsystem_grace

\* Mutant: a state other than asleep or offline is taken for online.
plan_unknown_is_online(phase, summary, now, cfg) ==
  IF summary \in {"asleep", "offline"} THEN SummaryOnly(Asleep, cfg.asleep_interval)
                                       ELSE VehicleData

plan(phase, summary, now, cfg) ==
  CASE summary \in {"asleep", "offline"} -> SummaryOnly(Asleep, cfg.asleep_interval)
    [] summary \notin {"asleep", "offline", "online"}
         -> SummaryOnly(phase, cfg.asleep_interval)
    [] summary = "online" /\ ~OverDue(phase, now, cfg) /\ phase.at = "Suspended"
         -> IF cfg.use_streaming THEN Probe("Suspend")
            ELSE SummaryOnly(phase, cfg.asleep_interval)
    [] summary = "online" /\ ~OverDue(phase, now, cfg)
         /\ phase.at \in {"Checking", "Asleep", "Startup"} /\ cfg.use_streaming
         -> Probe("Wake")
    [] OTHER -> VehicleData

(***************************************************************************)
(* Stream readings.  Of a row the policy only tells apart whether it shows *)
(* motion (a D, R or N shift or a positive speed) and its power column.    *)
(***************************************************************************)
StreamSample  == [kind : {"Sample"}, moving : BOOLEAN,
                  power : {"nil", "zero", "nonzero"}]
StreamReading == StreamSample \cup {[kind |-> "Error"], [kind |-> "Timeout"]}

wake_is_real(sample)      == sample.power # "nil" \/ sample.moving
suspend_is_active(sample) == sample.moving \/ sample.power = "nonzero"
stream_is_driving(sample) == sample.moving

(***************************************************************************)
(* after_probe: `do' is "VehicleData", or "Wait" with the phase to wait in.*)
(***************************************************************************)
Wait(phase, wait) == [do |-> "Wait", phase |-> phase, wait |-> wait]

AfterWake(reading, phase, now, cfg) ==
  LET since == IF phase.at = "Checking" THEN phase.since ELSE now
  IN IF /\ reading.kind = "Sample"
        /\ ~wake_is_real(reading)
        /\ now - since < cfg.subsystem_grace
     THEN Wait(Checking(since), cfg.asleep_interval)
     ELSE VehicleData

\* Mutant: every quiet probe moves the deadline of the suspension.
AfterSuspend_pushes(reading, phase, now, cfg) ==
  IF reading.kind = "Sample" /\ suspend_is_active(reading)
  THEN VehicleData
  ELSE Wait(Suspended(phase.since, now + cfg.suspend_for), cfg.asleep_interval)

AfterSuspend(reading, phase, now, cfg) ==
  LET idle_since == IF phase.at = "Suspended" THEN phase.since ELSE now
      first      == IF phase.at = "Suspended" THEN phase.resume_at ELSE None
      resume_at  == IF first # None THEN first ELSE now + cfg.suspend_for
  IN IF reading.kind = "Sample" /\ suspend_is_active(reading)
     THEN VehicleData
     ELSE Wait(Suspended(idle_since, resume_at), cfg.asleep_interval)

after_probe(purpose, reading, phase, now, cfg) ==
  IF purpose = "Wake" THEN AfterWake(reading, phase, now, cfg)
                      ELSE AfterSuspend(reading, phase, now, cfg)

(***************************************************************************)
(* apply_vehicle_data.  A vehicle_data answer is what the policy reads of  *)
(* it: whether the car charges or drives, and the set of conditions that   *)
(* would keep it awake.                                                    *)
(***************************************************************************)
SleepBlock == {"UserPresent", "Preconditioning", "DogMode", "Sentry", "Update",
               "Doors", "Trunk", "Unlocked", "Power"}
Reading    == [charging : BOOLEAN, driving : BOOLEAN, blocks : SUBSET SleepBlock]

activity(data) == IF data.charging THEN "Charging"
                  ELSE IF data.driving THEN "Driving" ELSE "Idle"

\* can_fall_asleep looks at the conditions in this order.
BlockRank(b) ==
  CASE b = "UserPresent" -> 1 [] b = "Preconditioning" -> 2 [] b = "DogMode" -> 3
    [] b = "Sentry" -> 4 [] b = "Update" -> 5 [] b = "Doors" -> 6
    [] b = "Trunk" -> 7 [] b = "Unlocked" -> 8 [] b = "Power" -> 9

Blocking(data, cfg) ==
  {b \in data.blocks : b = "Unlocked" => cfg.req_not_unlocked}

can_fall_asleep(data, cfg) == Blocking(data, cfg) = {}
first_block(data, cfg) ==
  CHOOSE b \in Blocking(data, cfg) :
    \A other \in Blocking(data, cfg) : BlockRank(b) <= BlockRank(other)

\* Mutant: a blocked car keeps the idle clock of before the block.
resets_idle_never(block) == FALSE

resets_idle(block) == block # "Unlocked"
poll_after(block, cfg) ==
  CASE block = "UserPresent" -> cfg.user_present_poll
    [] block \in {"Preconditioning", "DogMode", "Sentry"} -> cfg.keeper_poll
    [] block \in {"Update", "Doors", "Trunk", "Unlocked", "Power"}
         -> cfg.blocked_poll

\* Mutant: a quiet reading restarts the idle clock, as a busy one does.
idle_start_now(phase, now) == now

idle_start(phase, now) ==
  IF phase.at \in {"Awake", "Suspended"} THEN phase.since ELSE now

Applied(phase, wait, act) == [phase |-> phase, wait |-> wait, activity |-> act]

apply_vehicle_data(data, phase, now, cfg) ==
  LET idle_since == idle_start(phase, now)
      block      == first_block(data, cfg)
  IN IF activity(data) # "Idle"
     THEN Applied(Awake(now), cfg.active_poll, activity(data))
     ELSE IF ~can_fall_asleep(data, cfg)
          THEN Applied(Awake(IF resets_idle(block) THEN now ELSE idle_since),
                       poll_after(block, cfg), "Idle")
     ELSE IF now - idle_since >= cfg.idle_before_suspend
          THEN Applied(Suspended(idle_since, IF cfg.use_streaming THEN None
                                             ELSE now + cfg.suspend_for),
                       cfg.asleep_interval, "Idle")
          ELSE Applied(Awake(idle_since), cfg.idle_poll, "Idle")
=============================================================================
