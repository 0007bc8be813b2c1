---------------------------- MODULE PollerProofs ----------------------------
(***************************************************************************)
(* Proofs about Poller, for every value of its constants: the types of its *)
(* variables, that no online car goes unobserved for longer than           *)
(* MaxSilence, which cars are touched, and when a car is suspended: not    *)
(* too early, not too late, and no longer than was set.                    *)
(***************************************************************************)
EXTENDS Poller, TLAPS

(* The intervals of a configuration are positive. *)
LEMMA ConfigType ==
  ASSUME NEW s \in Settings
  PROVE  config_for(s) \in IdleConfig
<1>1. ActiveSecs \in Positive /\ Fast \in BOOLEAN
  BY PolicyAssumption
<1>2. \A secs \in Int : Larger(secs, 1) \in Positive
  BY DEF Larger, Positive
<1>3. /\ {AsleepSecs, PollSecs, KeeperSecs, GraceSecs, StreamIdleSecs,
          StreamSuspendSecs} \subseteq Positive
      /\ s.suspend \in Int /\ s.suspend_after_idle \in Int
      /\ s.use_streaming \in BOOLEAN /\ s.req_not_unlocked \in BOOLEAN
  BY PolicyAssumption DEF Settings
<1>4. /\ PollSecs * 2 \in Positive /\ PollSecs * 1 \in Positive
      /\ KeeperSecs * 2 \in Positive /\ KeeperSecs * 1 \in Positive
  BY <1>3 DEF Positive
<1>. DEFINE scale(secs) == IF Fast THEN ActiveSecs ELSE Larger(secs, 1)
<1>5. \A secs \in Int : scale(secs) \in Positive
  BY <1>1, <1>2
<1>. HIDE DEF scale
<1>6. \A secs \in Positive : secs \in Int
  BY DEF Positive
<1>7. /\ scale(AsleepSecs) \in Positive /\ scale(GraceSecs) \in Positive
      /\ scale(PollSecs) \in Positive
  BY <1>3, <1>5, <1>6
<1>8. /\ scale(PollSecs * (IF s.use_streaming THEN 2 ELSE 1)) \in Positive
      /\ scale(KeeperSecs * (IF s.use_streaming THEN 2 ELSE 1)) \in Positive
  BY <1>3, <1>4, <1>5, <1>6
<1>9. scale(IF s.use_streaming THEN StreamIdleSecs
            ELSE Larger(s.suspend_after_idle, 1)) \in Positive
  BY <1>2, <1>3, <1>5, <1>6
<1>10. scale(IF s.use_streaming THEN StreamSuspendSecs
             ELSE Larger(s.suspend, 1)) \in Positive
  BY <1>2, <1>3, <1>5, <1>6
<1>. QED
  BY <1>1, <1>3, <1>7, <1>8, <1>9, <1>10 DEF config_for, IdleConfig, scale

(* What plan can ask for. *)
LEMMA PlanCases ==
  ASSUME NEW p \in Phase, NEW answer \in SummaryState, NEW t, NEW c
  PROVE  LET a == plan(p, answer, t, c) IN
         \/ a = SummaryOnly(Asleep, c.asleep_interval) /\ answer # "online"
         \/ /\ a = SummaryOnly(p, c.asleep_interval)
            /\ answer = "online" => /\ p.at = "Suspended"
                                    /\ ~c.use_streaming
                                    /\ ~OverDue(p, t, c)
         \/ /\ answer = "online" /\ c.use_streaming /\ ~OverDue(p, t, c)
            /\ \/ a = Probe("Suspend") /\ p.at = "Suspended"
               \/ a = Probe("Wake") /\ p.at \in {"Checking", "Asleep", "Startup"}
         \/ a = VehicleData /\ answer = "online"
BY DEF plan, SummaryState, Phase

(* What after_probe can answer. *)
LEMMA AfterProbeCases ==
  ASSUME NEW pur \in {"Wake", "Suspend"}, NEW reading \in StreamReading,
         NEW p \in Phase, NEW t \in Time, NEW c \in IdleConfig,
         p.at \in {"Checking", "Suspended"} => p.since \in 0..t
  PROVE  LET o == after_probe(pur, reading, p, t, c) IN
         \/ o = VehicleData
         \/ /\ pur = "Wake"
            /\ \E since \in 0..t : /\ o = Wait(Checking(since), c.asleep_interval)
                                   /\ since = IF p.at = "Checking" THEN p.since ELSE t
                                   /\ t - since < c.subsystem_grace
         \/ /\ pur = "Suspend"
            /\ \E since \in 0..t, r \in Time :
                 /\ o = Wait(Suspended(since, r), c.asleep_interval)
                 /\ r = IF p.at = "Suspended" /\ p.resume_at # None
                         THEN p.resume_at ELSE t + c.suspend_for
<1>1. CASE pur = "Wake"
  BY <1>1 DEF after_probe, AfterWake, Time
<1>2. CASE pur = "Suspend"
  <2>1. c.suspend_for \in Nat
    BY DEF IdleConfig, Positive
  <2>2. p.resume_at # None => p.resume_at \in Nat
    BY DEF Phase, Instant, Time
  <2>. QED
    BY <1>2, <2>1, <2>2 DEF after_probe, AfterSuspend, Time
<1>. QED
  BY <1>1, <1>2

(* The condition can_fall_asleep reports exists. *)
LEMMA FirstBlock ==
  ASSUME NEW data \in Reading, NEW c, ~can_fall_asleep(data, c)
  PROVE  first_block(data, c) \in SleepBlock
<1>. DEFINE B == Blocking(data, c)
<1>1. B # {} /\ B \subseteq SleepBlock
  BY DEF can_fall_asleep, Blocking, Reading
<1>. HIDE DEF B
<1>2. \E b \in B : \A other \in B : BlockRank(b) <= BlockRank(other)
  BY <1>1 DEF SleepBlock, BlockRank
<1>. QED
  BY <1>1, <1>2 DEF first_block, B

(* What apply_vehicle_data can answer. *)
LEMMA AppliedCases ==
  ASSUME NEW data \in Reading, NEW p \in Phase, NEW t \in Time,
         NEW c \in IdleConfig,
         p.at \in {"Awake", "Suspended"} => p.since \in 0..t
  PROVE  LET a == apply_vehicle_data(data, p, t, c) IN
         /\ a.activity = activity(data)
         /\ a.wait \in {c.active_poll, c.idle_poll, c.user_present_poll,
                        c.keeper_poll, c.blocked_poll, c.asleep_interval}
         /\ \/ \E since \in 0..t : a.phase = Awake(since)
            \/ /\ a.activity = "Idle"
               /\ \E since \in 0..t :
                    a.phase = Suspended(since, IF c.use_streaming THEN None
                                               ELSE t + c.suspend_for)
<1>1. idle_start(p, t) \in 0..t
  BY DEF idle_start, Time
<1>2. ~can_fall_asleep(data, c)
      => poll_after(first_block(data, c), c)
           \in {c.user_present_poll, c.keeper_poll, c.blocked_poll}
  BY FirstBlock DEF poll_after, SleepBlock
<1>3. t \in 0..t
  BY DEF Time
<1>. QED
  BY <1>1, <1>2, <1>3 DEF apply_vehicle_data, Applied, activity


-----------------------------------------------------------------------------
(* Facts about the constants and the configuration in force. *)
LEMMA ConfigInForce ==
  ASSUME TypeOK
  PROVE  cfg \in IdleConfig /\ K \in IdleConfig
BY ConfigType, PollerAssumption DEF TypeOK, K

LEMMA ErrWaitsType == ErrWaits \subseteq Nat
BY PollerAssumption DEF ErrWaits, rate_limited_for, Larger, Positive

(* The three ways a poll returns keep the types. *)
LEMMA DoneType ==
  ASSUME TypeOK, NEW next \in Phase, NEW wait \in Nat, Done(next, wait),
         next.at \in {"Checking", "Awake", "Suspended"} => next.since \in 0..now,
         UNCHANGED <<now, settings>>,
         heard_at' \in 0..now, busy_at' \in 0..now, parked_since' \in 0..now \cup {None}
  PROVE  TypeOK'
<1>1. now \in Nat /\ now' = now /\ settings' = settings
  BY DEF TypeOK, Time
<1>2. /\ pc' = "waiting" /\ state' = None /\ purpose' = "Wake" /\ started' = 0
      /\ opened' = 0 /\ saw_driving' = FALSE /\ out' = Startup /\ cfg' = cfg
      /\ phase' = next /\ next_poll' = now + wait
  BY DEF Done, Returned
<1>3. Startup \in Phase /\ now + wait \in Time /\ 0 \in 0..now
  BY <1>1 DEF Startup, Phase, Instant, Time
<1>. QED
  BY <1>1, <1>2, <1>3 DEF TypeOK, PC

LEMMA FailedType == ASSUME TypeOK, Failed PROVE TypeOK'
<1>1. now \in Nat /\ now' = now /\ settings' = settings /\ phase' = phase
      /\ busy_at' = busy_at
  BY DEF TypeOK, Time, Failed
<1>2. PICK wait \in Nat : next_poll' = now + wait
  BY ErrWaitsType DEF Failed
<1>3. /\ pc' = "waiting" /\ state' = None /\ purpose' = "Wake" /\ started' = 0
      /\ opened' = 0 /\ saw_driving' = FALSE /\ out' = Startup /\ cfg' = cfg
      /\ heard_at' = now /\ parked_since' = None
  BY DEF Failed, Returned, Explained
<1>4. Startup \in Phase /\ now + wait \in Time /\ 0 \in 0..now /\ now \in 0..now
  BY <1>1 DEF Startup, Phase, Instant, Time
<1>. QED
  BY <1>1, <1>2, <1>3, <1>4 DEF TypeOK, PC

LEMMA PhaseType ==
  ASSUME NEW t \in Nat, NEW since \in 0..t, NEW r \in Instant
  PROVE  /\ Startup \in Phase /\ Asleep \in Phase /\ Checking(since) \in Phase
         /\ Awake(since) \in Phase /\ Suspended(since, r) \in Phase
         /\ Awake(since).at = "Awake" /\ Awake(since).since \in 0..t
         /\ Checking(since).since \in 0..t /\ Suspended(since, r).since \in 0..t
         /\ Startup.at = "Startup" /\ Asleep.at = "Asleep"
BY DEF Startup, Asleep, Checking, Awake, Suspended, Phase, Instant, Time

(* A poll that goes on to another call keeps the types. *)
LEMMA SummaryType ==
  ASSUME TypeOK, NEW answer \in SummaryState, Summary(answer) PROVE TypeOK'
<1>. DEFINE a == plan(phase, answer, now, cfg)
<1>1. now \in Nat /\ now' = now /\ settings' = settings /\ busy_at' = busy_at
      /\ cfg \in IdleConfig /\ phase \in Phase
  BY ConfigInForce DEF TypeOK, Time, Summary
<1>2. heard_at' \in 0..now /\ parked_since' \in 0..now \cup {None}
  BY <1>1 DEF Summary, Explained, TypeOK
<1>3. CASE a.do = "SummaryOnly"
  <2>1. a \in {SummaryOnly(Asleep, cfg.asleep_interval),
               SummaryOnly(phase, cfg.asleep_interval)}
    BY <1>1, <1>3, PlanCases DEF Probe, VehicleData
  <2>2. a.phase \in {Asleep, phase} /\ a.wait \in Nat
    BY <1>1, <2>1 DEF SummaryOnly, IdleConfig, Positive
  <2>3. Done(a.phase, a.wait)
    BY <1>3 DEF Summary
  <2>4. a.phase \in Phase /\ (a.phase.at \in {"Checking", "Awake", "Suspended"}
                              => a.phase.since \in 0..now)
    BY <1>1, <2>2 DEF Asleep, TypeOK, Phase, Instant
  <2>. QED
    BY <1>1, <1>2, <2>2, <2>3, <2>4, DoneType DEF TypeOK, Summary
<1>4. CASE a.do = "Probe"
  <2>1. a.purpose \in {"Wake", "Suspend"}
    BY <1>1, <1>4, PlanCases DEF SummaryOnly, Probe, VehicleData
  <2>2. /\ pc' = "probe" /\ state' = answer /\ purpose' = a.purpose /\ started' = now
        /\ UNCHANGED <<tracked, cfg, opened, saw_driving, out>>
    BY <1>4 DEF Summary
  <2>. QED
    BY <1>1, <1>2, <2>1, <2>2 DEF TypeOK, PC, tracked
<1>5. CASE a.do = "VehicleData"
  <2>1. /\ pc' = "fetch" /\ started' = now /\ state' = answer
        /\ UNCHANGED <<tracked, cfg, purpose, opened, saw_driving, out>>
    BY <1>5 DEF Summary, BeginFetch
  <2>. QED
    BY <1>1, <1>2, <2>1 DEF TypeOK, PC, tracked
<1>. QED
  BY <1>3, <1>4, <1>5 DEF Summary

LEMMA ProbeType ==
  ASSUME TypeOK, NEW reading \in StreamReading, ProbeEnds(reading) PROVE TypeOK'
<1>. DEFINE o == after_probe(purpose, reading, phase, now, cfg)
<1>1. /\ now \in Nat /\ now' = now /\ settings' = settings
      /\ heard_at' = heard_at /\ busy_at' = busy_at /\ parked_since' = parked_since
      /\ cfg \in IdleConfig /\ phase \in Phase /\ purpose \in {"Wake", "Suspend"}
  BY ConfigInForce DEF TypeOK, Time, ProbeEnds, observed
<1>2. CASE o.do = "Wait"
  <2>1. Done(o.phase, o.wait)
    BY <1>2 DEF ProbeEnds, Done
  <2>2. \E since \in 0..now, r \in Time :
          \/ o = Wait(Checking(since), cfg.asleep_interval)
          \/ o = Wait(Suspended(since, r), cfg.asleep_interval)
    BY <1>1, <1>2, AfterProbeCases DEF TypeOK, VehicleData, Time
  <2>3. PICK since \in 0..now, r \in Time :
          o.phase \in {Checking(since), Suspended(since, r)}
          /\ o.wait = cfg.asleep_interval
    BY <2>2 DEF Wait
  <2>4. o.phase \in Phase /\ o.phase.since \in 0..now /\ o.wait \in Nat
    BY <1>1, <2>3, PhaseType DEF Instant, IdleConfig, Positive
  <2>. QED
    BY <1>1, <2>1, <2>4, DoneType DEF TypeOK
<1>3. CASE o.do = "VehicleData"
  <2>1. /\ pc' = "fetch" /\ started' = now
        /\ UNCHANGED <<tracked, cfg, state, purpose, opened, saw_driving, out>>
    BY <1>3 DEF ProbeEnds, BeginFetch
  <2>. QED
    BY <1>1, <2>1 DEF TypeOK, PC, tracked
<1>. QED
  BY <1>2, <1>3 DEF ProbeEnds


LEMMA FetchedType ==
  ASSUME TypeOK, NEW data \in Readings, Fetched(data) PROVE TypeOK'
<1>. DEFINE a == apply_vehicle_data(data, phase, now, cfg)
<1>1. /\ now \in Nat /\ now' = now /\ settings' = settings /\ heard_at' = now
      /\ cfg \in IdleConfig /\ phase \in Phase /\ data \in Reading
  BY ConfigInForce, PollerAssumption DEF TypeOK, Time, Fetched
<1>2. /\ busy_at' \in 0..now /\ parked_since' \in 0..now \cup {None}
      /\ heard_at' \in 0..now
  BY <1>1 DEF Fetched, TypeOK
<1>3. /\ a.activity = activity(data)
      /\ a.wait \in {cfg.active_poll, cfg.idle_poll, cfg.user_present_poll,
                     cfg.keeper_poll, cfg.blocked_poll, cfg.asleep_interval}
      /\ \/ \E since \in 0..now : a.phase = Awake(since)
         \/ /\ a.activity = "Idle"
            /\ \E since \in 0..now :
                 a.phase = Suspended(since, IF cfg.use_streaming THEN None
                                            ELSE now + cfg.suspend_for)
  BY <1>1, AppliedCases DEF TypeOK, Time
<1>4. a.wait \in Nat /\ now + cfg.suspend_for \in Nat
  BY <1>1, <1>3 DEF IdleConfig, Positive
<1>. HIDE DEF a
<1>5. a.phase \in Phase /\ a.phase.since \in 0..now
      /\ (a.activity # "Idle" => a.phase \in {Awake(t) : t \in 0..now})
  BY <1>1, <1>3, <1>4, PhaseType DEF Instant, Time, Suspended, Awake
<1>6. CASE a.activity = "Driving" /\ cfg.use_streaming
  <2>1. /\ pc' = "connect" /\ out' = a.phase /\ started' = now
        /\ UNCHANGED <<tracked, cfg, state, purpose, opened, saw_driving>>
    BY <1>6 DEF Fetched, a
  <2>. QED
    BY <1>1, <1>2, <1>5, <1>6, <2>1 DEF TypeOK, PC, tracked
<1>7. CASE ~(a.activity = "Driving" /\ cfg.use_streaming)
  <2>1. Done(a.phase, a.wait)
    BY <1>7 DEF Fetched, a
  <2>. QED
    BY <1>1, <1>2, <1>4, <1>5, <2>1, DoneType
<1>. QED
  BY <1>6, <1>7

LEMMA StreamReturnsType ==
  ASSUME TypeOK, NEW since \in 0..now, StreamReturns(Awake(since)), busy_at' = busy_at
  PROVE  TypeOK'
<1>1. /\ now \in Nat /\ now' = now /\ settings' = settings /\ cfg \in IdleConfig
      /\ heard_at' = now /\ parked_since' = None
  BY ConfigInForce DEF TypeOK, Time, StreamReturns, Explained
<1>2. Awake(since) \in Phase /\ Awake(since).since \in 0..now /\ cfg.active_poll \in Nat
  BY <1>1, PhaseType DEF Instant, IdleConfig, Positive
<1>. QED
  BY <1>1, <1>2, DoneType DEF StreamReturns, TypeOK

(* Leaving the drive stream, for whatever reason, is StreamReturns. *)
LEMMA StreamLeaves ==
  ASSUME TypeOK,
         StreamStops \/ StreamTimesOut \/ (StreamParkedRow /\ pc' = "waiting")
  PROVE  busy_at' = busy_at /\ \E since \in 0..now : StreamReturns(Awake(since))
<1>1. now \in Nat /\ StreamIdle \in Nat
  BY PollerAssumption DEF TypeOK, Time, Positive
<1>2. \E since \in 0..now : AfterStreamIdle = Awake(since)
  BY <1>1 DEF AfterStreamIdle
<1>3. pc \in {"connect", "stream"} => \E since \in 0..now : out = Awake(since)
  BY DEF TypeOK
<1>. QED
  BY <1>2, <1>3 DEF StreamStops, StreamTimesOut, StreamParkedRow


LEMMA StreamRowType ==
  ASSUME TypeOK, pc = "stream", pc' = "stream",
         UNCHANGED <<now, settings, tracked, cfg, state, purpose, opened, out,
                     heard_at, parked_since>>,
         started' = now, saw_driving' \in BOOLEAN, busy_at' \in {busy_at, now}
  PROVE  TypeOK'
BY DEF TypeOK, Time, tracked, PC

LEMMA TickType == ASSUME TypeOK, Tick PROVE TypeOK'
<1>1. now \in Nat /\ now' = now + 1 /\ 0..now \subseteq 0..now' /\ now' \in Time
  BY DEF TypeOK, Time, Tick
<1>2. UNCHANGED <<settings, phase, next_poll, pc, cfg, state, purpose, started, opened,
                  saw_driving, out, heard_at, busy_at, parked_since>>
  BY DEF Tick, tracked, locals, observed
<1>. QED
  BY <1>1, <1>2 DEF TypeOK

(* Every variable keeps its type, and no remembered time lies ahead. *)
LEMMA TypeStep == ASSUME TypeOK, [Next]_vars PROVE TypeOK'
<1>0. now \in Nat
  BY DEF TypeOK, Time
<1>1. CASE Tick
  BY <1>1, TickType
<1>2. CASE BeginPoll
  BY <1>0, <1>2 DEF BeginPoll, TypeOK, PC, tracked, observed
<1>3. CASE SummaryFails \/ FetchFails
  BY <1>3, FailedType DEF SummaryFails, FetchFails
<1>4. CASE \E answer \in SummaryState : Summary(answer)
  BY <1>4, SummaryType
<1>5. CASE \E reading \in StreamReading : ProbeEnds(reading)
  BY <1>5, ProbeType
<1>6. CASE \E data \in Readings : Fetched(data)
  BY <1>6, FetchedType
<1>7. CASE StreamConnected
  <2>1. /\ pc = "connect" /\ pc' = "stream" /\ saw_driving' = FALSE
        /\ started' = now /\ opened' = now
        /\ UNCHANGED <<now, settings, phase, next_poll, cfg, state, purpose, out,
                       heard_at, busy_at, parked_since>>
    BY <1>7 DEF StreamConnected, tracked, observed
  <2>2. now \in 0..now
    BY <1>0
  <2>. QED
    BY <2>1, <2>2 DEF TypeOK, PC
<1>8. CASE StreamStops \/ StreamTimesOut \/ (StreamParkedRow /\ pc' = "waiting")
  BY <1>8, StreamLeaves, StreamReturnsType
<1>9. CASE StreamParkedRow /\ pc' # "waiting"
  <2>1. UNCHANGED <<now, settings, tracked, pc, cfg, state, purpose, opened, saw_driving,
                    out, heard_at, parked_since, busy_at>> /\ started' = now
    BY <1>9 DEF StreamParkedRow, StreamReturns, Done, Returned
  <2>. QED
    BY <1>9, <2>1, StreamRowType DEF StreamParkedRow, TypeOK
<1>10. CASE StreamDrivingRow
  BY <1>10, StreamRowType DEF StreamDrivingRow
<1>11. CASE StreamOtherFrame
  BY <1>11, StreamRowType DEF StreamOtherFrame, observed, TypeOK
<1>12. CASE Restart
  <2>1. /\ pc' = "waiting" /\ phase' = Startup /\ next_poll' = now /\ heard_at' = now
        /\ parked_since' = None /\ state' = None /\ purpose' = "Wake" /\ started' = 0
        /\ opened' = 0 /\ saw_driving' = FALSE /\ out' = Startup
        /\ UNCHANGED <<now, settings, busy_at, cfg>>
    BY <1>12 DEF Restart, Returned, Explained
  <2>2. now \in 0..now /\ 0 \in 0..now /\ Startup \in Phase /\ Startup.at = "Startup"
    BY <1>0 DEF Startup, Phase, Instant, Time
  <2>. QED
    BY <2>1, <2>2 DEF TypeOK, PC
<1>13. CASE UNCHANGED vars
  BY <1>13 DEF vars, tracked, locals, observed, TypeOK
<1>. QED
  BY <1>1, <1>2, <1>3, <1>4, <1>5, <1>6, <1>7, <1>8, <1>9, <1>10, <1>11, <1>12, <1>13
     DEF Next

LEMMA TypeInit == ASSUME Init PROVE TypeOK
<1>1. StreamIdle \in Nat
  BY PollerAssumption DEF Positive
<1>2. now \in Nat /\ 0 \in 0..now /\ now \in 0..now
  BY <1>1 DEF Init
<1>3. Startup \in Phase /\ Startup.at = "Startup"
  BY DEF Startup, Phase, Instant
<1>. QED
  BY <1>2, <1>3 DEF Init, TypeOK, Time, PC

(* The variables keep their types in every behaviour, and every instant the  *)
(* logger remembers (idle_since, since, the start of a call) is one the clock *)
(* has passed.                                                               *)
THEOREM TypeCorrect == Spec => []TypeOK
BY TypeInit, TypeStep, PTL DEF Spec

-----------------------------------------------------------------------------
(***************************************************************************)
(* SilenceBounded.  The bounds are linear in the intervals of K; Bounds    *)
(* states all that the steps need of them, so that their definitions stay  *)
(* folded.                                                                 *)
(***************************************************************************)
LEMMA Bounds ==
  ASSUME TypeOK
  PROVE  /\ {MaxWait, Turn, MaxSilence, Lateness, CallSecs, ProbeSecs} \subseteq Nat
         /\ {K.asleep_interval, K.suspend_for, K.subsystem_grace} \subseteq Nat
         /\ {K.active_poll, K.idle_poll, K.user_present_poll, K.keeper_poll,
             K.blocked_poll, K.asleep_interval} \subseteq 0..MaxWait
         /\ ErrWaits \subseteq 0..MaxWait
         /\ Turn = Lateness + CallSecs + ProbeSecs
         /\ MaxSilence >= MaxWait + K.suspend_for + K.asleep_interval
                          + 2 * Turn + CallSecs
         /\ MaxSilence >= MaxWait + K.subsystem_grace + K.asleep_interval
                          + 2 * Turn + CallSecs
<1>1. K \in IdleConfig
  BY ConfigInForce
<1>2. /\ {K.active_poll, K.idle_poll, K.user_present_poll, K.keeper_poll,
          K.blocked_poll, K.asleep_interval, K.suspend_for, K.subsystem_grace}
         \subseteq Nat
      /\ {RateLimitMax, NormalSecs, CallSecs, ProbeSecs, Lateness} \subseteq Nat
  BY <1>1, PollerAssumption DEF IdleConfig, Positive
<1>3. /\ MaxWait \in Nat /\ NormalSecs <= MaxWait /\ RateLimitMax <= MaxWait
      /\ {K.active_poll, K.idle_poll, K.user_present_poll, K.keeper_poll,
          K.blocked_poll, K.asleep_interval} \subseteq 0..MaxWait
  BY <1>2 DEF MaxWait, Larger
<1>4. ErrWaits \subseteq 0..MaxWait
  <2>1. ASSUME NEW asked \in RetryAfters PROVE rate_limited_for(asked) \in 0..RateLimitMax
    <3>1. asked \in Nat /\ RateLimitMax \in Nat
      BY <1>2, PollerAssumption DEF Positive
    <3>. QED
      BY <3>1 DEF rate_limited_for
  <2>2. \A w \in 0..RateLimitMax : Larger(w, NormalSecs) \in 0..MaxWait
    BY <1>2, <1>3 DEF Larger
  <2>. QED
    BY <1>2, <1>3, <2>1, <2>2 DEF ErrWaits
<1>5. Turn \in Nat /\ Turn = Lateness + CallSecs + ProbeSecs
  BY <1>2 DEF Turn
<1>. HIDE DEF MaxWait, Turn
<1>6. LET g == Larger(K.suspend_for, K.subsystem_grace) IN
      g \in Nat /\ g >= K.suspend_for /\ g >= K.subsystem_grace
  BY <1>2 DEF Larger
<1>7. MaxSilence \in Nat
      /\ MaxSilence >= MaxWait + K.suspend_for + K.asleep_interval + 2 * Turn + CallSecs
      /\ MaxSilence >= MaxWait + K.subsystem_grace + K.asleep_interval
                       + 2 * Turn + CallSecs
  BY <1>2, <1>3, <1>5, <1>6 DEF MaxSilence
<1>. QED
  BY <1>2, <1>3, <1>4, <1>5, <1>7

(* The end of the hold on a car, and its bound from when it was heard of. *)
ReachFacts == /\ Hold \in Nat /\ Reach \in Nat
              /\ heard_at + MaxWait <= Reach /\ Hold <= Reach

LEMMA ReachType == TypeOK => ReachFacts
<1>. SUFFICES ASSUME TypeOK PROVE ReachFacts
  OBVIOUS
<1>1. heard_at \in Nat /\ phase.resume_at \in Instant
      /\ (phase.at = "Checking" => phase.since \in Nat)
  BY DEF TypeOK, Time, Phase
<1>2. Hold \in Nat
  BY <1>1, Bounds DEF Hold, Instant, Time
<1>. QED
  BY <1>1, <1>2, Bounds DEF ReachFacts, Reach, Larger

LEMMA ReachTypeNext == TypeOK' => ReachFacts'
BY ReachType, PTL

LEMMA ReachBound ==
  ASSUME TypeOK, HoldInv
  PROVE  Reach + Lateness + CallSecs + CallSecs <= heard_at + MaxSilence
<1>1. heard_at \in Nat /\ phase.resume_at \in Instant
      /\ (phase.at = "Checking" => phase.since \in Nat)
  BY DEF TypeOK, Time, Phase
<1>2. Hold + Lateness + CallSecs + CallSecs <= heard_at + MaxSilence
  BY <1>1, Bounds DEF Hold, HoldInv, Instant, Time
<1>. QED
  BY <1>1, <1>2, Bounds DEF Reach, Larger

(* A poll that returns at a moment the car is heard of starts a new wait. *)
LEMMA HeardAndWaiting ==
  ASSUME TypeOK, TypeOK', SilenceInv, UNCHANGED <<now, settings, cfg>>,
         pc' = "waiting", heard_at' = now,
         NEW wait \in 0..MaxWait, next_poll' = now + wait,
         \/ phase' = phase
         \/ phase'.at \in {"Startup", "Asleep", "Awake"}
         \/ /\ phase'.at = "Suspended"
            /\ phase'.resume_at = IF K.use_streaming THEN None ELSE now + K.suspend_for
  PROVE  SilenceInv'
<1>1. /\ now \in Nat /\ now' = now /\ K' = K /\ heard_at \in 0..now
      /\ phase'.resume_at \in Instant /\ phase' \in Phase /\ phase \in Phase
  BY DEF TypeOK, Time, Phase, K
<1>2. MaxWait' = MaxWait /\ Turn' = Turn
  BY <1>1 DEF MaxWait, Turn
<1>3. cfg' = K'
  BY <1>1 DEF SilenceInv
<1>4. HoldInv'
  <2>1. MaxWait \in Nat /\ Turn \in Nat /\ K.suspend_for \in Nat
    BY Bounds
  <2>2. phase.resume_at \in Instant
        /\ (phase.at = "Checking" => phase.since \in Nat)
    BY <1>1 DEF TypeOK, Phase
  <2>3. CASE phase' = phase
    BY <1>1, <1>2, <2>1, <2>2, <2>3 DEF HoldInv, SilenceInv, Instant, Time
  <2>4. CASE phase' # phase
    BY <1>1, <1>2, <2>1, <2>4, PolicyAssumption DEF HoldInv, SilenceInv, Instant, Time
  <2>. QED
    BY <2>3, <2>4
<1>5. next_poll' <= Reach' /\ now' <= next_poll' + Lateness
  <2>1. MaxWait \in Nat /\ Lateness \in Nat
    BY Bounds
  <2>2. Reach' \in Nat /\ now + MaxWait <= Reach'
    BY <1>1, <1>2, ReachTypeNext DEF ReachFacts
  <2>. QED
    BY <1>1, <2>1, <2>2
<1>. QED
  BY <1>3, <1>4, <1>5 DEF SilenceInv, AwaitInv

(* The bounds depend on settings alone, which no step of Next changes. *)
LEMMA SameBounds ==
  ASSUME settings' = settings
  PROVE  K' = K /\ MaxWait' = MaxWait /\ Turn' = Turn /\ MaxSilence' = MaxSilence
BY DEF K, MaxWait, Turn, MaxSilence

(* The summary answers: a car that is held back waits no longer than its hold. *)
LEMMA SummarySilence ==
  ASSUME TypeOK, TypeOK', SilenceInv, NEW answer \in SummaryState, Summary(answer)
  PROVE  SilenceInv'
<1>. DEFINE a == plan(phase, answer, now, cfg)
<1>1. /\ now \in Nat /\ now' = now /\ settings' = settings /\ phase \in Phase
      /\ cfg = K /\ HoldInv /\ heard_at \in 0..now /\ pc = "summary"
      /\ started <= Reach + Lateness /\ now <= started + CallSecs /\ started \in Nat
      /\ (phase.at \in {"Checking", "Awake", "Suspended"} => phase.since \in 0..now)
  BY DEF TypeOK, Time, Summary, SilenceInv, AwaitInv
<1>2. K' = K /\ MaxWait' = MaxWait /\ Turn' = Turn /\ MaxSilence' = MaxSilence
  BY <1>1, SameBounds
<1>3. /\ MaxWait \in Nat /\ Turn \in Nat /\ MaxSilence \in Nat /\ Lateness \in Nat
      /\ CallSecs \in Nat /\ ProbeSecs \in Nat /\ K.asleep_interval \in 0..MaxWait
      /\ K.subsystem_grace \in Nat /\ K.suspend_for \in Nat
      /\ Turn = Lateness + CallSecs + ProbeSecs
  BY Bounds
<1>4. Reach \in Nat /\ Hold \in Nat /\ Hold <= Reach
  BY ReachType DEF ReachFacts
<1>5. CASE a.do = "SummaryOnly"
  <2>1. Done(a.phase, a.wait)
    BY <1>5 DEF Summary
  <2>2. /\ pc' = "waiting" /\ cfg' = cfg /\ phase' = a.phase /\ next_poll' = now + a.wait
    BY <2>1 DEF Done, Returned
  <2>3. CASE answer # "online"
    <3>1. a.phase \in {Asleep, phase} /\ a.wait = K.asleep_interval
      BY <1>1, <1>5, <2>3, PlanCases DEF SummaryOnly, Probe, VehicleData
    <3>2. heard_at' = now
      BY <2>3 DEF Summary, Explained
    <3>. QED
      BY <1>1, <1>3, <2>2, <3>1, <3>2, HeardAndWaiting DEF Asleep
  <2>4. CASE answer = "online"
    <3>1. /\ a.phase = phase /\ a.wait = K.asleep_interval /\ phase.at = "Suspended"
          /\ ~K.use_streaming /\ ~OverDue(phase, now, cfg)
      BY <1>1, <1>5, <2>4, PlanCases DEF SummaryOnly, Probe, VehicleData
    <3>2. phase.resume_at # None /\ phase.resume_at \in Nat /\ now < phase.resume_at
      BY <1>1, <3>1 DEF HoldInv, OverDue, Phase, Instant, Time
    <3>3. heard_at' = heard_at /\ phase' = phase
      BY <2>2, <2>4, <3>1 DEF Summary
    <3>4. HoldInv' /\ Hold' = Hold
      BY <1>1, <1>2, <3>3 DEF HoldInv, Hold
    <3>5. now + K.asleep_interval <= Hold
      BY <1>1, <1>3, <3>1, <3>2 DEF Hold
    <3>6. Reach' \in Nat /\ Hold' <= Reach'
      BY ReachTypeNext DEF ReachFacts
    <3>7. next_poll' <= Reach' /\ now' <= next_poll' + Lateness
      BY <1>1, <1>3, <1>4, <2>2, <3>1, <3>4, <3>5, <3>6
    <3>. QED
      BY <1>1, <1>2, <2>2, <3>4, <3>7 DEF SilenceInv, AwaitInv
  <2>. QED
    BY <2>3, <2>4
<1>6. CASE a.do = "Probe"
  <2>1. /\ answer = "online" /\ ~OverDue(phase, now, cfg)
        /\ \/ a.purpose = "Suspend" /\ phase.at = "Suspended"
           \/ a.purpose = "Wake" /\ phase.at \in {"Checking", "Asleep", "Startup"}
    BY <1>1, <1>6, PlanCases DEF SummaryOnly, Probe, VehicleData
  <2>2. /\ pc' = "probe" /\ purpose' = a.purpose /\ started' = now /\ phase' = phase
        /\ cfg' = cfg /\ heard_at' = heard_at
    BY <1>6, <2>1 DEF Summary, tracked
  <2>3. HoldInv'
    BY <1>1, <1>2, <2>2 DEF HoldInv
  <2>4. now' <= started' + ProbeSecs
    BY <1>1, <1>3, <2>2
  <2>5. phase.at = "Checking" => now < phase.since + K.subsystem_grace
    BY <1>1, <1>3, <2>1 DEF OverDue
  <2>6. phase.at = "Suspended" /\ phase.resume_at # None => now < phase.resume_at
    BY <1>1, <2>1 DEF OverDue, Phase, Instant, Time
  <2>7. phase.at # "Checking" /\ ~(phase.at = "Suspended" /\ phase.resume_at # None)
          => now <= heard_at + MaxWait + Lateness + CallSecs
    BY <1>1, <1>3 DEF Hold, Reach, Larger
  <2>. QED
    BY <1>1, <1>2, <2>1, <2>2, <2>3, <2>4, <2>5, <2>6, <2>7 DEF SilenceInv, AwaitInv
<1>7. CASE a.do = "VehicleData"
  <2>1. answer = "online"
    BY <1>1, <1>7, PlanCases DEF SummaryOnly, Probe, VehicleData
  <2>2. /\ pc' = "fetch" /\ started' = now /\ phase' = phase /\ cfg' = cfg
        /\ heard_at' = heard_at
    BY <1>7, <2>1 DEF Summary, BeginFetch, tracked
  <2>3. HoldInv'
    BY <1>1, <1>2, <2>2 DEF HoldInv
  <2>4. now + CallSecs <= heard_at + MaxSilence
    BY <1>1, <1>3, <1>4, ReachBound
  <2>. QED
    BY <1>1, <1>2, <1>3, <2>2, <2>3, <2>4 DEF SilenceInv, AwaitInv
<1>. QED
  BY <1>5, <1>6, <1>7 DEF Summary

(* A probe ends: a check or a suspension goes on inside its hold, or the car *)
(* is asked for vehicle_data.                                               *)
LEMMA ProbeSilence ==
  ASSUME TypeOK, TypeOK', SilenceInv, NEW reading \in StreamReading, ProbeEnds(reading)
  PROVE  SilenceInv'
<1>. DEFINE o == after_probe(purpose, reading, phase, now, cfg)
<1>1. /\ now \in Nat /\ now' = now /\ settings' = settings /\ phase \in Phase
      /\ heard_at' = heard_at /\ heard_at \in 0..now /\ started \in Nat
      /\ purpose \in {"Wake", "Suspend"} /\ cfg \in IdleConfig
      /\ (phase.at \in {"Checking", "Awake", "Suspended"} => phase.since \in 0..now)
  BY ConfigInForce DEF TypeOK, Time, ProbeEnds, observed
<1>2. /\ cfg = K /\ HoldInv /\ now <= started + ProbeSecs
      /\ (purpose = "Suspend" <=> phase.at = "Suspended")
      /\ IF phase.at = "Checking" THEN started < phase.since + K.subsystem_grace
         ELSE IF phase.at = "Suspended" /\ phase.resume_at # None
              THEN started < phase.resume_at
              ELSE started <= heard_at + MaxWait + Lateness + CallSecs
  BY DEF ProbeEnds, SilenceInv, AwaitInv
<1>3. K' = K /\ MaxWait' = MaxWait /\ Turn' = Turn /\ MaxSilence' = MaxSilence
  BY <1>1, SameBounds
<1>4. /\ MaxWait \in Nat /\ Turn \in Nat /\ MaxSilence \in Nat /\ Lateness \in Nat
      /\ CallSecs \in Nat /\ ProbeSecs \in Nat /\ K.asleep_interval \in 0..MaxWait
      /\ K.subsystem_grace \in Nat /\ K.suspend_for \in Nat
      /\ Turn = Lateness + CallSecs + ProbeSecs
      /\ MaxSilence >= MaxWait + K.suspend_for + K.asleep_interval + 2 * Turn + CallSecs
      /\ MaxSilence >= MaxWait + K.subsystem_grace + K.asleep_interval
                       + 2 * Turn + CallSecs
  BY Bounds
<1>5. Reach' \in Nat /\ Hold' <= Reach'
  BY ReachTypeNext DEF ReachFacts
<1>6. CASE o = VehicleData
  <2>1. /\ pc' = "fetch" /\ started' = now /\ phase' = phase /\ cfg' = cfg
    BY <1>6 DEF ProbeEnds, Done, Returned, BeginFetch, VehicleData, tracked
  <2>2. HoldInv'
    BY <1>1, <1>2, <1>3, <2>1 DEF HoldInv
  <2>3. now + CallSecs <= heard_at + MaxSilence
    <3>1. CASE phase.at = "Checking"
      BY <1>1, <1>2, <1>4, <3>1 DEF HoldInv
    <3>2. CASE phase.at = "Suspended" /\ phase.resume_at # None
      BY <1>1, <1>2, <1>4, <3>2 DEF HoldInv, Phase, Instant, Time
    <3>3. CASE phase.at # "Checking" /\ ~(phase.at = "Suspended" /\ phase.resume_at # None)
      BY <1>1, <1>2, <1>4, <3>3
    <3>. QED
      BY <3>1, <3>2, <3>3
  <2>. QED
    BY <1>1, <1>2, <1>3, <1>4, <2>1, <2>2, <2>3 DEF SilenceInv, AwaitInv
<1>7. CASE o # VehicleData
  <2>1. /\ purpose = "Wake"
          => \E since \in 0..now :
               /\ o = Wait(Checking(since), cfg.asleep_interval)
               /\ since = IF phase.at = "Checking" THEN phase.since ELSE now
               /\ now - since < cfg.subsystem_grace
        /\ purpose = "Suspend"
          => \E since \in 0..now, r \in Time :
               /\ o = Wait(Suspended(since, r), cfg.asleep_interval)
               /\ r = IF phase.at = "Suspended" /\ phase.resume_at # None
                       THEN phase.resume_at ELSE now + cfg.suspend_for
    BY <1>1, <1>7, AfterProbeCases DEF Time
  <2>2. o.do = "Wait" /\ o.wait = K.asleep_interval
    BY <1>1, <1>2, <2>1 DEF Wait
  <2>3. /\ pc' = "waiting" /\ phase' = o.phase /\ cfg' = cfg
        /\ next_poll' = now + K.asleep_interval
    BY <2>2 DEF ProbeEnds, Done, Returned
  <2>4. HoldInv' /\ now + K.asleep_interval <= Hold'
    <3>1. CASE purpose = "Wake"
      <4>1. PICK since \in 0..now :
              /\ o.phase = Checking(since)
              /\ since = IF phase.at = "Checking" THEN phase.since ELSE now
              /\ now - since < K.subsystem_grace
        BY <1>2, <2>1, <3>1 DEF Wait
      <4>2. since <= heard_at + MaxWait + Turn
        BY <1>1, <1>2, <1>4, <3>1, <4>1 DEF HoldInv
      <4>. QED
        BY <1>1, <1>3, <1>4, <2>3, <4>1, <4>2 DEF HoldInv, Hold, Checking
    <3>2. CASE purpose = "Suspend"
      <4>1. PICK r \in Time : /\ o.phase.at = "Suspended" /\ o.phase.resume_at = r
                              /\ r = IF phase.resume_at # None
                                      THEN phase.resume_at ELSE now + K.suspend_for
        BY <1>2, <2>1, <3>2 DEF Wait, Suspended
      <4>2. r # None
        BY PolicyAssumption DEF Time
      <4>3. CASE phase.resume_at # None
        BY <1>1, <1>2, <1>3, <1>4, <2>3, <3>2, <4>1, <4>2, <4>3 DEF HoldInv, Hold, Time
      <4>4. CASE phase.resume_at = None
        BY <1>1, <1>2, <1>3, <1>4, <2>3, <3>2, <4>1, <4>2, <4>4 DEF HoldInv, Hold, Time
      <4>. QED
        BY <4>3, <4>4
    <3>. QED
      BY <1>1, <3>1, <3>2
  <2>5. next_poll' <= Reach' /\ now' <= next_poll' + Lateness
    <3>1. Hold' \in Nat
      BY ReachTypeNext DEF ReachFacts
    <3>. QED
      BY <1>1, <1>4, <1>5, <2>3, <2>4, <3>1
  <2>. QED
    BY <1>2, <1>3, <2>3, <2>4, <2>5 DEF SilenceInv, AwaitInv
<1>. QED
  BY <1>6, <1>7

(* vehicle_data answers, or the stream is left: the car has been heard of. *)
LEMMA FetchedSilence ==
  ASSUME TypeOK, TypeOK', SilenceInv, NEW data \in Readings, Fetched(data)
  PROVE  SilenceInv'
<1>. DEFINE a == apply_vehicle_data(data, phase, now, cfg)
<1>1. /\ now \in Nat /\ now' = now /\ settings' = settings /\ heard_at' = now
      /\ cfg \in IdleConfig /\ phase \in Phase /\ data \in Reading
      /\ heard_at \in 0..now
  BY ConfigInForce, PollerAssumption DEF TypeOK, Time, Fetched
<1>2. /\ a.activity = activity(data)
      /\ a.wait \in {cfg.active_poll, cfg.idle_poll, cfg.user_present_poll,
                     cfg.keeper_poll, cfg.blocked_poll, cfg.asleep_interval}
      /\ \/ \E since \in 0..now : a.phase = Awake(since)
         \/ /\ a.activity = "Idle"
            /\ \E since \in 0..now :
                 a.phase = Suspended(since, IF cfg.use_streaming THEN None
                                            ELSE now + cfg.suspend_for)
  BY <1>1, AppliedCases DEF TypeOK, Time
<1>. HIDE DEF a
<1>3. cfg = K
  BY DEF SilenceInv
<1>4. a.wait \in 0..MaxWait
  BY <1>2, <1>3, Bounds
<1>. DEFINE r == IF K.use_streaming THEN None ELSE now + K.suspend_for
<1>5. \/ a.phase.at = "Awake"
      \/ a.phase.at = "Suspended" /\ a.phase.resume_at = r
  <2>1. \/ \E since \in 0..now : a.phase = Awake(since)
        \/ \E since \in 0..now : a.phase = Suspended(since, r)
    BY <1>2, <1>3
  <2>. HIDE DEF r
  <2>2. \A since : Awake(since).at = "Awake"
    BY DEF Awake
  <2>3. \A since : Suspended(since, r).at = "Suspended" /\ Suspended(since, r).resume_at = r
    BY DEF Suspended
  <2>. QED
    BY <2>1, <2>2, <2>3
<1>6. CASE pc' = "connect"
  <2>1. phase' = phase /\ cfg' = cfg
    BY <1>6 DEF Fetched, Done, Returned, tracked
  <2>2. K' = K /\ MaxWait' = MaxWait /\ Turn' = Turn
    BY <1>1, SameBounds
  <2>3. MaxWait \in Nat /\ Turn \in Nat /\ K.suspend_for \in Nat
    BY Bounds
  <2>4. HoldInv'
    BY <1>1, <2>1, <2>2, <2>3 DEF HoldInv, SilenceInv, TypeOK, Phase, Instant, Time
  <2>. QED
    BY <1>1, <1>6, <2>1, <2>2, <2>4 DEF SilenceInv, AwaitInv
<1>7. CASE pc' # "connect"
  <2>1. Done(a.phase, a.wait)
    BY <1>7 DEF Fetched, a
  <2>. QED
    BY <1>1, <1>4, <1>5, <2>1, HeardAndWaiting DEF Done, Returned
<1>. QED
  BY <1>6, <1>7

LEMMA StreamReturnsSilence ==
  ASSUME TypeOK, TypeOK', SilenceInv, NEW since \in 0..now, StreamReturns(Awake(since))
  PROVE  SilenceInv'
<1>1. /\ UNCHANGED <<now, settings, cfg>> /\ pc' = "waiting" /\ heard_at' = now
      /\ next_poll' = now + cfg.active_poll /\ phase'.at = "Awake"
  BY DEF StreamReturns, Done, Returned, Explained, Awake
<1>2. cfg.active_poll \in 0..MaxWait
  BY Bounds DEF SilenceInv
<1>. QED
  BY <1>1, <1>2, HeardAndWaiting

(* Rows and frames of an open stream, and its opening. *)
LEMMA StreamingSilence ==
  ASSUME TypeOK, SilenceInv, pc' = "stream",
         UNCHANGED <<now, settings, phase, cfg, heard_at>>
  PROVE  SilenceInv'
<1>1. K' = K /\ MaxWait' = MaxWait /\ Turn' = Turn
  BY SameBounds
<1>. QED
  BY <1>1 DEF SilenceInv, HoldInv, AwaitInv

LEMMA SilenceInit == ASSUME Init, TypeOK PROVE SilenceInv
<1>1. /\ phase.at = "Startup" /\ pc = "waiting" /\ next_poll = now /\ heard_at = now
      /\ cfg = K /\ now \in Nat
  BY DEF Init, Startup, K, TypeOK, Time
<1>2. Reach >= heard_at + MaxWait /\ Reach \in Nat /\ MaxWait \in Nat /\ Lateness \in Nat
  BY ReachType, Bounds DEF ReachFacts
<1>. QED
  BY <1>1, <1>2 DEF SilenceInv, HoldInv, AwaitInv

LEMMA TickSilence == ASSUME TypeOK, SilenceInv, Tick PROVE SilenceInv'
<1>1. /\ UNCHANGED <<settings, phase, next_poll, pc, cfg, purpose, started, heard_at>>
      /\ now' = now + 1 /\ now \in Nat /\ next_poll \in Nat /\ started \in Nat
      /\ (pc = "waiting" => now < next_poll + Lateness)
      /\ (pc \in {"summary", "fetch"} => now < started + CallSecs)
      /\ (pc = "probe" => now < started + ProbeSecs)
  BY DEF Tick, TypeOK, Time, tracked, locals, observed
<1>2. /\ K' = K /\ MaxWait' = MaxWait /\ Turn' = Turn /\ MaxSilence' = MaxSilence
      /\ Hold' = Hold /\ Reach' = Reach
  BY <1>1, SameBounds DEF Hold, Reach
<1>3. Lateness \in Nat /\ CallSecs \in Nat /\ ProbeSecs \in Nat
  BY Bounds
<1>4. HoldInv'
  BY <1>1, <1>2 DEF SilenceInv, HoldInv
<1>5. AwaitInv'
  <2>1. pc = "waiting" => next_poll' <= Reach' /\ now' <= next_poll' + Lateness
    BY <1>1, <1>2, <1>3 DEF SilenceInv, AwaitInv
  <2>2. pc = "summary" => started' <= Reach' + Lateness /\ now' <= started' + CallSecs
    BY <1>1, <1>2, <1>3 DEF SilenceInv, AwaitInv
  <2>3. pc \in {"probe", "fetch"} => now' <= started' + IF pc = "probe" THEN ProbeSecs
                                                        ELSE CallSecs
    BY <1>1, <1>3
  <2>. QED
    BY <1>1, <1>2, <2>1, <2>2, <2>3 DEF SilenceInv, AwaitInv
<1>. QED
  BY <1>1, <1>2, <1>4, <1>5 DEF SilenceInv

LEMMA SilenceStep ==
  ASSUME TypeOK, TypeOK', SilenceInv, [Next]_vars PROVE SilenceInv'
<1>0. now \in Nat /\ heard_at \in 0..now
  BY DEF TypeOK, Time
<1>1. CASE Tick
  BY <1>1, TickSilence
<1>2. CASE BeginPoll
  <2>1. /\ UNCHANGED <<now, settings, phase, heard_at>> /\ pc' = "summary"
        /\ cfg' = K /\ started' = now
        /\ next_poll <= Reach /\ now <= next_poll + Lateness
    BY <1>2 DEF BeginPoll, tracked, observed, K, SilenceInv, AwaitInv
  <2>2. /\ K' = K /\ MaxWait' = MaxWait /\ Turn' = Turn /\ Reach' = Reach
    BY <2>1, SameBounds DEF Reach, Hold
  <2>3. now <= Reach + Lateness /\ now <= now + CallSecs
    BY <1>0, <2>1, ReachType, Bounds DEF ReachFacts, TypeOK, Time
  <2>4. HoldInv'
    BY <2>1, <2>2 DEF HoldInv, SilenceInv
  <2>. QED
    BY <2>1, <2>2, <2>3, <2>4 DEF SilenceInv, AwaitInv
<1>3. CASE SummaryFails \/ FetchFails
  <2>1. Failed
    BY <1>3 DEF SummaryFails, FetchFails
  <2>2. PICK wait \in 0..MaxWait : next_poll' = now + wait
    BY <2>1, Bounds DEF Failed
  <2>. QED
    BY <2>1, <2>2, HeardAndWaiting DEF Failed, Returned, Explained
<1>4. CASE \E answer \in SummaryState : Summary(answer)
  BY <1>4, SummarySilence
<1>5. CASE \E reading \in StreamReading : ProbeEnds(reading)
  BY <1>5, ProbeSilence
<1>6. CASE \E data \in Readings : Fetched(data)
  BY <1>6, FetchedSilence
<1>7. CASE StreamConnected \/ StreamDrivingRow \/ StreamOtherFrame
           \/ (StreamParkedRow /\ pc' # "waiting")
  <2>1. pc' = "stream" /\ UNCHANGED <<now, settings, phase, cfg, heard_at>>
    BY <1>7 DEF StreamConnected, StreamDrivingRow, StreamOtherFrame, StreamParkedRow,
                StreamReturns, Done, Returned, tracked, observed
  <2>. QED
    BY <2>1, StreamingSilence
<1>8. CASE StreamStops \/ StreamTimesOut \/ (StreamParkedRow /\ pc' = "waiting")
  BY <1>8, StreamLeaves, StreamReturnsSilence
<1>9. CASE Restart
  <2>1. /\ UNCHANGED <<now, settings, cfg>> /\ pc' = "waiting" /\ heard_at' = now
        /\ next_poll' = now + 0 /\ phase'.at = "Startup"
    BY <1>0, <1>9 DEF Restart, Returned, Explained, Startup
  <2>2. 0 \in 0..MaxWait
    BY Bounds
  <2>. QED
    BY <2>1, <2>2, HeardAndWaiting
<1>10. CASE UNCHANGED vars
  <2>1. UNCHANGED <<now, settings, phase, next_poll, pc, cfg, purpose, started, heard_at>>
    BY <1>10 DEF vars, tracked, locals, observed
  <2>2. /\ K' = K /\ MaxWait' = MaxWait /\ Turn' = Turn /\ MaxSilence' = MaxSilence
        /\ Hold' = Hold /\ Reach' = Reach
    BY <2>1, SameBounds DEF Hold, Reach
  <2>. QED
    BY <2>1, <2>2 DEF SilenceInv, HoldInv, AwaitInv
<1>. QED
  BY <1>1, <1>2, <1>3, <1>4, <1>5, <1>6, <1>7, <1>8, <1>9, <1>10 DEF Next

LEMMA SilenceFollows == ASSUME TypeOK, SilenceInv PROVE SilenceBounded
<1>1. /\ now \in Nat /\ heard_at \in Nat /\ next_poll \in Nat /\ started \in Nat
      /\ pc \in PC /\ phase \in Phase
      /\ (phase.at \in {"Checking", "Awake", "Suspended"} => phase.since \in 0..now)
  BY DEF TypeOK, Time
<1>2. /\ MaxWait \in Nat /\ Turn \in Nat /\ MaxSilence \in Nat /\ Lateness \in Nat
      /\ CallSecs \in Nat /\ ProbeSecs \in Nat /\ K.asleep_interval \in Nat
      /\ K.subsystem_grace \in Nat /\ K.suspend_for \in Nat
      /\ Turn = Lateness + CallSecs + ProbeSecs
      /\ MaxSilence >= MaxWait + K.suspend_for + K.asleep_interval + 2 * Turn + CallSecs
      /\ MaxSilence >= MaxWait + K.subsystem_grace + K.asleep_interval
                       + 2 * Turn + CallSecs
  BY Bounds
<1>3. Reach \in Nat /\ Reach + Lateness + CallSecs + CallSecs <= heard_at + MaxSilence
  BY ReachType, ReachBound DEF ReachFacts, SilenceInv
<1>4. CASE pc \in {"waiting", "summary", "fetch"}
  BY <1>1, <1>2, <1>3, <1>4 DEF SilenceInv, AwaitInv, SilenceBounded
<1>5. CASE pc = "probe"
  <2>1. CASE phase.at = "Checking"
    BY <1>1, <1>2, <1>5, <2>1 DEF SilenceInv, AwaitInv, HoldInv, SilenceBounded
  <2>2. CASE phase.at = "Suspended" /\ phase.resume_at # None
    BY <1>1, <1>2, <1>5, <2>2
       DEF SilenceInv, AwaitInv, HoldInv, SilenceBounded, Phase, Instant, Time
  <2>3. CASE phase.at # "Checking" /\ ~(phase.at = "Suspended" /\ phase.resume_at # None)
    BY <1>1, <1>2, <1>5, <2>3 DEF SilenceInv, AwaitInv, SilenceBounded
  <2>. QED
    BY <2>1, <2>2, <2>3
<1>6. CASE pc \in {"connect", "stream"}
  BY <1>6 DEF SilenceBounded
<1>. QED
  BY <1>1, <1>4, <1>5, <1>6 DEF PC

(* No car that is online goes unobserved for longer than one suspension or one *)
(* subsystem check and a few polls, whatever the stream reports: plan gives     *)
(* vehicle_data back when the deadline has passed, and the quiet probes between *)
(* keep the deadline and the start of the check where they were.                *)
THEOREM SilenceIsBounded == Spec => []SilenceBounded
<1>1. Init => TypeOK /\ SilenceInv
  BY TypeInit, SilenceInit
<1>2. TypeOK /\ SilenceInv /\ [Next]_vars => (TypeOK /\ SilenceInv)'
  BY TypeStep, SilenceStep
<1>3. TypeOK /\ SilenceInv => SilenceBounded
  BY SilenceFollows
<1>. QED
  BY <1>1, <1>2, <1>3, PTL DEF Spec

-----------------------------------------------------------------------------
(* A suspension that has a deadline keeps it, and its idle_since, in every step *)
(* but a vehicle_data answer: neither a quiet probe nor a failed poll nor a      *)
(* summary that names no known state moves or clears it.                        *)
LEMMA DeadlineStep ==
  ASSUME TypeOK, [Next]_vars,
         phase.at = "Suspended", phase.resume_at # None, phase'.at = "Suspended",
         pc # "fetch"
  PROVE  phase' = phase
<1>0. phase \in Phase /\ now \in Time /\ cfg \in IdleConfig /\ purpose \in {"Wake", "Suspend"}
      /\ phase.since \in 0..now
  BY ConfigInForce DEF TypeOK
<1>1. CASE Tick \/ BeginPoll \/ SummaryFails \/ StreamConnected \/ StreamDrivingRow
           \/ StreamOtherFrame \/ UNCHANGED vars
  BY <1>1 DEF Tick, BeginPoll, SummaryFails, Failed, StreamConnected, StreamDrivingRow,
              StreamOtherFrame, vars, tracked
<1>2. CASE \E answer \in SummaryState : Summary(answer)
  <2>1. PICK answer \in SummaryState : Summary(answer)
    BY <1>2
  <2>. DEFINE a == plan(phase, answer, now, cfg)
  <2>2. CASE a.do = "SummaryOnly"
    <3>1. phase' = a.phase
      BY <2>1, <2>2 DEF Summary, Done
    <3>2. a.phase \in {Asleep, phase}
      BY <1>0, <2>2, PlanCases DEF SummaryOnly, Probe, VehicleData
    <3>. QED
      BY <3>1, <3>2 DEF Asleep
  <2>3. CASE a.do # "SummaryOnly"
    BY <2>1, <2>3 DEF Summary, tracked
  <2>. QED
    BY <2>2, <2>3
<1>3. CASE \E reading \in StreamReading : ProbeEnds(reading)
  <2>1. PICK reading \in StreamReading : ProbeEnds(reading)
    BY <1>3
  <2>2. after_probe(purpose, reading, phase, now, cfg).do = "VehicleData"
          => phase' = phase
    BY <2>1 DEF ProbeEnds, Done, tracked, Wait
  <2>. QED
    BY <1>0, <2>1, <2>2
       DEF ProbeEnds, Done, after_probe, AfterWake, AfterSuspend, Wait, VehicleData,
           Checking, Suspended, Phase
<1>4. CASE FetchFails \/ \E data \in Readings : Fetched(data)
  BY <1>4 DEF FetchFails, Fetched
<1>5. CASE StreamStops \/ StreamTimesOut \/ StreamParkedRow
  <2>1. CASE StreamParkedRow /\ pc' # "waiting"
    BY <2>1 DEF StreamParkedRow, StreamReturns, Done, Returned, tracked
  <2>2. CASE ~(StreamParkedRow /\ pc' # "waiting")
    <3>1. PICK since \in 0..now : StreamReturns(Awake(since))
      BY <1>5, <2>2, StreamLeaves
    <3>. QED
      BY <3>1 DEF StreamReturns, Done, Awake
  <2>. QED
    BY <2>1, <2>2
<1>6. CASE Restart
  BY <1>6 DEF Restart, Startup
<1>. QED
  BY <1>1, <1>2, <1>3, <1>4, <1>5, <1>6 DEF Next

(* In every behaviour, whatever the settings and the answers: the deadline a   *)
(* suspension got from apply_vehicle_data or from its first quiet probe stays,  *)
(* through probes, failed polls and unknown summaries.                          *)
THEOREM DeadlineIsFixed == Spec => DeadlineFixed
<1>1. TypeOK /\ [Next]_vars
        => [/\ phase.at = "Suspended" /\ phase.resume_at # None
            /\ phase'.at = "Suspended" /\ pc # "fetch"
            => phase' = phase]_vars
  BY DeadlineStep
<1>. QED
  BY <1>1, TypeCorrect, PTL DEF Spec, DeadlineFixed

-----------------------------------------------------------------------------
(***************************************************************************)
(* OnlyOnlineIsTouched.  Only a summary moves a poll past "summary", and   *)
(* plan asks for the stream or for vehicle_data only when it says online.  *)
(***************************************************************************)
LEMMA TouchedStep ==
  ASSUME TypeOK, OnlyOnlineIsTouched, [Next]_vars PROVE OnlyOnlineIsTouched'
<1>1. CASE pc' = "waiting"
  BY <1>1 DEF OnlyOnlineIsTouched
<1>2. CASE UNCHANGED <<pc, state>>
  BY <1>2 DEF OnlyOnlineIsTouched
<1>3. CASE BeginPoll
  BY <1>3 DEF BeginPoll, OnlyOnlineIsTouched
<1>4. CASE \E answer \in SummaryState : Summary(answer) /\ pc' # "waiting"
  <2>1. PICK answer \in SummaryState : Summary(answer) /\ pc' # "waiting"
    BY <1>4
  <2>2. plan(phase, answer, now, cfg).do # "SummaryOnly"
        /\ state' = answer
    BY <2>1 DEF Summary, Done, Returned
  <2>3. answer = "online"
    BY <2>2, PlanCases DEF TypeOK, SummaryOnly
  <2>. QED
    BY <2>2, <2>3 DEF OnlyOnlineIsTouched
<1>5. CASE \E reading \in StreamReading : ProbeEnds(reading) /\ pc' # "waiting"
  <2>1. pc = "probe" /\ state' = state
    BY <1>5 DEF ProbeEnds, Done, Returned
  <2>. QED
    BY <2>1 DEF OnlyOnlineIsTouched
<1>6. CASE \E data \in Readings : Fetched(data) /\ pc' # "waiting"
  <2>1. pc = "fetch" /\ state' = state
    BY <1>6 DEF Fetched, Done, Returned
  <2>. QED
    BY <2>1 DEF OnlyOnlineIsTouched
<1>7. CASE StreamConnected \/ StreamDrivingRow \/ StreamOtherFrame
           \/ (StreamParkedRow /\ pc' # "waiting")
  <2>1. pc \in {"connect", "stream"} /\ state' = state
    BY <1>7 DEF StreamConnected, StreamDrivingRow, StreamOtherFrame, StreamParkedRow,
                StreamReturns, Done, Returned
  <2>. QED
    BY <2>1 DEF OnlyOnlineIsTouched
<1>8. Tick \/ UNCHANGED vars => UNCHANGED <<pc, state>>
  BY DEF Tick, vars, locals
<1>9. SummaryFails \/ FetchFails \/ StreamStops \/ StreamTimesOut \/ Restart
        => pc' = "waiting"
  BY DEF SummaryFails, FetchFails, Failed, StreamStops, StreamTimesOut, StreamReturns,
         Restart, Done, Returned
<1>. QED
  BY <1>1, <1>2, <1>3, <1>4, <1>5, <1>6, <1>7, <1>8, <1>9 DEF Next

(* In every behaviour the car a poll streams from or asks vehicle_data of is one *)
(* whose summary, in the same poll, said online.                                *)
THEOREM OnlyOnlineTouched == Spec => []OnlyOnlineIsTouched
<1>1. Init => OnlyOnlineIsTouched
  BY DEF Init, OnlyOnlineIsTouched
<1>2. TypeOK /\ OnlyOnlineIsTouched /\ [Next]_vars => OnlyOnlineIsTouched'
  BY TouchedStep
<1>. QED
  BY <1>1, <1>2, TypeCorrect, PTL DEF Spec

-----------------------------------------------------------------------------
(***************************************************************************)
(* PollingSuspendsAfterIdle.  A car that is polled without streaming is    *)
(* never in a probe or a drive stream, and the idle_since of its phase     *)
(* does not lie before the last sign of use.                               *)
(***************************************************************************)
IdleClock ==
  /\ pc \notin {"probe", "connect", "stream"}
  /\ phase.at \in {"Awake", "Suspended"} => phase.since >= busy_at

PollingInv == cfg = K /\ (~K.use_streaming => IdleClock)

(* The condition can_fall_asleep reports comes first in its order. *)
LEMMA FirstBlockIsFirst ==
  ASSUME NEW data \in Reading, NEW c, ~can_fall_asleep(data, c)
  PROVE  /\ first_block(data, c) \in Blocking(data, c)
         /\ \A b \in Blocking(data, c) : BlockRank(first_block(data, c)) <= BlockRank(b)
<1>. DEFINE B == Blocking(data, c)
<1>1. B # {} /\ B \subseteq SleepBlock
  BY DEF can_fall_asleep, Blocking, Reading
<1>. HIDE DEF B
<1>2. \E b \in B : \A other \in B : BlockRank(b) <= BlockRank(other)
  BY <1>1 DEF SleepBlock, BlockRank
<1>3. first_block(data, c) = CHOOSE b \in B : \A other \in B : BlockRank(b) <= BlockRank(other)
  BY DEF first_block, B
<1>. QED
  BY <1>2, <1>3 DEF B

(* A reading that is idle and does not reset the idle clock shows no use. *)
LEMMA QuietReading ==
  ASSUME NEW data \in Reading, NEW c, activity(data) = "Idle",
         can_fall_asleep(data, c) \/ ~resets_idle(first_block(data, c))
  PROVE  ~Busy(data)
<1>. SUFFICES ASSUME NEW b \in data.blocks, BlockRank(b) < BlockRank("Unlocked")
              PROVE  FALSE
  BY DEF Busy
<1>1. b \in SleepBlock /\ BlockRank("Unlocked") = 8
  BY DEF Reading, BlockRank
<1>2. b # "Unlocked" /\ BlockRank(b) \in Int
  BY <1>1 DEF SleepBlock, BlockRank
<1>3. b \in Blocking(data, c)
  BY <1>2 DEF Blocking
<1>4. ~can_fall_asleep(data, c)
  BY <1>3 DEF can_fall_asleep
<1>5. first_block(data, c) = "Unlocked"
  BY <1>4 DEF resets_idle
<1>6. BlockRank("Unlocked") <= BlockRank(b)
  BY <1>3, <1>4, <1>5, FirstBlockIsFirst
<1>. QED
  BY <1>1, <1>2, <1>6

(* A vehicle_data answer keeps the idle clock, and suspends no car too early. *)
LEMMA FetchedIdle ==
  ASSUME TypeOK, PollingInv, ~K.use_streaming, NEW data \in Readings, Fetched(data)
  PROVE  IdleClock' /\ ~EarlySuspension
<1>. DEFINE a == apply_vehicle_data(data, phase, now, cfg)
            idle == idle_start(phase, now)
<1>1. /\ now \in Nat /\ busy_at \in 0..now /\ data \in Reading /\ cfg = K
      /\ K.idle_before_suspend \in Nat /\ ~cfg.use_streaming
  BY ConfigInForce, PollerAssumption DEF TypeOK, Time, PollingInv, IdleConfig, Positive
<1>2. idle \in 0..now /\ idle >= busy_at
  BY <1>1 DEF idle_start, PollingInv, IdleClock, TypeOK
<1>3. Done(a.phase, a.wait) /\ busy_at' = IF Busy(data) THEN now ELSE busy_at
  BY <1>1 DEF Fetched
<1>4. pc' = "waiting" /\ phase' = a.phase /\ busy_at' \in {busy_at, now}
  BY <1>3 DEF Done, Returned
<1>5. CASE activity(data) # "Idle"
  <2>1. phase' = Awake(now)
    BY <1>4, <1>5 DEF apply_vehicle_data, Applied
  <2>. QED
    BY <1>1, <1>4, <2>1 DEF Awake, IdleClock, EarlySuspension
<1>6. CASE activity(data) = "Idle" /\ ~can_fall_asleep(data, cfg)
           /\ resets_idle(first_block(data, cfg))
  <2>1. phase' = Awake(now)
    BY <1>4, <1>6 DEF apply_vehicle_data, Applied
  <2>. QED
    BY <1>1, <1>4, <2>1 DEF Awake, IdleClock, EarlySuspension
<1>7. CASE activity(data) = "Idle" /\ (can_fall_asleep(data, cfg)
                                       \/ ~resets_idle(first_block(data, cfg)))
  <2>1. busy_at' = busy_at
    BY <1>1, <1>3, <1>7, QuietReading
  <2>2. \/ phase' = Awake(idle)
        \/ /\ phase' = Suspended(idle, now + cfg.suspend_for)
           /\ now - idle >= cfg.idle_before_suspend
    BY <1>1, <1>4, <1>7 DEF apply_vehicle_data, Applied
  <2>3. phase'.since = idle /\ (phase'.at = "Suspended"
                                => now - idle >= cfg.idle_before_suspend)
    BY <2>2 DEF Awake, Suspended
  <2>. HIDE DEF idle
  <2>. QED
    BY <1>1, <1>2, <1>4, <2>1, <2>3 DEF IdleClock, EarlySuspension
<1>. QED
  BY <1>5, <1>6, <1>7

LEMMA PollingStep ==
  ASSUME TypeOK, PollingInv, [Next]_vars
  PROVE  PollingInv' /\ (~K.use_streaming => ~EarlySuspension)
<1>1. settings' = settings /\ K' = K /\ cfg' = cfg
  <2>1. settings' = settings
    BY DEF Next, Tick, BeginPoll, SummaryFails, FetchFails, Failed, Summary, ProbeEnds,
           Fetched, StreamConnected, StreamStops, StreamReturns, StreamDrivingRow,
           StreamParkedRow, StreamOtherFrame, StreamTimesOut, Restart, vars
  <2>2. cfg' = cfg \/ cfg' = config_for(settings)
    BY DEF Next, Tick, BeginPoll, SummaryFails, FetchFails, Failed, Summary, ProbeEnds,
           Fetched, StreamConnected, StreamStops, StreamReturns, StreamDrivingRow,
           StreamParkedRow, StreamOtherFrame, StreamTimesOut, Restart, vars, locals,
           Done, Returned
  <2>. QED
    BY <2>1, <2>2 DEF PollingInv, K
<1>. SUFFICES ASSUME ~K.use_streaming PROVE IdleClock' /\ ~EarlySuspension
  BY <1>1 DEF PollingInv
<1>2. cfg = K /\ IdleClock /\ ~cfg.use_streaming
  BY DEF PollingInv
<1>3. CASE UNCHANGED <<phase, busy_at>> /\ pc' \in {pc, "waiting", "summary", "fetch"}
  BY <1>2, <1>3 DEF IdleClock, EarlySuspension
<1>4. CASE \E answer \in SummaryState : Summary(answer)
  <2>1. PICK answer \in SummaryState : Summary(answer)
    BY <1>4
  <2>. DEFINE act == plan(phase, answer, now, cfg)
  <2>2. \/ act \in {SummaryOnly(Asleep, cfg.asleep_interval),
                    SummaryOnly(phase, cfg.asleep_interval)}
        \/ act = VehicleData
    BY <1>2, PlanCases DEF TypeOK
  <2>3. CASE act.do = "SummaryOnly"
    <3>1. act.phase \in {Asleep, phase}
      BY <2>2, <2>3 DEF SummaryOnly, VehicleData
    <3>2. pc' = "waiting" /\ phase' \in {Asleep, phase} /\ busy_at' = busy_at
      BY <2>1, <2>3, <3>1 DEF Summary, Done, Returned, VehicleData, SummaryOnly, Probe
    <3>. QED
      BY <1>2, <3>2 DEF IdleClock, EarlySuspension, Asleep
  <2>4. CASE act = VehicleData
    <3>1. pc' = "fetch" /\ UNCHANGED <<phase, busy_at>>
      BY <2>1, <2>4 DEF Summary, BeginFetch, VehicleData, tracked
    <3>. QED
      BY <1>3, <3>1
  <2>. QED
    BY <2>2, <2>3, <2>4 DEF SummaryOnly
<1>5. CASE \E data \in Readings : Fetched(data)
  BY <1>5, FetchedIdle
<1>6. CASE Restart
  BY <1>6 DEF Restart, Returned, Startup, IdleClock, EarlySuspension
<1>7. Tick \/ BeginPoll \/ SummaryFails \/ FetchFails \/ UNCHANGED vars
        => UNCHANGED <<phase, busy_at>> /\ pc' \in {pc, "waiting", "summary", "fetch"}
  BY DEF Tick, BeginPoll, SummaryFails, FetchFails, Failed, Returned, vars, tracked,
         observed
<1>8. ~ \/ \E reading \in StreamReading : ProbeEnds(reading)
        \/ StreamConnected \/ StreamStops \/ StreamDrivingRow \/ StreamParkedRow
        \/ StreamOtherFrame \/ StreamTimesOut
  BY <1>2 DEF IdleClock, ProbeEnds, StreamConnected, StreamStops, StreamDrivingRow,
              StreamParkedRow, StreamOtherFrame, StreamTimesOut
<1>. QED
  BY <1>3, <1>4, <1>5, <1>6, <1>7, <1>8 DEF Next

(* In every behaviour, whatever the settings and the answers: a car that is       *)
(* polled without streaming is suspended only after idle_before_suspend without   *)
(* a sign of use.                                                                 *)
THEOREM PollingSuspendsLate == Spec => PollingSuspendsAfterIdle
<1>1. Init => PollingInv
  <2>1. ASSUME Init PROVE PollingInv
    BY <2>1 DEF Init, PollingInv, IdleClock, K, Startup
  <2>. QED
    BY <2>1
<1>2. TypeOK /\ PollingInv /\ [Next]_vars => PollingInv'
  BY PollingStep
<1>3. TypeOK /\ PollingInv /\ [Next]_vars
        => [~K.use_streaming => ~EarlySuspension]_vars
  BY PollingStep
<1>. QED
  BY <1>1, <1>2, <1>3, TypeCorrect, PTL DEF Spec, PollingSuspendsAfterIdle

-----------------------------------------------------------------------------
(***************************************************************************)
(* ParkedIsSuspended.  While the run of quiet readings lasts the phase is  *)
(* Awake or Suspended since no later than its first reading, and the next  *)
(* vehicle_data answer of a car that is awake is due soon after Due.       *)
(***************************************************************************)
Due == parked_since + K.idle_before_suspend + K.idle_poll

ParkedInv ==
  parked_since # None =>
    /\ pc \notin {"connect", "stream"}
    /\ phase.at \in {"Awake", "Suspended"} /\ phase.since <= parked_since
    /\ phase.at = "Awake" =>
         /\ pc # "probe"
         /\ pc = "waiting" => next_poll <= Due
         /\ pc = "summary" => started <= Due + Lateness
         /\ pc = "fetch"   => started <= Due + Lateness + CallSecs

LEMMA ParkedBounds ==
  ASSUME TypeOK
  PROVE  /\ now \in Nat /\ next_poll \in Nat /\ started \in Nat
         /\ Lateness \in Nat /\ CallSecs \in Nat
         /\ K.idle_before_suspend \in Nat /\ K.idle_poll \in Nat
         /\ parked_since # None => parked_since \in 0..now
BY ConfigInForce, PollerAssumption DEF TypeOK, Time, IdleConfig, Positive

LEMMA ParkedFollows ==
  ASSUME TypeOK, SilenceInv, ParkedInv PROVE ParkedIsSuspended
<1>. SUFFICES ASSUME parked_since # None, phase.at = "Awake"
              PROVE  now <= Due + Lateness + 2 * CallSecs
  BY ParkedBounds DEF ParkedIsSuspended, Due
<1>1. Due \in Nat
  BY ParkedBounds DEF Due
<1>2. pc \in {"waiting", "summary", "fetch"}
  BY DEF ParkedInv, TypeOK, PC
<1>. QED
  BY <1>1, <1>2, ParkedBounds DEF ParkedInv, SilenceInv, AwaitInv

LEMMA ParkedSummary ==
  ASSUME TypeOK, SilenceInv, ParkedInv, NEW answer \in SummaryState, Summary(answer)
  PROVE  ParkedInv'
<1>. DEFINE act == plan(phase, answer, now, cfg)
<1>. SUFFICES ASSUME parked_since' # None PROVE ParkedInv'
  BY DEF ParkedInv
<1>1. /\ answer = "online" /\ parked_since' = parked_since /\ pc = "summary"
      /\ settings' = settings /\ K' = K /\ now' = now
  BY DEF Summary, Explained, K
<1>2. phase.at \in {"Awake", "Suspended"} /\ phase.since <= parked_since
  BY <1>1 DEF ParkedInv
<1>3. \/ act = SummaryOnly(phase, cfg.asleep_interval) /\ phase.at = "Suspended"
      \/ act = Probe("Suspend") /\ phase.at = "Suspended"
      \/ act = VehicleData
  BY <1>1, <1>2, PlanCases DEF TypeOK
<1>4. CASE act = SummaryOnly(phase, cfg.asleep_interval) /\ phase.at = "Suspended"
  <2>1. pc' = "waiting" /\ phase' = phase
    BY <1>4 DEF Summary, Done, Returned, SummaryOnly
  <2>. QED
    BY <1>1, <1>2, <1>4, <2>1 DEF ParkedInv
<1>5. CASE act = Probe("Suspend") /\ phase.at = "Suspended"
  <2>1. pc' = "probe" /\ phase' = phase
    BY <1>5 DEF Summary, Probe, tracked
  <2>. QED
    BY <1>1, <1>2, <1>5, <2>1 DEF ParkedInv
<1>6. CASE act = VehicleData
  <2>1. pc' = "fetch" /\ phase' = phase /\ started' = now
    BY <1>6 DEF Summary, BeginFetch, VehicleData, tracked
  <2>2. phase.at = "Awake" => now <= Due + Lateness + CallSecs
    <3>1. Due \in Nat
      BY <1>1, ParkedBounds DEF Due
    <3>. QED
      BY <1>1, <3>1, ParkedBounds DEF ParkedInv, SilenceInv, AwaitInv
  <2>3. Due' = Due
    BY <1>1 DEF Due
  <2>. QED
    BY <1>1, <1>2, <2>1, <2>2, <2>3 DEF ParkedInv
<1>. QED
  BY <1>3, <1>4, <1>5, <1>6

LEMMA ParkedFetched ==
  ASSUME TypeOK, SilenceInv, ParkedInv, NEW data \in Readings, Fetched(data)
  PROVE  ParkedInv'
<1>. DEFINE a == apply_vehicle_data(data, phase, now, cfg)
            idle == idle_start(phase, now)
<1>. SUFFICES ASSUME parked_since' # None PROVE ParkedInv'
  BY DEF ParkedInv
<1>1. /\ activity(data) = "Idle" /\ can_fall_asleep(data, cfg) /\ cfg = K /\ K' = K
      /\ parked_since' = IF parked_since = None THEN now ELSE parked_since
  BY DEF Fetched, SilenceInv, K
<1>2. Done(a.phase, a.wait)
  BY <1>1 DEF Fetched, apply_vehicle_data, Applied
<1>3. pc' = "waiting" /\ phase' = a.phase /\ next_poll' = now + a.wait
  BY <1>2 DEF Done, Returned
<1>4. idle \in 0..now /\ parked_since' \in Nat /\ idle <= parked_since'
  BY <1>1, ParkedBounds DEF idle_start, ParkedInv, TypeOK
<1>5. \/ a.phase.at = "Suspended" /\ a.phase.since = idle
      \/ /\ a.phase = Awake(idle) /\ a.wait = K.idle_poll
         /\ ~(now - idle >= K.idle_before_suspend)
  BY <1>1 DEF apply_vehicle_data, Applied, Suspended
<1>. HIDE DEF idle, a
<1>6. CASE a.phase.at = "Suspended" /\ a.phase.since = idle
  BY <1>3, <1>4, <1>6 DEF ParkedInv
<1>7. CASE /\ a.phase = Awake(idle) /\ a.wait = K.idle_poll
           /\ ~(now - idle >= K.idle_before_suspend)
  <2>1. next_poll' <= Due'
    BY <1>1, <1>3, <1>4, <1>7, ParkedBounds DEF Due
  <2>2. phase'.at = "Awake" /\ phase'.since = idle
    BY <1>3, <1>7 DEF Awake
  <2>. QED
    BY <1>3, <1>4, <2>1, <2>2 DEF ParkedInv
<1>. QED
  BY <1>5, <1>6, <1>7

LEMMA ParkedStep ==
  ASSUME TypeOK, SilenceInv, ParkedInv, [Next]_vars PROVE ParkedInv'
<1>. SUFFICES ASSUME parked_since' # None PROVE ParkedInv'
  BY DEF ParkedInv
<1>1. CASE \E answer \in SummaryState : Summary(answer)
  BY <1>1, ParkedSummary
<1>2. CASE \E data \in Readings : Fetched(data)
  BY <1>2, ParkedFetched
<1>3. CASE Tick \/ UNCHANGED vars
  <2>1. UNCHANGED <<settings, pc, phase, next_poll, started, parked_since>>
    BY <1>3 DEF Tick, vars, tracked, locals, observed
  <2>. QED
    BY <2>1 DEF ParkedInv, Due, K
<1>4. CASE BeginPoll
  <2>1. /\ pc = "waiting" /\ pc' = "summary" /\ started' = now
        /\ UNCHANGED <<settings, phase, parked_since>>
    BY <1>4 DEF BeginPoll, tracked, observed
  <2>2. Due' = Due /\ Due \in Nat
    BY <2>1, ParkedBounds DEF Due, K
  <2>3. phase.at = "Awake" => now <= Due + Lateness
    BY <2>1, <2>2, ParkedBounds DEF ParkedInv, SilenceInv, AwaitInv
  <2>. QED
    BY <2>1, <2>2, <2>3 DEF ParkedInv
<1>5. CASE \E reading \in StreamReading : ProbeEnds(reading)
  <2>1. PICK reading \in StreamReading : ProbeEnds(reading)
    BY <1>5
  <2>2. pc = "probe" /\ parked_since' = parked_since
    BY <2>1 DEF ProbeEnds, observed
  <2>3. phase.at = "Suspended" /\ phase.since <= parked_since /\ purpose = "Suspend"
    BY <2>2 DEF ParkedInv, SilenceInv, AwaitInv
  <2>4. /\ phase'.at = "Suspended" /\ phase'.since = phase.since
        /\ pc' \in {"waiting", "fetch"}
    BY <2>1, <2>3 DEF ProbeEnds, after_probe, AfterSuspend, Wait, VehicleData, Suspended,
                      Done, Returned, BeginFetch, tracked
  <2>. QED
    BY <2>2, <2>3, <2>4 DEF ParkedInv
<1>6. SummaryFails \/ FetchFails \/ Restart => parked_since' = None
  BY DEF SummaryFails, FetchFails, Failed, Restart, Explained
<1>7. StreamConnected \/ StreamStops \/ StreamDrivingRow \/ StreamParkedRow
      \/ StreamOtherFrame \/ StreamTimesOut
        => pc \in {"connect", "stream"} /\ parked_since' \in {None, parked_since}
  BY DEF StreamConnected, StreamStops, StreamDrivingRow, StreamParkedRow,
         StreamOtherFrame, StreamTimesOut, StreamReturns, Explained, observed
<1>8. ~ \/ StreamConnected \/ StreamStops \/ StreamDrivingRow \/ StreamParkedRow
        \/ StreamOtherFrame \/ StreamTimesOut
  BY <1>7 DEF ParkedInv
<1>. QED
  BY <1>1, <1>2, <1>3, <1>4, <1>5, <1>6, <1>8 DEF Next

(* In every behaviour, whatever the settings and the answers: a car that every    *)
(* reading finds free to sleep is suspended in time.                              *)
THEOREM ParkedSuspends == Spec => []ParkedIsSuspended
<1>1. Init => TypeOK /\ SilenceInv /\ ParkedInv
  BY TypeInit, SilenceInit DEF Init, ParkedInv
<1>2. TypeOK /\ SilenceInv /\ ParkedInv /\ [Next]_vars => (TypeOK /\ SilenceInv /\ ParkedInv)'
  BY TypeStep, SilenceStep, ParkedStep
<1>3. TypeOK /\ SilenceInv /\ ParkedInv => ParkedIsSuspended
  BY ParkedFollows
<1>. QED
  BY <1>1, <1>2, <1>3, PTL DEF Spec
=============================================================================
