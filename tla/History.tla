------------------------------ MODULE History ------------------------------
(***************************************************************************)
(* The history of one car besides its sessions: its states and its         *)
(* software updates (record_state and sync_updates of src/logger.rs), and  *)
(* the snapshot with the last reading, from which the logger catches up    *)
(* when it starts (src/live.rs).  The refresh command records updates      *)
(* from another process and stores no snapshot (src/refresh.rs).  A        *)
(* version is numbered in the order in which the car got it.  When the     *)
(* logger asks for vehicle_data is in Poller; what the live view makes of  *)
(* the snapshot is left out, and so are readings without a version.        *)
(***************************************************************************)
EXTENDS Naturals, Sequences

CONSTANTS
  None,
  States,         \* of the summary, "online" among them
  MaxTime,        \* bound on the clock
  MaxEvents       \* bound on what happens to the car and on commands, failures and crashes

VARIABLES
  now,
  events,    \* so far
  car,       \* the car itself
  states,    \* rows of states, in the order of their ids
  updates,   \* rows of updates, in the order of their ids
  snapshot,  \* detail_at and data_json of vehicle_snapshots, or None
  tasks      \* poll_car of the logger, and the refresh command

vars == <<now, events, car, states, updates, snapshot, tasks>>

Time    == 0..MaxTime
Version == 1..(MaxEvents + 1)
Data    == [version : Version, installing : BOOLEAN]
State   == [state : States, start : Time, end : Time \cup {None}]
Update  == [start : Time, end : Time \cup {None}, version : Version \cup {None}]
Tasks   == {"logger", "refresh"}
\* What a task does next; row is the update to close, or 0 to insert one.
Task    == [at : {"idle", "start", "end", "insert", "fetch", "store", "sync", "resync", "write"},
            state : States \cup {None}, data : Data \cup {None}, date : Time \cup {None}, row : Nat]
Idle    == [at |-> "idle", state |-> None, data |-> None, date |-> None, row |-> 0]

ASSUME HistoryAssumption ==
  /\ "online" \in States /\ None \notin States \cup Nat \cup Data \cup [at : Nat, data : Data]
  /\ MaxTime \in Nat /\ MaxEvents \in Nat

TypeOK ==
  /\ now \in Time /\ events \in 0..MaxEvents
  /\ car \in [state : States, version : Version, installing : BOOLEAN]
  /\ states \in Seq(State) /\ updates \in Seq(Update)
  /\ snapshot \in [at : Time, data : Data] \cup {None}
  /\ tasks \in [Tasks -> Task]

Init ==
  /\ now = 0 /\ events = 0
  /\ car \in [state : States, version : {1}, installing : {FALSE}]
  /\ states = <<>> /\ updates = <<>>
  /\ snapshot = None
  /\ tasks = [t \in Tasks |-> IF t = "logger" THEN [Idle EXCEPT !.at = "start"] ELSE Idle]

-----------------------------------------------------------------------------
At(t, step) == tasks[t].at = step
Goto(t, task) == tasks' = [tasks EXCEPT ![t] = task]
Event == events < MaxEvents /\ events' = events + 1

-----------------------------------------------------------------------------
(* record_state: two statements.  The logger alone writes states. *)

Current == {i \in DOMAIN states : states[i].end = None}
\* ORDER BY start_date DESC, id DESC
Latest(rows, table) ==
  {i \in rows : \A j \in rows : \/ table[j].start < table[i].start
                                \/ table[j].start = table[i].start /\ j <= i}

Recorded(task) == IF task.state = "online" THEN [task EXCEPT !.at = "fetch"] ELSE Idle

Summary ==
  LET task == [Idle EXCEPT !.state = car.state, !.date = now] IN
  /\ At("logger", "idle")
  /\ \/ Current = {} /\ Goto("logger", [task EXCEPT !.at = "insert"])
     \/ \E i \in Latest(Current, states) :
          Goto("logger", IF states[i].state = car.state THEN Recorded(task)
                         ELSE [task EXCEPT !.at = "end", !.row = i])
  /\ UNCHANGED <<now, events, car, states, updates, snapshot>>

\* Mutant: the new row before the end of the old one.
EndState_last ==
  /\ At("logger", "end")
  /\ states' = Append(states, [state |-> tasks["logger"].state, start |-> tasks["logger"].date, end |-> None])
  /\ Goto("logger", Recorded(tasks["logger"]))
  /\ UNCHANGED <<now, events, car, updates, snapshot>>

EndState ==
  /\ At("logger", "end")
  /\ states' = [states EXCEPT ![tasks["logger"].row].end = tasks["logger"].date]
  /\ Goto("logger", [tasks["logger"] EXCEPT !.at = "insert", !.row = 0])
  /\ UNCHANGED <<now, events, car, updates, snapshot>>

InsertState ==
  /\ At("logger", "insert")
  /\ states' = Append(states, [state |-> tasks["logger"].state, start |-> tasks["logger"].date, end |-> None])
  /\ Goto("logger", Recorded(tasks["logger"]))
  /\ UNCHANGED <<now, events, car, updates, snapshot>>

\* plan wants no vehicle_data now.
SummaryOnly ==
  /\ At("logger", "fetch")
  /\ Goto("logger", Idle)
  /\ UNCHANGED <<now, events, car, states, updates, snapshot>>

-----------------------------------------------------------------------------
(* vehicle_data. *)

Reading == [version |-> car.version, installing |-> car.installing]

\* Tesla answers for a car that is online.
Read ==
  /\ At("logger", "fetch") /\ car.state = "online"
  /\ Goto("logger", [Idle EXCEPT !.at = "store", !.data = Reading])
  /\ UNCHANGED <<now, events, car, states, updates, snapshot>>

\* record_snapshot; the update history comes after it.
Store ==
  /\ At("logger", "store")
  /\ snapshot' = [at |-> now, data |-> tasks["logger"].data]
  /\ Goto("logger", [tasks["logger"] EXCEPT !.at = "sync"])
  /\ UNCHANGED <<now, events, car, states, updates>>

\* The command asks only when the car is online, and stores no snapshot.
RefreshReads ==
  /\ At("refresh", "idle") /\ car.state = "online"
  /\ Event
  /\ Goto("refresh", [Idle EXCEPT !.at = "sync", !.data = Reading])
  /\ UNCHANGED <<now, car, states, updates, snapshot>>

\* sync_updates_from_snapshots
Start ==
  /\ At("logger", "start")
  /\ Goto("logger", IF snapshot = None THEN Idle
                    ELSE [Idle EXCEPT !.at = "resync", !.data = snapshot.data])
  /\ UNCHANGED <<now, events, car, states, updates, snapshot>>

-----------------------------------------------------------------------------
(* sync_updates: it looks, and then it writes; the other process may write *)
(* in between.                                                             *)

Open  == {i \in DOMAIN updates : updates[i].end = None}
Named == {i \in DOMAIN updates : updates[i].version # None}
Known(v) == \E i \in Latest(Named, updates) : updates[i].version = v

Date(t) == IF At(t, "resync") THEN snapshot.at ELSE now

\* Mutant: a version that is known already leaves an open row open.
Sync_known_first(t) ==
  LET task == [tasks[t] EXCEPT !.at = "write", !.date = Date(t)]  data == tasks[t].data IN
  /\ At(t, "sync") \/ At(t, "resync")
  /\ IF Open # {}
     THEN IF data.installing \/ Known(data.version) THEN Goto(t, Idle)
          ELSE \E i \in Latest(Open, updates) : Goto(t, [task EXCEPT !.row = i])
     ELSE Goto(t, IF ~data.installing /\ Known(data.version) THEN Idle ELSE task)
  /\ UNCHANGED <<now, events, car, states, updates, snapshot>>

Sync(t) ==
  LET task == [tasks[t] EXCEPT !.at = "write", !.date = Date(t)]  data == tasks[t].data IN
  /\ At(t, "sync") \/ At(t, "resync")
  /\ IF Open # {}
     THEN IF data.installing THEN Goto(t, Idle)
          ELSE \E i \in Latest(Open, updates) : Goto(t, [task EXCEPT !.row = i])
     ELSE Goto(t, IF ~data.installing /\ Known(data.version) THEN Idle ELSE task)
  /\ UNCHANGED <<now, events, car, states, updates, snapshot>>

\* An install that is seen opens a row; a reading after it closes the row with
\* its version; a version that was not seen coming is an update in an instant.
Write(t) ==
  LET version == tasks[t].data.version  date == tasks[t].date IN
  /\ At(t, "write")
  /\ updates' = IF tasks[t].data.installing
                THEN Append(updates, [start |-> date, end |-> None, version |-> None])
                ELSE IF tasks[t].row = 0
                THEN Append(updates, [start |-> date, end |-> date, version |-> version])
                ELSE [updates EXCEPT ![tasks[t].row].end = date, ![tasks[t].row].version = version]
  /\ Goto(t, Idle)
  /\ UNCHANGED <<now, events, car, states, snapshot>>

-----------------------------------------------------------------------------
\* A call or a statement fails: the poll ends, or the error is logged.
Fails(t) ==
  /\ tasks[t].at \notin {"idle", "start"}
  /\ Event
  /\ Goto(t, Idle)
  /\ UNCHANGED <<now, car, states, updates, snapshot>>

\* The process of the logger stops and starts again.
Crash ==
  /\ Event
  /\ Goto("logger", [Idle EXCEPT !.at = "start"])
  /\ UNCHANGED <<now, car, states, updates, snapshot>>

\* The car falls asleep or wakes, installs a version or gives it up.
Car ==
  /\ Event
  /\ \/ \E s \in States \ {car.state} : car' = [car EXCEPT !.state = s]
     \/ ~car.installing /\ car' = [car EXCEPT !.installing = TRUE]
     \/ car.installing /\ car' = [car EXCEPT !.installing = FALSE]
     \/ car' = [car EXCEPT !.installing = FALSE, !.version = @ + 1]
  /\ UNCHANGED <<now, states, updates, snapshot, tasks>>

Tick ==
  /\ now < MaxTime
  /\ now' = now + 1
  /\ UNCHANGED <<events, car, states, updates, snapshot, tasks>>

LoggerStep == Start \/ Summary \/ EndState \/ InsertState \/ Store \/ Sync("logger") \/ Write("logger")

Next ==
  \/ LoggerStep \/ Read \/ SummaryOnly
  \/ RefreshReads \/ Sync("refresh") \/ Write("refresh")
  \/ \E t \in Tasks : Fails(t)
  \/ Crash \/ Car \/ Tick

\* The logger polls again and again, and asks an online car for its data again
\* and again (SilenceBounded in Poller); the command gets to its end.
Fairness ==
  /\ WF_vars(LoggerStep) /\ WF_vars(Read \/ SummaryOnly) /\ SF_vars(Read)
  /\ WF_vars(Sync("refresh") \/ Write("refresh"))

Spec == Init /\ [][Next]_vars /\ Fairness

-----------------------------------------------------------------------------
(* Properties. *)

\* record_state: the car is in one state at a time, and only the newest row is
\* open, wherever the logger stopped between the two statements.
StatesApart ==
  \A i, j \in DOMAIN states : i < j => states[i].end # None /\ states[i].end <= states[j].start

\* sync_updates: when the car stays online with a version that it has installed,
\* the history ends up with that version as the last and with no update open,
\* whatever aborted installs, stale readings of the other process, lost
\* snapshots and restarts went before.
Settled(v) == car.version = v /\ ~car.installing /\ car.state = "online"
UpToDate(v) == Open = {} /\ Known(v) /\ \E i \in Current : states[i].state = "online"
CatchesUp == \A v \in Version : <>[]Settled(v) => <>[]UpToDate(v)
=============================================================================
