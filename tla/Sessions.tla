------------------------------ MODULE Sessions ------------------------------
(***************************************************************************)
(* What the logger writes of one car: positions, drives and charging       *)
(* processes (src/logger.rs).  Each reading runs a fixed list of           *)
(* statements, kept in todo, and SQLite commits each of them on its own:   *)
(* the process may die, or a statement fail, between any two.  A drive or  *)
(* a process is open while it has no end_date.                             *)
(***************************************************************************)
EXTENDS Integers, Sequences, FiniteSets

CONSTANTS
  None,          \* NULL, and no handler
  Gap,           \* SESSION_GAP_MIN, in units of the clock
  Streaming,     \* use_streaming_api
  Ranges,        \* of the readings: TRUE with an ideal battery range, as usual
  MaxPositions,  \* bound on the rows of positions
  MaxHourly,     \* hourly from which restarts add no more to it
  MaxTime        \* bound on the clock

ASSUME SessionsAssumption ==
  /\ None \notin Nat \cup {"Driving", "Charging", "Idle"}
  /\ Gap \in Nat \ {0}
  /\ Streaming \in BOOLEAN
  /\ Ranges \subseteq BOOLEAN
  /\ {MaxPositions, MaxHourly, MaxTime} \subseteq Nat

VARIABLES
  now,
  odometer,     \* of the car
  positions,    \* the table; a row's id is its index
  drives,       \* the table, a function from ids
  processes,    \* charging_processes, with the dates of its rows of charges
  hourly,       \* the largest rowid of position_hourly
  kind,         \* the reading being written, or the last one written in full
  todo,         \* the statements still to run
  pos,          \* pos_id, what persist_snapshot returned
  stream,       \* stream_drive runs
  saw_driving   \* it has seen motion

tables == <<positions, drives, processes, hourly>>
vars   == <<now, odometer, tables, kind, todo, pos, stream, saw_driving>>

Activity == {"Driving", "Charging", "Idle"}
Stmt(op, ids) == [op |-> op, ids |-> ids]
Run(op) == Stmt(op, {})
Each(op, ids) == IF ids = {} THEN <<>> ELSE <<Stmt(op, ids)>>

Ops == {"persist_snapshot", "open_drive", "attach_to_drive", "attach_recent_position",
        "open_charge", "insert_charge", "close_open_drives", "complete_open_charges",
        "close_stale_sessions", "close_drive", "delete_drive", "complete_charge"}

Id    == Nat \ {0}
Date  == Nat
Point == [date : Date, odometer : Nat, range : BOOLEAN, drive : Id \cup {None}]
Drive == [start_date : Date, end_date : Date \cup {None}]
Process == [start_date : Date, end_date : Date \cup {None}, charges : SUBSET Date]

TypeOK ==
  /\ now \in Date
  /\ odometer \in Nat
  /\ positions \in Seq(Point)
  /\ DOMAIN drives \subseteq Id /\ \A d \in DOMAIN drives : drives[d] \in Drive
  /\ DOMAIN processes \subseteq Id /\ \A c \in DOMAIN processes : processes[c] \in Process
  /\ \A p \in DOMAIN positions : /\ positions[p].date <= now
                                 /\ positions[p].drive \in DOMAIN drives \cup {None}
  /\ hourly \in Nat
  /\ kind \in Activity \cup {None}
  /\ todo \in Seq([op : Ops, ids : SUBSET Id])
  /\ pos \in Nat
  /\ stream \in BOOLEAN /\ saw_driving \in BOOLEAN

-----------------------------------------------------------------------------
(* Reading the tables. *)
Attached(d)  == {p \in DOMAIN positions : positions[p].drive = d}
OpenDrives   == {d \in DOMAIN drives : drives[d].end_date = None}
OpenCharges  == {c \in DOMAIN processes : processes[c].end_date = None}

\* ORDER BY date, id: first and last of a non-empty set of positions.
Before(p, q) == \/ positions[p].date < positions[q].date
                \/ positions[p].date = positions[q].date /\ p <= q
FirstOf(S) == CHOOSE p \in S : \A q \in S : Before(p, q)
LastOf(S)  == CHOOSE p \in S : \A q \in S : Before(q, p)

Newest(dates) == CHOOSE t \in dates : \A u \in dates : u <= t

\* ORDER BY start_date DESC LIMIT 1.
LatestDrive  == CHOOSE d \in OpenDrives :
                  \A e \in OpenDrives : drives[e].start_date <= drives[d].start_date
LatestCharge == CHOOSE c \in OpenCharges :
                  \A e \in OpenCharges : processes[e].start_date <= processes[c].start_date

\* INTEGER PRIMARY KEY: one more than the largest id in use.
NextId(table) == IF DOMAIN table = {} THEN 1 ELSE Newest(DOMAIN table) + 1

With(table, id, row) == [i \in DOMAIN table \cup {id} |-> IF i = id THEN row ELSE table[i]]
Without(table, id)   == [i \in DOMAIN table \ {id} |-> table[i]]
SetDrive(S, d) == [p \in DOMAIN positions |->
                     IF p \in S THEN [positions[p] EXCEPT !.drive = d] ELSE positions[p]]

Recent(date) == date >= now - Gap
\* Mutants: an open session is continued however old it is.
StaleDrive_never(d)  == FALSE
StaleCharge_never(c) == FALSE

StaleDrive(d) ==
  ~Recent(IF Attached(d) = {} THEN drives[d].start_date
          ELSE Newest({positions[p].date : p \in Attached(d)}))
StaleCharge(c) ==
  ~Recent(IF processes[c].charges = {} THEN processes[c].start_date
          ELSE Newest(processes[c].charges))

\* Fewer than two points, or less than 10 m between the first and the last.
TooShort(d) ==
  \/ Cardinality(Attached(d)) < 2
  \/ positions[LastOf(Attached(d))].odometer <= positions[FirstOf(Attached(d))].odometer

-----------------------------------------------------------------------------
(* A new or imported database, whose last sessions may have been left open. *)
Rows(d) == <<[date |-> 0, odometer |-> 0, range |-> FALSE, drive |-> d],
             [date |-> 0, odometer |-> 1, range |-> FALSE, drive |-> d]>>
Repair  == <<Run("close_open_drives"), Run("complete_open_charges")>>

Init ==
  /\ now \in {0, Gap + 1}
  /\ odometer = 1
  /\ \/ positions = <<>> /\ drives = <<>> /\ processes = <<>>
     \/ /\ positions = Rows(1)
        /\ drives = [d \in {1} |-> [start_date |-> 0, end_date |-> None]]
        /\ processes = <<>>
     \/ /\ positions = Rows(None)
        /\ drives = <<>>
        /\ processes = [c \in {1} |-> [start_date |-> 0, end_date |-> None, charges |-> {0}]]
  /\ hourly = 0
  /\ kind = None
  /\ todo = Repair
  /\ pos = 0
  /\ stream = FALSE
  /\ saw_driving = FALSE

\* Mutant: a drive opens beside the charge that was going on.
DrivingTick_keeps_charge ==
  <<Run("close_stale_sessions"), Run("persist_snapshot"), Run("open_drive"),
    Run("attach_to_drive")>>
\* persist_drive_tick; persist_charge_tick; persist_snapshot and finish_idle.
DrivingTick ==
  <<Run("complete_open_charges"), Run("close_stale_sessions"),
    Run("persist_snapshot"), Run("open_drive"), Run("attach_to_drive")>>
ChargingTick ==
  <<Run("persist_snapshot"), Run("attach_recent_position"),
    Run("close_open_drives"), Run("close_stale_sessions"),
    Run("open_charge"), Run("insert_charge")>>
IdleTick ==
  <<Run("persist_snapshot"), Run("attach_recent_position"),
    Run("close_open_drives"), Run("complete_open_charges")>>

Statements(activity) == CASE activity = "Driving"  -> DrivingTick
                          [] activity = "Charging" -> ChargingTick
                          [] activity = "Idle"     -> IdleTick

\* A reading is to be written.
Ingest(activity) ==
  /\ todo = <<>>
  /\ ~stream
  /\ Len(positions) < MaxPositions
  /\ kind' = activity
  /\ todo' = Statements(activity)
  /\ UNCHANGED <<now, odometer, tables, pos, stream, saw_driving>>

-----------------------------------------------------------------------------
Running(op) == todo # <<>> /\ Head(todo).op = op
Then(stmts) == /\ todo' = stmts \o Tail(todo)
               /\ UNCHANGED <<now, odometer, kind, stream, saw_driving>>
Keeping     == pos' = IF todo' = <<>> THEN 0 ELSE pos   \* pos_id ends with its handler

\* INSERT INTO positions, then refresh_position_hour, whose failure is ignored:
\* a row it writes to position_hourly is the last insert of the connection.  A
\* reading without a range rewrites the bucket if another row of it has one.
PersistSnapshot(range) ==
  /\ Running("persist_snapshot")
  /\ positions' = Append(positions, [date |-> now, odometer |-> odometer,
                                     range |-> range, drive |-> None])
  /\ \/ /\ \E p \in DOMAIN positions' : positions'[p].range
        /\ hourly' = hourly + 1
        /\ pos' = hourly'
     \/ /\ hourly' = hourly
        /\ pos' = Len(positions')
  /\ UNCHANGED <<drives, processes>>
  /\ Then(<<>>)

\* The INSERT fails when pos_id names no position (foreign_keys is ON).
OpenDrive ==
  /\ Running("open_drive")
  /\ IF OpenDrives # {} THEN UNCHANGED drives
     ELSE /\ pos \in DOMAIN positions
          /\ drives' = With(drives, NextId(drives), [start_date |-> now, end_date |-> None])
  /\ UNCHANGED <<positions, processes, hourly>>
  /\ Then(<<>>)
  /\ Keeping

AttachToDrive ==
  /\ Running("attach_to_drive")
  /\ positions' = SetDrive({pos}, LatestDrive)
  /\ UNCHANGED <<drives, processes, hourly>>
  /\ Then(<<>>)
  /\ Keeping

\* Mutant: the UPDATE without "drive_id IS NULL".
AttachRecentPosition_takes ==
  /\ Running("attach_recent_position")
  /\ positions' =
       IF \E d \in OpenDrives : \E p \in Attached(d) : Recent(positions[p].date)
       THEN SetDrive({pos} \cap DOMAIN positions, LatestDrive)
       ELSE positions
  /\ UNCHANGED <<drives, processes, hourly>>
  /\ Then(<<>>)
  /\ Keeping

AttachRecentPosition ==
  /\ Running("attach_recent_position")
  /\ positions' =
       IF \E d \in OpenDrives : \E p \in Attached(d) : Recent(positions[p].date)
       THEN SetDrive({p \in {pos} \cap DOMAIN positions : positions[p].drive = None},
                     LatestDrive)
       ELSE positions
  /\ UNCHANGED <<drives, processes, hourly>>
  /\ Then(<<>>)
  /\ Keeping

\* Mutant: a charge that ended a moment ago is opened again.
OpenCharge_reopens ==
  /\ Running("open_charge")
  /\ IF OpenCharges # {} THEN UNCHANGED processes
     ELSE IF \E c \in DOMAIN processes : Recent(processes[c].end_date)
     THEN processes' = [processes EXCEPT ![Newest(DOMAIN processes)].end_date = None]
     ELSE /\ pos \in DOMAIN positions
          /\ processes' = With(processes, NextId(processes),
               [start_date |-> now, end_date |-> None, charges |-> {}])
  /\ UNCHANGED <<positions, drives, hourly>>
  /\ Then(<<>>)
  /\ Keeping

OpenCharge ==
  /\ Running("open_charge")
  /\ IF OpenCharges # {} THEN UNCHANGED processes
     ELSE /\ pos \in DOMAIN positions
          /\ processes' = With(processes, NextId(processes),
               [start_date |-> now, end_date |-> None, charges |-> {}])
  /\ UNCHANGED <<positions, drives, hourly>>
  /\ Then(<<>>)
  /\ Keeping

InsertCharge ==
  /\ Running("insert_charge")
  /\ processes' = [processes EXCEPT ![LatestCharge].charges = @ \cup {now}]
  /\ UNCHANGED <<positions, drives, hourly>>
  /\ Then(<<>>)
  /\ Keeping

\* The ids are read before the first of them is closed.
SelectSessions ==
  /\ \/ /\ Running("close_open_drives")
        /\ Then(Each("close_drive", OpenDrives))
     \/ /\ Running("complete_open_charges")
        /\ Then(Each("complete_charge", OpenCharges))
     \/ /\ Running("close_stale_sessions")
        /\ Then(Each("close_drive", {d \in OpenDrives : StaleDrive(d)})
                \o Each("complete_charge", {c \in OpenCharges : StaleCharge(c)}))
  /\ UNCHANGED tables
  /\ Keeping

\* Mutant: the row of a short drive goes, its points keep the id.
CloseDrive_leaves_points ==
  /\ Running("close_drive")
  /\ \E d \in Head(todo).ids :
       LET rest == Each("close_drive", Head(todo).ids \ {d}) IN
       IF TooShort(d)
       THEN drives' = Without(drives, d) /\ Then(rest)
       ELSE /\ drives' = [drives EXCEPT
                 ![d] = [start_date |-> positions[FirstOf(Attached(d))].date,
                         end_date   |-> positions[LastOf(Attached(d))].date]]
            /\ Then(rest)
  /\ UNCHANGED <<positions, processes, hourly>>
  /\ Keeping

\* close_drive, on one of the ids: the first and last points become its bounds;
\* a drive that is too short loses its points and then its row.
CloseDrive ==
  /\ Running("close_drive")
  /\ \E d \in Head(todo).ids :
       LET rest == Each("close_drive", Head(todo).ids \ {d}) IN
       IF TooShort(d)
       THEN /\ positions' = SetDrive(Attached(d), None)
            /\ Then(<<Stmt("delete_drive", {d})>> \o rest)
            /\ UNCHANGED drives
       ELSE /\ drives' = [drives EXCEPT
                 ![d] = [start_date |-> positions[FirstOf(Attached(d))].date,
                         end_date   |-> positions[LastOf(Attached(d))].date]]
            /\ Then(rest)
            /\ UNCHANGED positions
  /\ UNCHANGED <<processes, hourly>>
  /\ Keeping

DeleteDrive ==
  /\ Running("delete_drive")
  /\ \E d \in Head(todo).ids : drives' = Without(drives, d)
  /\ UNCHANGED <<positions, processes, hourly>>
  /\ Then(<<>>)
  /\ Keeping

\* complete_charge; the price it then sets belongs to the geofences.
CompleteCharge ==
  /\ Running("complete_charge")
  /\ \E c \in Head(todo).ids :
       /\ processes' = IF processes[c].charges = {} THEN Without(processes, c)
                       ELSE [processes EXCEPT ![c].end_date = Newest(processes[c].charges)]
       /\ Then(Each("complete_charge", Head(todo).ids \ {c}))
  /\ UNCHANGED <<positions, drives, hourly>>
  /\ Keeping

-----------------------------------------------------------------------------
(* stream_drive, after a Driving reading was written. *)
StreamOpens ==
  /\ Streaming
  /\ todo = <<>> /\ kind = "Driving"
  /\ stream' = TRUE
  /\ saw_driving' = FALSE
  /\ kind' = None
  /\ UNCHANGED <<now, odometer, tables, todo, pos>>

\* ingest_stream_row joins the open drive with the largest id, and skips a row
\* within five seconds of the last point.
StreamRow(moving) ==
  /\ stream /\ todo = <<>>
  /\ Len(positions) < MaxPositions
  /\ LET d == IF OpenDrives = {} THEN None ELSE Newest(OpenDrives)
         point == [date |-> now, odometer |-> odometer, range |-> FALSE, drive |-> d] IN
     \/ positions' = Append(positions, point)
     \/ /\ \E p \in Attached(d) : positions[p].date = now
        /\ UNCHANGED positions
  /\ stream' = (moving \/ ~saw_driving)
  /\ saw_driving' = (stream' /\ (saw_driving \/ moving))
  /\ todo' = IF stream' THEN todo ELSE <<Run("close_open_drives")>>
  /\ UNCHANGED <<now, odometer, drives, processes, hourly, kind, pos>>

\* STREAM_IDLE passes without a message, or the stream breaks.
StreamEnds ==
  /\ stream
  /\ stream' = FALSE /\ saw_driving' = FALSE
  /\ \/ saw_driving /\ todo' = <<Run("close_open_drives")>>
     \/ UNCHANGED todo
  /\ UNCHANGED <<now, odometer, tables, kind, pos>>

-----------------------------------------------------------------------------
\* A statement fails and the handler returns its error.
Fails ==
  /\ todo # <<>>
  /\ todo' = <<>>
  /\ kind' = None
  /\ pos' = 0
  /\ UNCHANGED <<now, odometer, tables, stream, saw_driving>>

\* The process dies and starts again: db::open rewrites the one or two latest
\* buckets of position_hourly, and the logger repairs open sessions.
Restart ==
  /\ hourly' \in IF hourly < MaxHourly /\ \E p \in DOMAIN positions : positions[p].range
                 THEN {hourly + 1, hourly + 2} ELSE {hourly}
  /\ todo' = Repair
  /\ kind' = None
  /\ pos' = 0
  /\ stream' = FALSE
  /\ saw_driving' = FALSE
  /\ UNCHANGED <<now, odometer, positions, drives, processes>>

\* Time passes between readings, and the car moves or stands.
Tick ==
  /\ todo = <<>>
  /\ now < MaxTime
  /\ now' = now + 1
  /\ odometer' \in {odometer, odometer + 1}
  /\ UNCHANGED <<tables, kind, todo, pos, stream, saw_driving>>

Next ==
  \/ \E activity \in Activity : Ingest(activity)
  \/ \E range \in Ranges : PersistSnapshot(range)
  \/ OpenDrive \/ AttachToDrive \/ AttachRecentPosition
  \/ OpenCharge \/ InsertCharge
  \/ SelectSessions \/ CloseDrive \/ DeleteDrive \/ CompleteCharge
  \/ StreamOpens \/ (\E moving \in BOOLEAN : StreamRow(moving)) \/ StreamEnds
  \/ Fails \/ Restart \/ Tick

Spec == Init /\ [][Next]_vars
-----------------------------------------------------------------------------
(* Properties. *)

\* Written in full, a reading leaves exactly the session it shows: a driving
\* car one open drive and no charge, a charging car one open charge and no
\* drive, an idle car neither.  What imports, crashes and failed statements
\* left behind is cleared by the next reading.
Settled ==
  todo = <<>> /\ kind # None =>
    /\ Cardinality(OpenDrives) = IF kind = "Driving" THEN 1 ELSE 0
    /\ Cardinality(OpenCharges) = IF kind = "Charging" THEN 1 ELSE 0

\* What has ended stays, whatever row a later reading takes for its own: a charge
\* with its readings, a drive with its bounds and without a further point.  Only
\* the drive of a reading takes a point from it, one, that of pos_id.
EndedStay ==
  [][/\ \A d \in DOMAIN drives \ OpenDrives :
          /\ d \in DOMAIN drives' /\ drives'[d] = drives[d]
          /\ Attached(d)' \subseteq Attached(d)
          /\ Attached(d) \ Attached(d)' \subseteq {p \in {pos} : Running("attach_to_drive")}
     /\ \A c \in DOMAIN processes \ OpenCharges :
          c \in DOMAIN processes' /\ processes'[c] = processes[c]]_vars

\* A reading joins a drive only while the drive's last point is within the gap.
ReadingsJoinRecent ==
  [][\A d \in OpenDrives :
       Running("attach_to_drive") /\ Attached(d)' # Attached(d) /\ Attached(d) # {}
         => Recent(Newest({positions[p].date : p \in Attached(d)}))]_vars

\* The readings of a charge follow each other within SESSION_GAP: two charges never
\* become one row.
Unbroken(dates) ==
  \A t \in dates : t = Newest(dates) \/ \E u \in dates : u > t /\ u - t <= Gap
ChargesApart == \A c \in DOMAIN processes : Unbroken(processes[c].charges)

\* The sessions that have ended, with their bounds.
Spans == {<<"drive", d, drives[d].start_date, drives[d].end_date>> :
            d \in DOMAIN drives \ OpenDrives}
         \cup {<<"charge", c, processes[c].start_date, processes[c].end_date>> :
            c \in DOMAIN processes \ OpenCharges}

\* What SessionLog calls open and ended.
Log == INSTANCE SessionLog WITH
         open  <- {<<"drive", d>> : d \in OpenDrives} \cup {<<"charge", c>> : c \in OpenCharges},
         ended <- Spans

\* Through every interleaving, crash and failed statement the tables are the
\* log of one session after the other: none opens beside another, one that has
\* ended never changes, and its id is not given to another.
KeepsLog == Log!Spec

-----------------------------------------------------------------------------
(* What a comment says, and the code does not keep: after a reading that   *)
(* writes its hour pos_id is a rowid of position_hourly.                   *)

\* logger.rs:745: "Parked points from the last 15 minutes belong on the open drive."
\* While one has a recent point, attach_recent_position puts the new reading on it.
ParkedPointJoins ==
  [][/\ Running("attach_recent_position") /\ todo' = Tail(todo)
     /\ \E d \in OpenDrives : \E p \in Attached(d) : Recent(positions[p].date)
     => positions'[Len(positions')].drive \in OpenDrives]_vars
=============================================================================
