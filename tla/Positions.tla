----------------------------- MODULE Positions -----------------------------
(***************************************************************************)
(* The table of positions in the long run: the rollup position_hourly that *)
(* the long-range charts read instead (src/db.rs, src/sql.rs), compact,    *)
(* which thins the streamed points out, and import, which copies table     *)
(* after table of a TeslaMate that goes on logging (src/import.rs).        *)
(* Drives and charges refer to positions.                                  *)
(* When a session opens and closes is in Sessions; here it may at any      *)
(* time, with any row as its pos_id (Sessions shows why).  Time is the     *)
(* clock of the positions' dates; the car is left out, and the counts in   *)
(* the rollup stand for the averages.                                      *)
(***************************************************************************)
EXTENDS Naturals, Sequences, FiniteSets, FiniteSetsExt

CONSTANTS
  None,
  Drives,
  PerHour,        \* units of the clock to an hour
  PerBucket,      \* STREAM_SAMPLE_SECS
  TeslaMate,      \* what its database holds, one state after the other
  MaxTime,        \* bound on the clock
  MaxId,          \* bound on the ids of positions
  MaxCharges      \* bound on the rows of charging_processes

VARIABLES
  now,
  points,    \* rows of positions
  drives,    \* rows of drives
  charged,   \* position_id of the rows of charging_processes
  hourly,    \* per hour the count in position_hourly, or None
  up,        \* the logger has the database open
  pending,   \* the hour of a reading that is stored and not rolled up yet
  compact,
  copying,   \* the table that import copies next, or "stopped" before the last
  source,    \* the state that TeslaMate's database is in
  missed     \* why the rollup may lack rows: an import, since then opened or not, or a failure

vars == <<now, points, drives, charged, hourly, up, pending, compact, copying, source, missed>>

Ids   == 1..MaxId
Hours == 0..(MaxTime \div PerHour)
\* full: with an ideal range, as a reading of vehicle_data has unless the answer
\* lacks it; compact and the rollup take every other row for a streamed one.
Point == [id : Ids, time : 0..MaxTime, drive : Drives \cup {None}, full : BOOLEAN]
Drive == [state : {"none", "open", "closed"}, start : Ids \cup {None}, end : Ids \cup {None}]
NoDrive == [state |-> "none", start |-> None, end |-> None]
NotCompacting == [at |-> "no", ref |-> {}, todo |-> {}]

ASSUME PositionsAssumption ==
  /\ None \notin Drives \cup Nat \cup {"drives", "processes", "stopped"}
  /\ {PerHour, PerBucket, MaxId, MaxCharges} \subseteq Nat \ {0} /\ MaxTime \in Nat
  /\ Len(TeslaMate) \in Nat /\ 1 \in DOMAIN TeslaMate /\ DOMAIN TeslaMate = 1..Len(TeslaMate)
  /\ \A i \in DOMAIN TeslaMate :
       /\ TeslaMate[i].points \subseteq Point
       /\ \A p, q \in TeslaMate[i].points : p.id = q.id => p = q
       /\ TeslaMate[i].drives \in [Drives -> Drive]
       /\ TeslaMate[i].charged \subseteq Ids

TypeOK ==
  /\ now \in 0..MaxTime
  /\ points \subseteq Point
  /\ drives \in [Drives -> Drive]
  /\ charged \subseteq Ids
  /\ hourly \in [Hours -> Nat \cup {None}]
  /\ up \in BOOLEAN
  /\ pending \in Hours \cup {None}
  /\ compact \in [at : {"no", "drives", "rest", "end"}, ref : SUBSET Ids, todo : SUBSET Drives]
  /\ copying \in {None, "drives", "processes", "stopped"}
  /\ source \in DOMAIN TeslaMate
  /\ missed \in {"no", "imported", "opened", "failed"}

Init ==
  /\ now = 0
  /\ points = {}
  /\ drives = [d \in Drives |-> NoDrive]
  /\ charged = {}
  /\ hourly = [h \in Hours |-> None]
  /\ up = FALSE /\ pending = None
  /\ compact = NotCompacting
  /\ copying = None
  /\ source = 1
  /\ missed = "no"

-----------------------------------------------------------------------------
Hour(t)   == t \div PerHour
Bucket(p) == p.time \div PerBucket
IdsOf(ps) == {p.id : p \in ps}

\* HOURLY_INSERT for the hours hs: an hour without rows keeps what it has.
FullIn(ps, h) == {p \in ps : p.full /\ Hour(p.time) = h}
Rolled(hs) == [h \in Hours |-> IF h \in hs /\ FullIn(points, h) # {}
                               THEN Cardinality(FullIn(points, h)) ELSE hourly[h]]
Agrees == \A h \in Hours : FullIn(points, h) # {} => hourly[h] = Cardinality(FullIn(points, h))

-----------------------------------------------------------------------------
(* The logger. *)

Written == {h \in Hours : hourly[h] # None}
\* Mutant: the rollup is built once.
Since_never == IF Written = {} THEN Hours ELSE {}
\* The hours that ensure_position_hourly builds.
Since == IF Written = {} THEN Hours ELSE {h \in Hours : h + 1 >= Max(Written)}

\* Every command but compact opens the database so, import and the logger too.
Ensure ==
  /\ compact.at = "no"
  /\ hourly' = Rolled(Since)
  /\ missed' = CASE Written = {}          -> "no"
                 [] missed = "imported"    -> "opened"
                 [] OTHER                  -> missed

Command ==
  /\ Ensure
  /\ UNCHANGED <<now, points, drives, charged, up, pending, compact, copying, source>>

Open ==
  /\ ~up /\ up' = TRUE
  /\ Ensure
  /\ UNCHANGED <<now, points, drives, charged, pending, compact, copying, source>>

\* The error is logged, and the database is used all the same.
OpenWithoutRollup ==
  /\ ~up /\ compact.at = "no"
  /\ up' = TRUE
  /\ missed' = "failed"
  /\ UNCHANGED <<now, points, drives, charged, hourly, pending, compact, copying, source>>

NextId == 1 + Max({0} \cup IdsOf(points))
Running == up /\ pending = None
Insert(full, d) ==
  /\ Running /\ NextId \in Ids
  /\ points' = points \cup {[id |-> NextId, time |-> now, drive |-> d, full |-> full]}

\* persist_snapshot: the row, then its hour.
Reading(full) ==
  /\ Insert(full, None)
  /\ pending' = Hour(now)
  /\ UNCHANGED <<now, drives, charged, hourly, up, compact, copying, source, missed>>

Refresh ==
  /\ pending # None
  /\ hourly' = Rolled({pending})
  /\ pending' = None
  /\ UNCHANGED <<now, points, drives, charged, up, compact, copying, source, missed>>

\* Its error is dropped.
RefreshFails ==
  /\ pending # None
  /\ pending' = None
  /\ missed' = "failed"
  /\ UNCHANGED <<now, points, drives, charged, hourly, up, compact, copying, source>>

PointsOf(d) == {p \in points : p.drive = d}
OpenDrives  == {d \in Drives : drives[d].state = "open"}
stream_sample_due(d) == \A p \in PointsOf(d) : now - p.time >= PerBucket

StreamRow(d) ==
  /\ d \in OpenDrives \cup {None} /\ (d = None => OpenDrives = {})
  /\ stream_sample_due(d)
  /\ Insert(FALSE, d)
  /\ UNCHANGED <<now, drives, charged, hourly, up, pending, compact, copying, source, missed>>

\* UPDATE positions SET drive_id
SetDrive(ps, d) == points' = (points \ ps) \cup {[p EXCEPT !.drive = d] : p \in ps}

OpenDrive(d) ==
  /\ Running /\ OpenDrives = {} /\ drives[d].state = "none"
  /\ \E p \in points :
       /\ drives' = [drives EXCEPT ![d] = [state |-> "open", start |-> p.id, end |-> None]]
       /\ SetDrive({p}, d)
  /\ UNCHANGED <<now, charged, hourly, up, pending, compact, copying, source, missed>>

JoinDrive(d) ==
  /\ Running /\ d \in OpenDrives
  /\ \E p \in points : SetDrive({p}, d)
  /\ UNCHANGED <<now, drives, charged, hourly, up, pending, compact, copying, source, missed>>

CloseDrive(d) ==
  /\ Running /\ d \in OpenDrives
  /\ Cardinality(PointsOf(d)) > 1
  /\ drives' = [drives EXCEPT ![d] = [state |-> "closed", start |-> Min(IdsOf(PointsOf(d))),
                                                         end   |-> Max(IdsOf(PointsOf(d)))]]
  /\ UNCHANGED <<now, points, charged, hourly, up, pending, compact, copying, source, missed>>

\* Shorter than 10 m, which the odometer says.
DropDrive(d) ==
  /\ Running /\ d \in OpenDrives
  /\ drives' = [drives EXCEPT ![d] = NoDrive]
  /\ SetDrive(PointsOf(d), None)
  /\ UNCHANGED <<now, charged, hourly, up, pending, compact, copying, source, missed>>

OpenCharge ==
  /\ Running /\ Cardinality(charged) < MaxCharges
  /\ \E p \in points : charged' = charged \cup {p.id}
  /\ UNCHANGED <<now, points, drives, hourly, up, pending, compact, copying, source, missed>>

\* The process stops, possibly between the row and its hour.
Stop ==
  /\ up
  /\ up' = FALSE /\ pending' = None
  /\ UNCHANGED <<now, points, drives, charged, hourly, compact, copying, source, missed>>

-----------------------------------------------------------------------------
(* compact: "Call with no other connection open" (db.rs:148). *)

\* Mutant: end_position_id is forgotten.
Referenced_starts == {drives[d].start : d \in Drives} \cup charged
Referenced == {drives[d].start : d \in Drives} \cup {drives[d].end : d \in Drives} \cup charged

CompactBegins ==
  /\ ~up /\ compact.at = "no" /\ copying \in {None, "stopped"}
  /\ compact' = [at |-> "drives", ref |-> Referenced \cap Ids,
                 todo |-> {p.drive : p \in points} \ {None}]
  /\ UNCHANGED <<now, points, drives, charged, hourly, up, pending, copying, source, missed>>

Streamed(d) == {p \in PointsOf(d) : ~p.full}
First(d, p) == Min({q.id : q \in {o \in Streamed(d) : Bucket(o) = Bucket(p)}})
\* Mutant: the first point of a bucket, whether it was streamed or not.
Surplus_first_of_all(d) ==
  {p \in Streamed(d) : /\ p.id \notin compact.ref
                       /\ p.id # Min({q.id : q \in {o \in PointsOf(d) : Bucket(o) = Bucket(p)}})}
\* The rows of a drive, or of none, that the DELETE takes.
Surplus(d) == {p \in Streamed(d) : p.id \notin compact.ref /\ p.id # First(d, p)}

\* ON DELETE SET NULL in drives.
Delete(ps) ==
  LET kept(id) == IF id \in IdsOf(ps) THEN None ELSE id IN
  /\ points' = points \ ps
  /\ drives' = [d \in Drives |-> [drives[d] EXCEPT !.start = kept(@), !.end = kept(@)]]

CompactDrive(d) ==
  /\ compact.at = "drives" /\ d \in compact.todo
  /\ Delete(Surplus(d))
  /\ compact' = [compact EXCEPT !.todo = @ \ {d}]
  /\ UNCHANGED <<now, charged, hourly, up, pending, copying, source, missed>>

\* Mutant: the points of no drive are left.
CompactRest_nothing ==
  /\ compact.at = "drives" /\ compact.todo = {}
  /\ compact' = [compact EXCEPT !.at = "end"]
  /\ UNCHANGED <<now, points, drives, charged, hourly, up, pending, copying, source, missed>>

CompactRest ==
  /\ compact.at = "drives" /\ compact.todo = {}
  /\ Delete(Surplus(None))
  /\ compact' = [compact EXCEPT !.at = "end"]
  /\ UNCHANGED <<now, charged, hourly, up, pending, copying, source, missed>>

\* It ends, or stops before: what was deleted by then is committed.
CompactStops ==
  /\ compact.at # "no"
  /\ compact' = NotCompacting
  /\ UNCHANGED <<now, points, drives, charged, hourly, up, pending, copying, source, missed>>

-----------------------------------------------------------------------------
(* import: for each table a psql session and a transaction of their own,    *)
(* without foreign keys.  It may stop between two tables and begin again,  *)
(* and TeslaMate goes on writing meanwhile.                                *)

\* What is imported is history.
ImportPositions ==
  /\ compact.at = "no"
  /\ \A p \in TeslaMate[source].points : p.time <= now
  /\ points' = TeslaMate[source].points
  /\ copying' = "drives"
  /\ missed' = IF missed = "failed" THEN missed ELSE "imported"
  /\ UNCHANGED <<now, drives, charged, hourly, up, pending, compact, source>>

ImportDrives ==
  /\ copying = "drives"
  /\ drives' = TeslaMate[source].drives
  /\ copying' = "processes"
  /\ UNCHANGED <<now, points, charged, hourly, up, pending, compact, source, missed>>

ImportProcesses ==
  /\ copying = "processes"
  /\ charged' = TeslaMate[source].charged
  /\ copying' = None
  /\ UNCHANGED <<now, points, drives, hourly, up, pending, compact, source, missed>>

ImportStops ==
  /\ copying \in {"drives", "processes"}
  /\ copying' = "stopped"
  /\ UNCHANGED <<now, points, drives, charged, hourly, up, pending, compact, source, missed>>

\* TeslaMate stores a position, or a drive or a charge begins or ends.
SourceMoves ==
  /\ source + 1 \in DOMAIN TeslaMate
  /\ source' = source + 1
  /\ UNCHANGED <<now, points, drives, charged, hourly, up, pending, compact, copying, missed>>

-----------------------------------------------------------------------------
Tick ==
  /\ now < MaxTime /\ pending = None
  /\ now' = now + 1
  /\ UNCHANGED <<points, drives, charged, hourly, up, pending, compact, copying, source, missed>>

Next ==
  \/ Command \/ Open \/ OpenWithoutRollup \/ Stop \/ Tick
  \/ (\E full \in BOOLEAN : Reading(full)) \/ Refresh \/ RefreshFails \/ OpenCharge
  \/ \E d \in Drives \cup {None} : StreamRow(d)
  \/ \E d \in Drives : OpenDrive(d) \/ JoinDrive(d) \/ CloseDrive(d) \/ DropDrive(d) \/ CompactDrive(d)
  \/ CompactBegins \/ CompactRest \/ CompactStops
  \/ ImportPositions \/ ImportDrives \/ ImportProcesses \/ ImportStops \/ SourceMoves

Spec == Init /\ [][Next]_vars

-----------------------------------------------------------------------------
(* Properties. *)

\* sql.rs: the rollup shows every full row to the long-range charts, also when
\* the logger stopped between the row and its hour, or with an import into a
\* database without a rollup; after a statement that failed, and any other
\* import, the rollup is only right when it is built anew.
HourlyAgrees == up /\ pending = None /\ missed = "no" => Agrees

\* What the ended drives and the charges refer to.
Ends == {drives[d].start : d \in {e \in Drives : drives[e].state = "closed"}}
        \cup {drives[d].end : d \in {e \in Drives : drives[e].state = "closed"}} \cup charged

\* db.rs: compact, however often it stops and begins again and whatever import
\* left, takes no position that a closed drive or a charge refers to, and neither
\* it nor the logger changes those; only import replaces them.
EndsKept ==
  [][ImportPositions \/ ImportDrives \/ ImportProcesses \/
       /\ \A d \in Drives : drives[d].state = "closed" => drives'[d] = drives[d]
       /\ charged \subseteq charged'
       /\ Ends \cap IdsOf(points) \subseteq IdsOf(points')]_vars

\* No reading that has an ideal range is ever dropped by compact, and of the other
\* points of a drive the first in each bucket stays: the route keeps its shape.
RoutesKept ==
  [][ImportPositions \/ \A p \in points :
       \/ p.id \in IdsOf(points')
       \/ /\ ~p.full
          /\ \E q \in points' : q.drive = p.drive /\ ~q.full /\ Bucket(q) = Bucket(p) /\ q.id < p.id]_vars

\* When compact gets to its end, after whatever was cut short before, one point
\* without a range of each bucket is left besides those that are referred to.
Compacted ==
  compact.at = "end" =>
    \A p, q \in points :
      ~p.full /\ ~q.full /\ p.drive = q.drive /\ Bucket(p) = Bucket(q) /\ p.id < q.id
        => q.id \in Referenced

\* sql.rs:460 says: "Long-range charts (Projected Range, mileage, ...) scan
\* millions of GPS rows ... Point them at the hourly rollup instead": the charts
\* show what is in the table once it was opened after a complete import, unless a
\* statement failed.
ChartsShowHistory == copying = None /\ up /\ pending = None /\ missed \in {"no", "opened"} => Agrees
=============================================================================
