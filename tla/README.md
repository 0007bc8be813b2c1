# A TLA+ model of teslamate-rs

teslamate-rs is a single Rust program that logs Tesla cars into SQLite and shows
the history as dashboards. These modules model the parts of it whose correctness
depends on the order of events: what is polled when, what is written of a drive
and of a charge when any statement may be the last one that runs, and how work
done in the background follows what users change, what requests that run at once
make of accounts, invites and sessions, how tokens, invoices and prices get through
tasks that race, and what becomes of the tables in the long run. TLC checks the modules on small
instances; TLAPS proves the most important results for every value of the
constants. `PROJECT.json` maps each definition to the lines it is translated from.

## The system

One process serves HTTP (axum), runs the logger and runs the invoices task. They
share one SQLite connection for writing, behind a mutex, and a pool for reading.
The commands (`login`, `refresh`, `import`, `compact`, `seed`, ...) are processes
of their own on the same database file.

| component | state it keeps | operations | interacts with |
|---|---|---|---|
| sleep policy, `sleep.rs` | none: pure functions of a phase | `config_for`, `plan`, `after_probe`, `apply_vehicle_data` | called by the poll loop |
| poll loop, `logger.rs` | `tracked` (phase, next_poll of each car) in memory | `run`, `poll_due`, `poll_car`, `fetch_vehicle_data`, `probe_stream`, `stream_drive` | Tesla's API and stream; writes the history |
| drives and charges, `logger.rs` | positions, drives, charging_processes, charges | `persist_snapshot`, the ticks, `close_*`, `complete_*`, `ingest_stream_row`, `repair_open_sessions` | one reading at a time from the poll loop; `refresh` and `import` write the same tables |
| car states, updates, snapshots, `logger.rs`, `live.rs` | states, updates, vehicle_snapshots | `record_state`, `sync_updates`, `record_snapshot` | the poll loop |
| tokens, `tokens.rs`, `token_crypto.rs`, `tesla.rs` | the token file or rows, the key; a copy in each user of the API | `load`, `store`, `refresh` | logger, invoices task, `login`, `refresh` |
| invoices, `invoices.rs` | charging_invoices, the price of a process | paging the history, `match_process` | Tesla's API; charges |
| locations and prices, `locations.rs` | geofences and their ids in drives and charges | `save`, `delete`, `rematch`, `price_charge_geofence` | the rematch job; the end of a charge |
| rematch job, `app_state.rs`, `server.rs` | `LocationJobState` | `start`, its task | the handlers of locations |
| accounts, `users.rs`, `auth*.rs`, `pam_auth.rs` | users, sessions, passkeys, invites, challenges | setup, login, register, invite, logout | the web server |
| query service, `server.rs`, `app_state.rs`, `query_allowlist.rs` | `QueryGate`, `QueryCache`, `AuthLimiter` | a dashboard query, an attempt to log in | the read pool |
| SQL translation, `sql.rs` | none | PostgreSQL text to SQLite text | the query service |
| database, `db.rs`, `schema.sql` | the file, `position_hourly` | `open`, migrations, `compact` | everything |
| import, `import.rs` | none | replaces tables from a TeslaMate database | a logger that may be running |
| live view and details, `live.rs`, `detail.rs` | none | read vehicle_snapshots and one session | the web server |
| browser client, `web/` | the page | loads and draws | the web server |

What is hard in each, and what would make it correct:

* **Polling.** Tesla rate-limits; an awake car must be left alone long enough to
  fall asleep, yet a drive must not be missed. Correct: silence about an online
  car is bounded whatever is answered; a parked car is suspended in time and a
  car in use is not; a sleeping car is not touched; a deadline stays where it is.
* **Drives and charges.** A reading is some six statements, each committed on its
  own. Correct: a complete reading leaves exactly the session it shows, whatever
  crashes and failures came before; sessions are apart from each other in time,
  are never merged over a gap and are final once closed. (The code keeps all of it but
  where `pos_id` names another row, see `sessions_rowid`.)
* **The rematch.** Changes arrive while it is queued, running, or just done.
  Correct: one at a time, none left out, and it ends.
* **Tokens.** Several tasks and processes rotate a token, and race to make the key
  that it is encrypted with. Correct: what is stored can be read, and every car
  keeps getting its turn. (That the newest rotation is the one stored would be
  better still; the code does not ensure it, see "Divergences without a run".)
* **Prices.** The end of a charge, an invoice and a rematch set one column.
  Correct: an invoiced price stays, the others follow the location, and every
  invoice of a history whose pages shift arrives.
* **The long run.** A rollup repeats the positions, compact deletes most of them and
  import replaces them, table by table. Correct: the rollup agrees with the table,
  nothing that is referred to goes, and a route keeps its shape.
* **States and updates.** A new state is two statements; two processes record
  updates from readings that may be stale. Correct: states follow each other, and
  the history ends up with the version that the car has.
* **Accounts.** Requests run concurrently. Correct: one first admin, an invite and
  a challenge are used once, the cap of sessions holds.
* **Query service.** Permits of a user and of the server, abandoned queries,
  a cache, progress handlers that end statements. Correct: limits hold, every query
  ends, none is ended by the handler of another, a cached answer is not too old.

`PROJECT.json` lists these hazards at their lines, with the properties that
cover them or the reason why none does.

## Modules

| module | of | about |
|---|---|---|
| `SleepPolicy` | `sleep.rs` | the pure policy, as operators |
| `Poller` | `logger.rs` | one car in the poll loop; extends `SleepPolicy` |
| `PollerProofs` | | theorems about `Poller` |
| `SessionLog` | | abstract: a log of sessions, one open at most |
| `Sessions` | `logger.rs`, `schema.sql` | what is written of one car; implements `SessionLog` |
| `SessionsProofs` | | theorems about `Sessions` |
| `CoalescedWork` | | abstract: a worker that coalesces requests |
| `LocationJobs` | `app_state.rs`, `server.rs`, `locations.rs` | the rematch job and its handlers; implements `CoalescedWork` |
| `Accounts` | `auth_http.rs`, `users.rs`, `auth.rs` | web accounts: setup, invites, passkeys, sessions |
| `AccountsProofs` | | theorems about `Accounts` |
| `Tokens` | `logger.rs`, `invoices.rs`, `refresh.rs`, `tokens.rs`, `token_crypto.rs` | the tokens, their key and the rounds of the logger |
| `TokensProofs` | | theorems about `Tokens` |
| `Queries` | `server.rs`, `app_state.rs`, `db.rs` | `POST /api/query`: permits, tasks, read pool, cache |
| `QueriesProofs` | | theorems about `Queries` |
| `Pricing` | `invoices.rs`, `locations.rs`, `logger.rs` | the price of a charge |
| `LocationProofs` | | theorems about `LocationJobs` and `Pricing` |
| `Positions` | `db.rs`, `import.rs`, `logger.rs` | rollup, compact and import |
| `PositionsProofs` | | theorems about `Positions` |
| `History` | `logger.rs`, `live.rs`, `refresh.rs` | states, updates and the snapshot |
| `HistoryProofs` | | theorems about `History` |

Where two modules meet, one of them states what the other shows: `Positions` lets a
drive open on any row because `Sessions` shows that `pos_id` may be one
(`sessions_rowid`), `Pricing` takes a queued rematch to run or be lost because the
queue is in `LocationJobs`, and `History` assumes that an online car is asked again
and again because `Poller` shows `SilenceBounded`.

The modules whose name starts with `MC` hold the constants of the runs. The
operators whose comment starts with "Mutant" are plausible mistakes in the code
that the properties must catch; no specification uses them.

### SleepPolicy and Poller

`SleepPolicy` keeps the names of `sleep.rs`. A phase is a record of its variant
and its two times. Of a stream row the policy only tells motion and the power
column apart; of vehicle_data, whether the car charges or drives and which of the
nine `SleepBlock`s hold (`first_block` is the one `can_fall_asleep` returns).

`Poller` makes every `await` of `poll_car` a value of `pc`: a call is begun by one
action and ended by another, and time passes in between. `phase` and `next_poll`
are the entry in `tracked`; `cfg` is the configuration read at the start of the
round; `out` is `phase_out` while the drive is streamed. `Failed` is every `Err`
of `poll_car`: the phase stays, the wait is `poll_secs` or what a 429 asks for, cut
to `RATE_LIMIT_MAX`. `Restart` may come at any point and forgets all of this.
Three variables are observations that no action reads: when the car was last
heard of (`heard_at`), last seen in use (`busy_at`), and since when every reading
found it free to sleep (`parked_since`).

Time is a natural number. A call ends within `CallSecs`, a probe within
`ProbeSecs`, a silent stream after `StreamIdle`; `connect` of the drive stream has
no timeout in the code and none here. The polls of the other cars of the loop appear
as `Lateness`, the longest a due car waits for its turn. The drive stream of another
car is not among them: it holds up the loop as long as its drive lasts (see
"Divergences without a run").

### Sessions

`todo` is the list of statements that the reading being written still has to run:
`DrivingTick`, `ChargingTick` and `IdleTick` are `persist_drive_tick`,
`persist_charge_tick` and `persist_snapshot` with `finish_idle`. Statements that
select ids and then treat each put one statement for it in front. `Fails` drops
the rest (the error is returned), `Restart` too, and puts
`repair_open_sessions` in their place. `Init` is a new database or an imported one
with an open drive or charge, just made or older than the gap.

A row of `positions` keeps its date, odometer, drive and whether it has an ideal
range; `hourly` is the largest rowid of `position_hourly`, kept because
`persist_snapshot` returns `last_insert_rowid()` after a write to that table.
The statements of one handler take less than a unit of time; ids selected
together are closed in any order; the geofence and the price of a closed
session are left out.

`SessionLog` only knows which session is open and which have ended, with their
bounds. `KeepsLog` says that the tables, read in this way, change as it allows: a session
begins when none is open, ends or is discarded, and what has ended stays, a drive
and a charge alike.

### LocationJobs and CoalescedWork

The geofences are the number of changes committed to them (`fences`), and history
the number of changes the last committed rematch has seen (`applied`). A handler
saves in one blocking task, then calls `start()`; a rematch asked for directly
has nothing to save. `job`, `rerun` and `next_id` are `LocationJobState`; `tasks`
maps the id of a job to where its loop is. `Finish` is the end of the loop under the
lock: go round again or publish the result. A save or a rematch may fail.

`CoalescedWork` only knows requests made, requests served and whether the worker
is busy. The refinement maps `served` to the calls that were made before the
latest rematch. `Disconnect` (the client goes away and axum drops the handler at its
await, while the blocking task runs on) and `Restart` are in specifications of
their own, since they break the promise.

### Accounts

A handler takes the lock of the database several times, and other handlers run
between. Each section under the lock is an action; `requests[r].at` names the
section that request `r` runs next, and the rest of the record is what it
remembers: the user it is about, the user signed in (`by`), the token it was given
and the challenge it took. `Fails` ends a handler before any section: an error, a
limit, a wrong password or credential, or the end of the process. A section that
is interrupted has changed nothing, or only deleted expired rows, since the
statements that matter are in a transaction or are the last ones; `create_session`
is the exception, and `CreateSession` has that outcome.

The tables are functions from their keys. Tokens are numbered in the order in which
they are made, so that the newest sessions are those with the largest numbers.
Two steps of a handler are one where no other request can tell: a challenge is
stored in the step that looks whether it may be, because nothing reads its row
before the answer. `backend` is fixed when the server starts. `Regroup` is the
administrator of the system changing the PAM group. `answered` (the cookie of a
session was sent), `by` and `challenge` of a passkey are observations.

Left out: what Argon2, PAM and WebAuthn compute, the counter of a passkey, the
limiter of attempts, the setup token
(`setup_allowed` is taken to hold), cookies, the audit log, a user's layout.

### Tokens

A token is a number, in the order of issue. `tasks[t]` is where a task is between load
and store: `run` with its rounds, `sync_once_opts`, or a command such as `login` and
`refresh`. Tasks of a process share `KEY_CACHE`, whose lock is held while the key file
is made; processes share `oauth.key` and the row. Making the file is three steps, as
in `load_or_create_file_key`: `MissKey` (it does not exist), `CreateKey` (`create_new`,
which fails when another process was faster) and `WriteKey`; `Crash` may come between
them. The round of the logger is `turn`, the cars it has yet to look at, and `due`:
a poll ends somehow (`PollEnds`), the tokens are stored and an error of that is
ignored. Keys from the environment, the move of a key file of an older version and
what Tesla accepts are left out.

### Queries

Each request is a handler (`req`), what it holds of `QueryGate` (`permits`) and a
blocking task (`task`), which runs on when the client goes away (`Disconnect`) while
the permits do not. The pool hands out its connections in turn, free or not (`Queue`);
who has the lock sets its progress handler, and `Release` is the drop of
`ClearProgress` and of the lock, in this order, however the statement ends. Of a
result only its age matters: `missed` counts the ticks since the first commit that
it does not show, and `age` those since it was put in the cache.

### Pricing

A price is known by where it comes from: an invoice, or a price of the location and
whether the charge had ended. `Free` says that nobody holds the connection of the
process: `complete_charge` holds it from `EndCharge` to `PriceCharge`, the invoices
task while it goes through a page. `sync-invoices` is another process and comes
between any two statements. The items of a page are taken in any order, which is a
superset of the code's. `Match` and `Seek` are the two queries of `match_process`: the
charge an invoice is linked to, and the candidates; a link of the other sync may come
in between. `lost` remembers that something was cut short which nothing in
the code takes up again, so that `PricesSettle` does not claim it.

### Positions

The rows of `positions` with their hour, bucket, drive and whether they come from
`vehicle_data`; `hourly` has the count of each hour, which stands for its averages.
`Reading` stores the row and `Refresh` its hour, as two steps; a reading whose answer has
no ideal range is a row that rollup and compact do not tell from a streamed one. Compact
is a list of references made once, one transaction per drive and one for the rest. Import
copies table after table, each in a transaction of its own and from the state that
TeslaMate's database has then: `TeslaMate` is the sequence of its states, `source` the one
it is in, and `SourceMoves` (it goes on logging) may come between any two copies. Each
state holds positions for all its references; what is imported need not
(see "Divergences without a run").
`EndsKept` is therefore about steps: compact, readings and restarts take away no position
that is referred to, whatever an import left. `missed` says why the rollup may lack rows. What import does to
the other tables is left out.

### History

`EndState` and `InsertState` are the two statements of `record_state`. `Sync` is the
`SELECT` of `sync_updates` and what it decides, `Write` the `INSERT` or `UPDATE`, and
the other process may come in between. `Start` is `sync_updates_from_snapshots`. The
car falls asleep, wakes, installs and gives up an installation as it likes.

## Runs

| run | question | bounds |
|---|---|---|
| `poller` | both modes: silence bounded, parked cars suspended, sleeping cars left alone, deadlines fixed; without streaming, none suspended early | 16 time units, poll intervals of 1 or 2 |
| `sessions` | readings with an ideal range, stream rows, crashes and failures in any order; refinement | 4 positions, 4 time units, gap 1 |
| `location_jobs` | saves at any moment of a rematch; refinement and liveness | 2 handlers, 4 changes and calls |
| `accounts` | requests between each other's sections, with a password, a passkey or PAM | 3 users, 2 requests, 3 tokens, lives of 0 or 1 |
| `tokens` | load, rotate and store by three tasks of two processes that race for the key | 2 cars, 3 tokens, any number of crashes |
| `queries` | permits, connections and cache under clients that leave; every query ends | 3 connections of 2 users, 1 permit of each kind, 1 reader, 1 statement, all waits 1 tick |
| `pricing` | saves, ends of charges, rematches and two syncs in any order | 2 charges, 2 invoices, pages of 1, 2 pages (none is beyond `MaxPages`), 1 price or none |
| `positions` | readings, stream rows, compactions and imports that stop anywhere, from a TeslaMate that goes on | 1 drive, 3 ids, 3 hours and buckets, 1 charge, 2 states of TeslaMate |
| `history` | states and updates under stale readings, failures and restarts | 2 states, 2 instants, 4 events |

The bounds let the interesting cases happen.

* `poller`: 16 units hold a whole suspension, the check after it, a rate limit and a
  second suspension.
* `sessions`: a gap of 1 lets two readings join, and lie apart; 4 positions are a drive
  of two points and two more readings after it. `Ranges <- WithRange`: each reading
  has an ideal range, as vehicle_data of a car that is online has, and writes its hour of
  `position_hourly`, so that its `pos_id` is a rowid of that table: smaller than that of
  its own row, the same by chance, or, after a restart that built hours, larger (`MaxHourly`
  says how long restarts go on with that). When the refresh of the hour fails it is
  the row itself, as it is of a reading without a range.
* `location_jobs`: with 2 handlers and 4 calls a change arrives before, during and
  after a rematch, and once more during the rerun it caused.
* `accounts`: the third user is needed for an invite to be used twice, and two of the users
  are known to PAM, where one can sign in after the challenge of the other was given;
  three tokens are a session, an invite and a challenge, or more sessions than the cap
  of 1. The users of a kind and the requests are symmetric.
* `tokens`: two processes are enough to race for the file, and within one the logger and
  the invoices task for the lock; with 3 tokens a rotation meets one of another task
  and a login. Crashes are not bounded.
* `queries`: two connections of one user and one of another, with one permit each,
  make both limits bite; with one reader whoever comes next meets the handler of who
  was there before. One tick for each wait makes a timeout and an answer possible in
  the same state.
* `pricing`: two invoices that both fit the first charge, one of which fits the second
  too, compete for it; pages of one make each new invoice shift the pages under a sync.
* `positions`: TeslaMate is in a drive with two points, and then has ended it with a third
  point in the same bucket and begun a charge, so that each table can be copied before or
  after; the logger adds more and closes the drive, and an hour that the rollup misses can
  be the last or an earlier one.
* `history`: 4 events are an installation that is given up, one that is seen by the other
  process only, a failure and a crash, or any other four.

The clocks of `Poller`, `Sessions`, `Accounts`, `Positions` and `History` stop at `MaxTime`,
after which the other actions go on. Deadlock is checked in every run but those of
`LocationJobs`, where all work may be done.

Runs that find a violation show that the code does something else than its
comments say:

| run | property | what the code does |
|---|---|---|
| `sessions_rowid` | `ParkedPointJoins` | `pos_id` is a rowid of `position_hourly`, and the parked point does not join the drive |
| `location_interrupted` | `ChangesReachHistory` | a client that leaves during the save takes the call of `start()` with it; a restart forgets a queued rematch |
| `positions_import` | `ChartsShowHistory` | a rollup that has rows is only built on from its last hour, so that a history imported later never gets into it |

### Divergences without a run

Met while modelling, and left to the reader of the code. The models do what the code
does, and the properties are stated so that they hold of it.

* `logger.rs:207-222`: the cars are polled one after the other, and the poll of a driving
  car streams until its drive ends; the others wait as long. `SilenceBounded` and
  `ParkedIsSuspended` are of a loop in which no other car drives: then the wait for a turn
  is at most `Lateness`.
* `invoices.rs:151`: a sync stops after `MAX_PAGES` pages, so that the invoices beyond them
  never arrive. `InvoicesArrive` is about histories that fit; its run has no longer one.
* `app_state.rs:73-95`: a rematch that fails is not tried again before the next change.
  `ChangesReachHistory` is content with a job that shows the failure, which may be
  of a rematch that an earlier change had asked for.
* `db.rs:182`: compact takes every row without an ideal range for a streamed one, also a
  reading of vehicle_data whose answer had none.
* `logger.rs:538-539`: the rowid that `sessions_rowid` shows has more consequences. A driving
  reading with an ideal range may be left without a drive, and the drive gets an older
  row instead; when this row is a point of a drive that has ended, that drive loses it, its
  `end_date` is no longer that of its last point, and the next drive begins before it
  ended. `EndedStay` says what is left: the rows of what has ended stay and get no
  further point.
* `import.rs:50-55, 83-101`: each table is copied by a psql session of its own, with foreign
  keys off, from a TeslaMate that is still running (`README.md:5`). A drive that ends, or a
  charge that begins, after `positions` was copied and before its own table is, refers to a
  position that is not imported, and a later reading may be given its id. So an import is not
  quite the "1:1" copy of `README.md:20`, and `EndsKept` does not claim it.
* `sleep.rs:240` and `:33-35`: an import that turns streaming off leaves a suspended car
  without a deadline; `vehicle_data` is not asked for again until the car sleeps or
  the process restarts. `SilenceBounded` is stated for settings that stay.
* `logger.rs:365, 371`: the first parked row after a drive dates the idle clock
  `STREAM_IDLE` back, as if the stream had been silent; a stream that breaks leaves it
  where the drive began. Hence `PollingSuspendsAfterIdle` is about the mode without
  streaming.
* `sleep.rs:10-11` says that a suspension lasts until the stream fails, while a `Suspend`
  probe that fails waits like a quiet one (`:294`); `AfterSuspend` follows the code.
* `logger.rs:690-693, 1249`: rows of a stream that was alive but unreadable for longer than
  the gap join the old drive. Hence `ReadingsJoinRecent` is about readings.
* `auth_http.rs:480-511`: an account that is set up or invited with a passkey is committed
  before its passkey; when the handler ends in between nobody can sign in to it or
  set it up again (`README.md:26`).
* `logger.rs:246`, `invoices.rs:87`, `main.rs:95`: a task stores the token it holds,
  which may be older than the one that another task or a login has stored meanwhile.
* `token_crypto.rs:120`: a process that stops between the creation of `oauth.key` and
  writing it leaves an empty file, which nobody replaces; every later use fails.
  `EveryCarPolled` assumes that there is a key.
* `server.rs:707, 763`: a query that the progress handler ends at its deadline is
  answered as cancelled, one that ends itself as timed out (`:737`), which `web/app.js:431`
  shows differently.
* `server.rs:602`: an abandoned query has given back its permits while its task may still
  wait for a connection: the tasks are not capped, those that somebody waits for are
  (`WorkCapped`).
* `invoices.rs:137`: two syncs at once can link an invoice to one charge and then to
  another; both charges keep the price.
* `logger.rs:1001`: a process that stops between the end of a charge and its price leaves
  it without one until a location is saved.
* `logger.rs:435-438`: an installation that is given up leaves an open row, which the next
  quiet reading closes with the old version; a reading of the other process and a
  stale snapshot can add the same version twice.

### Fairness

`Poller`, `Sessions`, `Accounts` and `Positions` have only safety properties and no
fairness: in `Poller` bounds on the clock in `Tick` say that a call ends in time, which
is what the timeouts of the HTTP client give.

* `LocationJobs`: a handler that is polled goes on (axum polls it while its client is
  there) and the blocking pool runs a task that was spawned; both are what tokio
  promises. Nothing is assumed of clients.
* `Tokens`: the loop of the logger runs on, its polls end, who holds the lock of the key
  goes on, and the next poll of a car comes. Nothing is assumed of the other tasks,
  and `EveryCarPolled` itself assumes that the process is not restarted for ever.
* `Queries`: time passes, a timer that has run out fires, a blocking task runs on and
  SQLite's statements end (the progress handler sees to it). Strong fairness is assumed of
  the lock of a connection alone: it is given up again and again, and a waiter gets it at
  some time. A permit may well never come, for which there is `Refuse`.
* `Pricing`: the invoices task syncs again and again and the logger prices the charge it
  has ended. Nothing is assumed of commands, saves and rematches.
* `History`: the logger's steps follow each other, and strong fairness of `Read` says that
  a car that stays online is asked for its data again and again. This is what
  `SilenceBounded` says of `Poller`. The command gets to its end.

## Proofs

`PollerProofs`:

* `TypeCorrect`: for all settings, answers and bounds; every instant that is remembered
  has passed.
* `SilenceIsBounded`: an online car is observed again within `MaxSilence`. The
  bound is not inductive: `SilenceInv` says for each await how far the clock can be
  from `heard_at`. `Hold` is the end of a suspension or check, bounded from the last
  observation (`HoldInv`); the next poll of a car that is held back lies just after
  the end of its hold or within one wait of the last observation (`Reach`), and a
  probe only begins before its hold has ended (`AwaitInv`). The configuration in use is
  the one in the database (`cfg = K`), which an import could break.
* `DeadlineIsFixed`: no probe, failed poll or summary moves the deadline of a
  suspension. From the types alone, by cases on the step.
* `OnlyOnlineTouched`: a stream or a read of vehicle_data follows a summary that said
  online, in the same poll.
* `PollingSuspendsLate`: without streaming no car is suspended before it was idle long
  enough. The idle time starts no earlier than the last sign of use (`IdleClock`).
* `ParkedSuspends`: a parked car is suspended in time. Per await the invariant bounds
  when the poll in progress began by the time at which the suspension is due
  (`ParkedInv`, `Due`).

`SessionsProofs`, for any gap and any number of positions:

* `SessionsTypeCorrect`, `ReadingsSettle`, `ChargesStayApart` and `ReadingsJoin`. That no
  session opens beside another is only true because of what the statements before it
  have done. The inductive invariant says this through `todo`: but for one statement that
  closes a session it is the end of the list that the reading began with (`Control`), the
  statement in front closes the session that is open (`Closes`), and how many are left
  says what they have brought about: from some statement on no charge is open, from the
  next one on the drive that is open is not stale, from the last one on there is one
  (`Driving`, `Charging`, `Idle`). It also needs that the rows are in the order of time
  (`Dated`), so that the newest row is the last reading.
* `SessionsKeepLog`: under this invariant each step begins, ends or discards the one open
  session of `SessionLog` or is a stutter. The id of a new session is not one that has
  ended, because sessions that have ended are never deleted.
* `EndedSessionsStay`: what has ended keeps its row, a charge its readings, and a drive
  gets no further point; a drive loses a point only to `pos_id` of a driving reading. For
  all readings, by cases on the statement.
* `OnlyTheRowid`: whatever breaks `NoOverlap`, `PointOnDrive` or `Final` (a drive that has
  ended keeps its points too) also breaks `RowNamed`, which says that
  `persist_snapshot` returns the id of the row it has inserted. None of the three
  holds of the code, and no run claims them; this theorem says that the rowid is the only
  cause, for any gap, any readings, crashes and failures. Its invariant adds that a point is put
  on a drive only while it is the newest (`Named`), and that whatever is open is later
  than all that has ended (`Later`).

`LocationProofs`, of the rematch job (`JobsSpec`; its names are told apart from those of
`Pricing`, which the module extends too):

* `OneTask` and `NothingLeftOut`: one rematch at a time, and a completed job leaves no
  change out, for any number of handlers and calls. The invariant says where the
  work of a change is: in a handler that has yet to call `start()`, in `rerun`,
  in a task that has not read the geofences, or done (`TaskInv`).
* `ImplementsCoalescedWork`: under that invariant each step of `JobsSpec` is a step
  of `CoalescedWork` or a stutter.

`AccountsProofs`: `TypeCorrect`, `FirstIsAdmin`, `InvitesMakeOneAccount`,
`ChallengesAnsweredOnce`, `PasskeysOwned`, `AccountsStayReachable` and `SessionsAreBounded`,
for any number of users, requests and tokens. The inductive invariant adds to the properties what a
handler knows between two sections: which of its locals are set and that the users
they name exist (`Sound`), that a token in use has been handed out and the token of a
challenge is in one place only (`Spent`), that there is no invite before the first
account, and that the passkeys are finitely many (counting them needs it). That sessions
stay bounded rests on their tokens being different (`OwnTokens`): those with fewer than
`SessionMax` newer ones are at most `SessionMax` (`NewestFew`).

`TokensProofs`: `TokensTypeCorrect`, `StoredCanBeRead` and `OneKey`, for any processes,
tasks and cars. That the row is readable needs more than itself (`KeyInv`): a key in memory
is the key in the file, of all processes one task writes the file and finds it empty when
it does, and a row that was read is under the key in the file.

`QueriesProofs`: `QueriesTypeCorrect`, `ReadersAreOwned`, `WorkIsCapped` and `CacheIsFresh`,
for any users, limits, connections and requests. A task that says it has a connection is the one that the
connection names, and a task whose client waits has both permits; the caps follow by
counting the holders. What a query or a cached answer may have missed is no older than
the query itself (`Dated`, `Kept`).

`LocationProofs`, of the prices: `PricingTypeCorrect`, `PricesAgree` and `InvoicesPrevail`, for any charges,
invoices and pages. The invariant says what each sync has in hand at each of its statements
(`Sound`), that what it is about to price is linked to its invoice or gone (`Held`), and what
an open charge costs: nothing while the location has no price, because then the end of the
charge may leave it alone (`Priced`).

`HistoryProofs`: `HistoryTypeCorrect` and `StatesFollow`. The second needs to know what
is true between the statements of `record_state` (`Prepared`): before the row is ended it
is the newest and open, before a row is inserted all others have ended by then; and that
no row lies in the future (`Past`).

`PositionsProofs`: `EndsAreKept`, `CompactIsThorough`, `RoutesAreKept` and `HourlyIsRight`,
for any drives, buckets and imported histories. While compact runs it is alone and its list of
references stays true, because it deletes nothing on the list; of the drives that it is
done with two streamed points of a bucket are left only if the later one is on the
list (`Thin`).
`EndsAreKept` assumes nothing of how the imported tables fit together: each step leaves
what is referred to, also when the references dangle already.
Of the rollup only one hour can be wrong without a sign of it, that of a reading which is
not rolled up or never was (`Rollup`); no hour of the rollup is later (`Past`), so opening
the database builds that hour again.

They rest on the named assumptions of the modules: intervals and limits are positive,
`None` is no other value, the sets of answers are sets of answers, `Admins` and
`Requests` of `Queries` are finite, each state of the
imported database has rows of the types of the tables, and positions with an id of
their own. That its references are whole (`Closed`) is assumed, and checked by TLC, of the
states in `MCPositions` alone; no proof needs it.

Model-checked only is liveness (the prover has no fairness): the liveness half of
`Coalesces`, `ChangesReachHistory`, `EveryCarPolled`, `EveryQueryEnds`, `InvoicesArrive`,
`CatchesUp`.

## Plan

Done: the modules above, in the order of the table, and their proofs. What would come next:

1. A second writer in `Sessions`: the readings of the `refresh` command.
2. The composition of `Poller` with `Sessions`: which readings the policy lets happen.

## Not modelled

* SQL translation (`sql.rs`), drawing in the browser, dashboards, packaging, mock and seed
  data: no state that events can disturb.
* The views of `live.rs` and `detail.rs` are reads; of `live.rs` the snapshot is in
  `History`.
* Of the web server: the limiter of attempts, CSRF and headers, the allowlist of tables, the
  readers without a gate.
* Of `token_crypto.rs`: keys from the environment, and the move of the key file of an older
  version (48-79).
* Of `import.rs`: the tables besides positions, drives and charging processes, and the
  conversion of values. Of `db.rs`: migrations of columns and the SQL functions.
* Of `invoices.rs`: the parsing of a page, energies in `best_match`, the extra page of
  `--full`.
* The readings of `refresh` as a second writer of drives and charges.

In the modelled parts: panics, a full disk, a clock that is set back, and the contents of
answers beyond what decisions read.
