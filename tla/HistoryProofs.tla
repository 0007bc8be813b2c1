--------------------------- MODULE HistoryProofs ---------------------------
(***************************************************************************)
(* Proofs about History: wherever the logger stops, the states of a car    *)
(* follow each other and only the newest is open.                          *)
(***************************************************************************)
EXTENDS History, TLAPS

\* What a task holds at each of its steps.
Sound(q) ==
  /\ q.at \in {"end", "insert"} => q.state \in States
  /\ q.at \in {"store", "sync", "resync", "write"} => q.data \in Data
  /\ q.at \in {"end", "insert", "write"} => q.date \in 0..now
  /\ q.at \in {"store", "sync", "resync"} => q.row = 0
  /\ q.at = "resync" => snapshot # None
  /\ q.at = "write" /\ q.row # 0 => q.row \in DOMAIN updates

\* What the steps that leave the states alone may change.
Others ==
  /\ events \in 0..MaxEvents
  /\ car \in [state : States, version : 1..(events + 1), installing : BOOLEAN]
  /\ updates \in Seq(Update)
  /\ snapshot \in [at : 0..now, data : Data] \cup {None}

Typed ==
  /\ TypeOK /\ Others
  /\ \A t \in Tasks : Sound(tasks[t])
  /\ tasks["refresh"].at \notin {"end", "insert"}

\* Every row began, and if it ended has ended, in the past.
Past ==
  \A i \in DOMAIN states : /\ states[i].start <= now
                           /\ states[i].end # None => states[i].end <= now

\* Before a row is ended it is the newest and open; before a row is inserted all
\* have ended.
Prepared ==
  LET q == tasks["logger"] IN
  /\ q.at = "end" => /\ Len(states) # 0 /\ q.row = Len(states)
                     /\ states[Len(states)].end = None
                     /\ states[Len(states)].start <= q.date
  /\ q.at = "insert" => \A i \in DOMAIN states : states[i].end # None /\ states[i].end <= q.date

IInv == Typed /\ Past /\ Prepared /\ StatesApart

LEMMA IdleTask ==
  /\ Idle \in Task /\ Idle.at = "idle"
  /\ \A step \in {"start", "fetch"} :
       [Idle EXCEPT !.at = step] \in Task /\ [Idle EXCEPT !.at = step].at = step
BY DEF Idle, Task

LEMMA InitInv == ASSUME Init PROVE IInv
<1>. USE HistoryAssumption
<1>1. /\ tasks \in [Tasks -> Task]
      /\ tasks["logger"].at = "start" /\ tasks["refresh"].at = "idle"
  BY IdleTask DEF Init, Tasks
<1>2. /\ states = <<>> /\ updates = <<>> /\ snapshot = None /\ now = 0 /\ events = 0
      /\ <<>> \in Seq(State) /\ <<>> \in Seq(Update)
  BY DEF Init
<1>3. Others
  <2>1. car.state \in States /\ car.version = 1 /\ car.installing = FALSE
        /\ car = [state |-> car.state, version |-> car.version, installing |-> car.installing]
    BY DEF Init
  <2>2. car \in [state : States, version : 1..(events + 1), installing : BOOLEAN]
    <3>1. 1 \in 1..(events + 1)
      BY <1>2
    <3>. QED BY <2>1, <3>1
  <2>3. events \in 0..MaxEvents
    BY <1>2
  <2>. QED BY <1>2, <2>2, <2>3 DEF Others
<1>4. car \in [state : States, version : Version, installing : BOOLEAN]
  BY <1>2, <1>3 DEF Others, Version
<1>5. TypeOK
  BY <1>1, <1>2, <1>4 DEF TypeOK, Time
<1>6. \A t \in Tasks : Sound(tasks[t])
  BY <1>1 DEF Tasks, Sound
<1>. QED BY <1>1, <1>2, <1>3, <1>5, <1>6 DEF IInv, Typed, Past, Prepared, StatesApart

-----------------------------------------------------------------------------
(* Steps that leave the states alone. *)

LEMMA Wider ==
  ASSUME NEW m \in Nat, NEW n \in Nat, m <= n
  PROVE  1..(m + 1) \subseteq 1..(n + 1) /\ 0..m \subseteq 0..n
OBVIOUS

\* One task goes on, with the states as they have to be.
LEMMA TaskMoves ==
  ASSUME IInv, NEW t \in Tasks, NEW q \in Task, Goto(t, q),
         t = "refresh" => q.at \notin {"end", "insert"}, \A r \in Tasks : Sound(tasks[r])', Others',
         now' = now, states' \in Seq(State), Past', Prepared', StatesApart'
  PROVE  IInv'
<1>1. /\ tasks' \in [Tasks -> Task]
      /\ \A r \in Tasks : tasks'[r] = IF r = t THEN q ELSE tasks[r]
  BY DEF IInv, Typed, TypeOK, Goto
<1>2. TypeOK'
  <2>. USE HistoryAssumption
  <2>1. now \in Time /\ now' = now
    BY DEF IInv, Typed, TypeOK
  <2>2. 1..(events' + 1) \subseteq Version /\ 0..now \subseteq Time
    <3>1. events' \in Nat /\ events' <= MaxEvents /\ now \in Nat /\ now <= MaxTime
      BY <2>1 DEF Others, Time
    <3>2. MaxEvents \in Nat /\ MaxTime \in Nat
      OBVIOUS
    <3>. QED BY <3>1, <3>2, Wider DEF Version, Time
  <2>3. car' \in [state : States, version : Version, installing : BOOLEAN]
    BY <2>2 DEF Others
  <2>4. snapshot' \in [at : Time, data : Data] \cup {None}
    BY <2>1, <2>2 DEF Others
  <2>5. events' \in 0..MaxEvents /\ updates' \in Seq(Update)
    BY DEF Others
  <2>. QED BY <1>1, <2>1, <2>3, <2>4, <2>5 DEF TypeOK
<1>3. "logger" \in Tasks /\ "refresh" \in Tasks
  BY DEF Tasks
<1>4. Typed'
  BY <1>1, <1>2, <1>3 DEF IInv, Typed
<1>. QED BY <1>4 DEF IInv

\* One task goes on to a step before which nothing has to be prepared.
LEMMA TaskGoes ==
  ASSUME IInv, NEW t \in Tasks, NEW q \in Task, Goto(t, q),
         q.at \notin {"end", "insert"}, \A r \in Tasks : Sound(tasks[r])', Others',
         UNCHANGED <<now, states>>
  PROVE  IInv'
<1>1. \A r \in Tasks : tasks'[r] = IF r = t THEN q ELSE tasks[r]
  BY DEF IInv, Typed, TypeOK, Goto
<1>2. "logger" \in Tasks
  BY DEF Tasks
<1>3. Past' /\ Prepared' /\ StatesApart' /\ states' \in Seq(State)
  BY <1>1, <1>2 DEF IInv, Typed, TypeOK, Past, Prepared, StatesApart
<1>. QED BY <1>3, TaskMoves

\* The tasks that do not move stay sound.
LEMMA OthersSound ==
  ASSUME IInv, NEW t \in Tasks, NEW q \in Task, Goto(t, q), Sound(q)',
         now' = now, snapshot # None => snapshot' # None,
         DOMAIN updates \subseteq DOMAIN updates'
  PROVE  \A r \in Tasks : Sound(tasks[r])'
<1>1. \A r \in Tasks : tasks'[r] = IF r = t THEN q ELSE tasks[r]
  BY DEF IInv, Typed, TypeOK, Goto
<1>2. ASSUME NEW r \in Tasks PROVE Sound(tasks[r])'
  BY <1>1 DEF IInv, Typed, Sound
<1>. QED BY <1>2

\* What the other tasks and the tables are when only the task moves.
LEMMA OthersSame ==
  ASSUME IInv, NEW t \in Tasks, NEW q \in Task, Goto(t, q), Sound(q)',
         UNCHANGED <<now, events, car, updates, snapshot>>
  PROVE  Others' /\ \A r \in Tasks : Sound(tasks[r])'
<1>1. Others'
  BY DEF IInv, Typed, Others
<1>2. \A r \in Tasks : Sound(tasks[r])'
  BY OthersSound
<1>. QED BY <1>1, <1>2

LEMMA StartInv == ASSUME IInv, Start PROVE IInv'
<1>. SUFFICES ASSUME NEW q, q = IF snapshot = None THEN Idle
                                ELSE [Idle EXCEPT !.at = "resync", !.data = snapshot.data]
              PROVE  IInv'
  OBVIOUS
<1>1. "logger" \in Tasks
  BY DEF Tasks
<1>2. snapshot # None => snapshot.data \in Data
  BY DEF IInv, Typed, Others
<1>3. q \in Task /\ q.at \in {"idle", "resync"} /\ q.row = 0
      /\ (q.at = "resync" => q.data \in Data /\ snapshot # None)
  BY <1>2, IdleTask DEF Idle, Task
<1>4. Goto("logger", q) /\ UNCHANGED <<now, events, car, states, updates, snapshot>>
  BY DEF Start
<1>5. Sound(q)'
  BY <1>3, <1>4 DEF Sound
<1>6. Others' /\ \A r \in Tasks : Sound(tasks[r])'
  BY <1>1, <1>3, <1>4, <1>5, OthersSame
<1>. QED BY <1>1, <1>3, <1>4, <1>6, TaskGoes

LEMMA SummaryOnlyInv == ASSUME IInv, SummaryOnly PROVE IInv'
<1>1. "logger" \in Tasks /\ Goto("logger", Idle) /\ UNCHANGED <<now, events, car, states, updates, snapshot>>
  BY DEF SummaryOnly, Tasks
<1>2. Sound(Idle)'
  BY IdleTask DEF Sound
<1>3. Others' /\ \A r \in Tasks : Sound(tasks[r])'
  BY <1>1, <1>2, IdleTask, OthersSame
<1>. QED BY <1>1, <1>3, IdleTask, TaskGoes

\* A reading is data of the versions that there are.
LEMMA ReadingIsData == ASSUME IInv PROVE Reading \in Data
<1>. USE HistoryAssumption
<1>1. car.version \in Version /\ car.installing \in BOOLEAN
  BY DEF IInv, Typed, TypeOK
<1>. QED BY <1>1 DEF Reading, Data

LEMMA ReadInv == ASSUME IInv, Read PROVE IInv'
<1>. SUFFICES ASSUME NEW q, q = [Idle EXCEPT !.at = "store", !.data = Reading]
              PROVE  IInv'
  OBVIOUS
<1>1. "logger" \in Tasks /\ Goto("logger", q) /\ UNCHANGED <<now, events, car, states, updates, snapshot>>
  BY DEF Read, Tasks
<1>2. q \in Task /\ q.at = "store" /\ q.data \in Data /\ q.row = 0
  BY ReadingIsData DEF Idle, Task
<1>3. Sound(q)'
  BY <1>2 DEF Sound
<1>4. Others' /\ \A r \in Tasks : Sound(tasks[r])'
  BY <1>1, <1>2, <1>3, OthersSame
<1>. QED BY <1>1, <1>2, <1>4, TaskGoes

\* One more event.
LEMMA Events ==
  ASSUME IInv, Event, UNCHANGED <<now, car, updates, snapshot>>
  PROVE  Others'
<1>. USE HistoryAssumption
<1>1. events \in Nat /\ events' = events + 1 /\ events' \in 0..MaxEvents
  BY DEF IInv, Typed, Others, Event
<1>2. 1..(events + 1) \subseteq 1..(events' + 1)
  BY <1>1, Wider
<1>3. car' \in [state : States, version : 1..(events' + 1), installing : BOOLEAN]
  BY <1>2 DEF IInv, Typed, Others
<1>. QED BY <1>1, <1>3 DEF IInv, Typed, Others

LEMMA RefreshReadsInv == ASSUME IInv, RefreshReads PROVE IInv'
<1>. SUFFICES ASSUME NEW q, q = [Idle EXCEPT !.at = "sync", !.data = Reading]
              PROVE  IInv'
  OBVIOUS
<1>1. "refresh" \in Tasks /\ Goto("refresh", q) /\ Event /\ UNCHANGED <<now, car, states, updates, snapshot>>
  BY DEF RefreshReads, Tasks
<1>2. q \in Task /\ q.at = "sync" /\ q.data \in Data /\ q.row = 0
  BY ReadingIsData DEF Idle, Task
<1>3. Sound(q)'
  BY <1>2 DEF Sound
<1>4. Others'
  BY <1>1, Events
<1>5. \A r \in Tasks : Sound(tasks[r])'
  BY <1>1, <1>2, <1>3, OthersSound
<1>. QED BY <1>1, <1>2, <1>4, <1>5, TaskGoes

LEMMA StoreInv == ASSUME IInv, Store PROVE IInv'
<1>. SUFFICES ASSUME NEW q, q = [tasks["logger"] EXCEPT !.at = "sync"]
              PROVE  IInv'
  OBVIOUS
<1>1. "logger" \in Tasks /\ Goto("logger", q) /\ UNCHANGED <<now, events, car, states, updates>>
      /\ snapshot' = [at |-> now, data |-> tasks["logger"].data] /\ tasks["logger"].at = "store"
  BY DEF Store, Tasks, At
<1>2. tasks["logger"] \in Task /\ tasks["logger"].data \in Data /\ tasks["logger"].row = 0
  BY <1>1 DEF IInv, Typed, TypeOK, Sound
<1>3. q \in Task /\ q.at = "sync" /\ q.data \in Data /\ q.row = 0
  BY <1>2 DEF Task
<1>4. Sound(q)'
  BY <1>3 DEF Sound
<1>5. now \in Nat
  BY HistoryAssumption DEF IInv, Typed, TypeOK, Time
<1>6. snapshot' \in [at : 0..now, data : Data]
  BY <1>1, <1>2, <1>5
<1>7. snapshot' # None
  BY <1>5, <1>6, HistoryAssumption
<1>8. Others'
  BY <1>1, <1>6 DEF IInv, Typed, Others
<1>9. \A r \in Tasks : Sound(tasks[r])'
  BY <1>1, <1>3, <1>4, <1>7, OthersSound
<1>. QED BY <1>1, <1>3, <1>8, <1>9, TaskGoes

LEMMA FailsInv == ASSUME IInv, NEW t \in Tasks, Fails(t) PROVE IInv'
<1>1. Goto(t, Idle) /\ Event /\ UNCHANGED <<now, car, states, updates, snapshot>>
  BY DEF Fails
<1>2. Sound(Idle)'
  BY IdleTask DEF Sound
<1>3. Others'
  BY <1>1, Events
<1>4. \A r \in Tasks : Sound(tasks[r])'
  BY <1>1, <1>2, IdleTask, OthersSound
<1>. QED BY <1>1, <1>3, <1>4, IdleTask, TaskGoes

LEMMA CrashInv == ASSUME IInv, Crash PROVE IInv'
<1>. DEFINE q == [Idle EXCEPT !.at = "start"]
<1>1. "logger" \in Tasks /\ Goto("logger", q) /\ Event /\ UNCHANGED <<now, car, states, updates, snapshot>>
  BY DEF Crash, Tasks
<1>2. q \in Task /\ q.at = "start"
  BY IdleTask
<1>. HIDE DEF q
<1>3. Sound(q)'
  BY <1>2 DEF Sound
<1>4. Others'
  BY <1>1, Events
<1>5. \A r \in Tasks : Sound(tasks[r])'
  BY <1>1, <1>2, <1>3, OthersSound
<1>. QED BY <1>1, <1>2, <1>4, <1>5, TaskGoes

-----------------------------------------------------------------------------
(* The steps of record_state. *)

LEMMA Newest ==
  ASSUME IInv, NEW i \in Current
  PROVE  i \in DOMAIN states /\ i = Len(states) /\ states[i].end = None
<1>1. i \in DOMAIN states /\ states[i].end = None
  BY DEF Current
<1>2. DOMAIN states = 1..Len(states) /\ Len(states) \in Nat
  BY DEF IInv, Typed, TypeOK
<1>3. ASSUME i # Len(states) PROVE FALSE
  <2>1. Len(states) \in DOMAIN states /\ i < Len(states)
    BY <1>1, <1>2, <1>3
  <2>. QED BY <1>1, <2>1 DEF IInv, StatesApart
<1>. QED BY <1>1, <1>3

LEMMA SummaryInv == ASSUME IInv, Summary PROVE IInv'
<1>. DEFINE task == [Idle EXCEPT !.state = car.state, !.date = now]
<1>1. /\ "logger" \in Tasks /\ UNCHANGED <<now, events, car, states, updates, snapshot>>
      /\ \/ Current = {} /\ Goto("logger", [task EXCEPT !.at = "insert"])
         \/ \E i \in Latest(Current, states) :
              Goto("logger", IF states[i].state = car.state THEN Recorded(task)
                             ELSE [task EXCEPT !.at = "end", !.row = i])
  BY DEF Summary, Tasks
<1>2. car.state \in States /\ now \in Time /\ now \in Nat /\ now \in 0..now
  BY HistoryAssumption DEF IInv, Typed, TypeOK, Time
<1>3. states \in Seq(State) /\ Len(states) \in Nat /\ DOMAIN states = 1..Len(states)
  BY DEF IInv, Typed, TypeOK
<1>4. Past' /\ StatesApart' /\ states' \in Seq(State)
  BY <1>1, <1>3 DEF IInv, Past, StatesApart
<1>5. ASSUME NEW q \in Task, Goto("logger", q), Sound(q)',
             q.at = "end" => /\ Len(states) # 0 /\ q.row = Len(states)
                             /\ states[Len(states)].end = None
                             /\ states[Len(states)].start <= q.date,
             q.at = "insert" => \A i \in DOMAIN states : states[i].end # None /\ states[i].end <= q.date
      PROVE  IInv'
  <2>1. tasks'["logger"] = q
    BY <1>5 DEF IInv, Typed, TypeOK, Goto, Tasks
  <2>2. Prepared'
    BY <1>1, <1>5, <2>1 DEF Prepared
  <2>3. Others' /\ \A r \in Tasks : Sound(tasks[r])'
    BY <1>1, <1>5, OthersSame
  <2>4. "logger" = "refresh" => q.at \notin {"end", "insert"}
    OBVIOUS
  <2>. QED BY <1>1, <1>4, <1>5, <2>2, <2>3, <2>4, TaskMoves
<1>6. CASE Current = {} /\ Goto("logger", [task EXCEPT !.at = "insert"])
  <2>. SUFFICES ASSUME NEW q, q = [task EXCEPT !.at = "insert"] PROVE IInv'
    OBVIOUS
  <2>1. q \in Task /\ q.at = "insert" /\ q.state \in States /\ q.date = now
    BY <1>2 DEF Idle, Task
  <2>2. Sound(q)'
    BY <1>1, <1>2, <2>1 DEF Sound
  <2>3. \A i \in DOMAIN states : states[i].end # None /\ states[i].end <= q.date
    BY <1>6, <2>1 DEF Current, IInv, Past
  <2>. QED BY <1>5, <1>6, <2>1, <2>2, <2>3
<1>7. ASSUME NEW i \in Latest(Current, states),
             Goto("logger", IF states[i].state = car.state THEN Recorded(task)
                            ELSE [task EXCEPT !.at = "end", !.row = i])
      PROVE  IInv'
  <2>1. i = Len(states) /\ i \in DOMAIN states /\ states[i].end = None /\ states[i].start <= now /\ i \in Nat
    <3>1. i \in Current
      BY <1>7 DEF Latest
    <3>. QED BY <1>3, <3>1, Newest DEF IInv, Past
  <2>2. CASE states[i].state = car.state
    <3>. SUFFICES ASSUME NEW q, q = Recorded(task) PROVE IInv'
      OBVIOUS
    <3>1. q \in Task /\ q.at \in {"idle", "fetch"}
      BY <1>2, IdleTask DEF Idle, Task, Recorded
    <3>2. Sound(q)'
      BY <3>1 DEF Sound
    <3>. QED BY <1>5, <1>7, <2>2, <3>1, <3>2
  <2>3. CASE states[i].state # car.state
    <3>. SUFFICES ASSUME NEW q, q = [task EXCEPT !.at = "end", !.row = i] PROVE IInv'
      OBVIOUS
    <3>1. q \in Task /\ q.at = "end" /\ q.state \in States /\ q.date = now /\ q.row = i
      BY <1>2, <2>1 DEF Idle, Task
    <3>2. Sound(q)'
      BY <1>1, <1>2, <3>1 DEF Sound
    <3>3. /\ Len(states) # 0 /\ q.row = Len(states) /\ states[Len(states)].end = None
          /\ states[Len(states)].start <= q.date
      BY <1>3, <2>1, <3>1
    <3>4. Goto("logger", q)
      BY <1>7, <2>3
    <3>. QED BY <1>5, <3>1, <3>2, <3>3, <3>4
  <2>. QED BY <2>2, <2>3
<1>. QED BY <1>1, <1>6, <1>7

LEMMA EndStateInv == ASSUME IInv, EndState PROVE IInv'
<1>. SUFFICES ASSUME NEW q, q = [tasks["logger"] EXCEPT !.at = "insert", !.row = 0],
                     NEW n, n = Len(states), NEW d, d = tasks["logger"].date
              PROVE  IInv'
  OBVIOUS
<1>1. /\ "logger" \in Tasks /\ Goto("logger", q) /\ UNCHANGED <<now, events, car, updates, snapshot>>
      /\ tasks["logger"].at = "end"
      /\ states' = [states EXCEPT ![tasks["logger"].row].end = d]
  BY DEF EndState, Tasks, At
<1>2. /\ tasks["logger"] \in Task /\ d \in 0..now /\ tasks["logger"].state \in States
      /\ n # 0 /\ tasks["logger"].row = n /\ states[n].end = None /\ states[n].start <= d
  BY <1>1 DEF IInv, Typed, TypeOK, Sound, Prepared
<1>3. /\ states \in Seq(State) /\ n \in Nat /\ DOMAIN states = 1..n /\ n \in 1..n
      /\ now \in Nat /\ now \in Time /\ d \in Time /\ d \in Nat /\ d <= now
  BY <1>2, HistoryAssumption DEF IInv, Typed, TypeOK, Time
<1>4. q \in Task /\ q.at = "insert" /\ q.state \in States /\ q.date = d
  BY <1>2, <1>3 DEF Task
<1>5. Sound(q)'
  BY <1>1, <1>2, <1>4 DEF Sound
<1>6. Others' /\ \A r \in Tasks : Sound(tasks[r])'
  BY <1>1, <1>4, <1>5, OthersSame
<1>7. /\ states' = [states EXCEPT ![n].end = d]
      /\ DOMAIN states' = 1..n /\ Len(states') = n /\ states' \in Seq(State)
  <2>1. [states[n] EXCEPT !.end = d] \in State
    <3>1. states[n] \in State
      BY <1>3
    <3>. QED BY <1>3, <3>1 DEF State
  <2>2. states' = [states EXCEPT ![n] = [states[n] EXCEPT !.end = d]]
    BY <1>1, <1>2
  <2>. QED BY <1>1, <1>2, <1>3, <2>1, <2>2
<1>8. /\ states'[n].end = d /\ states'[n].start = states[n].start
      /\ \A i \in 1..n : i # n => states'[i] = states[i]
  <2>1. states[n] \in State
    BY <1>3
  <2>. QED BY <1>3, <1>7, <2>1 DEF State
<1>9. d # None
  BY <1>3, HistoryAssumption
<1>10. Past'
  BY <1>1, <1>3, <1>7, <1>8, <1>9 DEF IInv, Past
<1>11. StatesApart'
  <2>. SUFFICES ASSUME NEW i \in 1..n, NEW j \in 1..n, i < j
                PROVE  states'[i].end # None /\ states'[i].end <= states'[j].start
    BY <1>7 DEF StatesApart
  <2>1. i # n /\ states'[i] = states[i] /\ states'[j].start = states[j].start
    BY <1>3, <1>8
  <2>. QED BY <1>3, <2>1 DEF IInv, StatesApart
<1>12. Prepared'
  <2>1. tasks'["logger"] = q
    BY <1>1 DEF IInv, Typed, TypeOK, Goto
  <2>2. \A i \in 1..n : states'[i].end # None /\ states'[i].end <= d
    <3>. SUFFICES ASSUME NEW i \in 1..n, i # n
                  PROVE  states'[i].end # None /\ states'[i].end <= d
      BY <1>3, <1>8, <1>9
    <3>1. i < n /\ states'[i] = states[i]
      BY <1>3, <1>8
    <3>2. states[i].end # None /\ states[i].end <= states[n].start
      BY <1>3, <3>1 DEF IInv, StatesApart
    <3>3. states[i] \in State /\ states[n] \in State
      BY <1>3
    <3>4. states[i].end \in Nat /\ states[n].start \in Nat
      BY <3>2, <3>3, HistoryAssumption DEF State, Time
    <3>. QED BY <1>2, <1>3, <3>1, <3>2, <3>4
  <2>. QED BY <1>4, <1>7, <2>1, <2>2 DEF Prepared
<1>. QED BY <1>1, <1>4, <1>6, <1>7, <1>10, <1>11, <1>12, TaskMoves

LEMMA InsertStateInv == ASSUME IInv, InsertState PROVE IInv'
<1>. SUFFICES ASSUME NEW q, q = Recorded(tasks["logger"]), NEW n, n = Len(states),
                     NEW d, d = tasks["logger"].date,
                     NEW s, s = [state |-> tasks["logger"].state, start |-> d, end |-> None]
              PROVE  IInv'
  OBVIOUS
<1>1. /\ "logger" \in Tasks /\ Goto("logger", q) /\ UNCHANGED <<now, events, car, updates, snapshot>>
      /\ tasks["logger"].at = "insert" /\ states' = Append(states, s)
  BY DEF InsertState, Tasks, At
<1>2. /\ tasks["logger"] \in Task /\ d \in 0..now /\ tasks["logger"].state \in States
      /\ \A i \in DOMAIN states : states[i].end # None /\ states[i].end <= d
  BY <1>1 DEF IInv, Typed, TypeOK, Sound, Prepared
<1>3. /\ states \in Seq(State) /\ n \in Nat /\ DOMAIN states = 1..n
      /\ now \in Nat /\ now \in Time /\ d \in Time /\ d \in Nat /\ d <= now
  BY <1>2, HistoryAssumption DEF IInv, Typed, TypeOK, Time
<1>4. s \in State /\ s.end = None /\ s.start = d
  BY <1>2, <1>3 DEF State
<1>5. q \in Task /\ q.at \in {"idle", "fetch"}
  BY <1>2, IdleTask DEF Task, Recorded
<1>6. Sound(q)'
  BY <1>5 DEF Sound
<1>7. Others' /\ \A r \in Tasks : Sound(tasks[r])'
  BY <1>1, <1>5, <1>6, OthersSame
<1>8. /\ states' \in Seq(State) /\ DOMAIN states' = 1..(n + 1)
      /\ states'[n + 1] = s /\ \A i \in 1..n : states'[i] = states[i]
  BY <1>1, <1>3, <1>4
<1>9. Past'
  <2>. SUFFICES ASSUME NEW i \in 1..(n + 1)
                PROVE  states'[i].start <= now /\ (states'[i].end # None => states'[i].end <= now)
    BY <1>1, <1>8 DEF Past
  <2>1. CASE i = n + 1
    BY <1>3, <1>4, <1>8, <2>1
  <2>2. CASE i # n + 1
    BY <1>3, <1>8, <2>2 DEF IInv, Past
  <2>. QED BY <2>1, <2>2
<1>10. StatesApart'
  <2>. SUFFICES ASSUME NEW i \in 1..(n + 1), NEW j \in 1..(n + 1), i < j
                PROVE  states'[i].end # None /\ states'[i].end <= states'[j].start
    BY <1>8 DEF StatesApart
  <2>1. i \in 1..n /\ states'[i] = states[i]
    BY <1>3, <1>8
  <2>2. CASE j = n + 1
    BY <1>2, <1>3, <1>4, <1>8, <2>1, <2>2
  <2>3. CASE j # n + 1
    BY <1>3, <1>8, <2>1, <2>3 DEF IInv, StatesApart
  <2>. QED BY <2>2, <2>3
<1>11. Prepared'
  <2>1. tasks'["logger"] = q
    BY <1>1 DEF IInv, Typed, TypeOK, Goto
  <2>. QED BY <1>5, <2>1 DEF Prepared
<1>12. "logger" = "refresh" => q.at \notin {"end", "insert"}
  OBVIOUS
<1>13. now' = now
  BY <1>1
<1>. QED BY <1>1, <1>5, <1>7, <1>8, <1>9, <1>10, <1>11, <1>12, <1>13, TaskMoves

-----------------------------------------------------------------------------
(* The steps of sync_updates. *)

LEMMA SyncInv == ASSUME IInv, NEW t \in Tasks, Sync(t) PROVE IInv'
<1>. DEFINE task == [tasks[t] EXCEPT !.at = "write", !.date = Date(t)]
<1>1. /\ tasks[t].at \in {"sync", "resync"}
      /\ UNCHANGED <<now, events, car, states, updates, snapshot>>
  BY DEF Sync, At
<1>2. \/ Goto(t, Idle)
      \/ \E i \in Open : Goto(t, [task EXCEPT !.row = i])
      \/ Goto(t, task) /\ Open = {}
  BY DEF Sync, Latest
<1>3. tasks[t] \in Task /\ tasks[t].data \in Data
  BY <1>1 DEF IInv, Typed, TypeOK, Sound
<1>4. Date(t) \in 0..now /\ Date(t) \in Time
  <2>1. now \in Time /\ now \in Nat /\ now \in 0..now
    BY HistoryAssumption DEF IInv, Typed, TypeOK, Time
  <2>2. At(t, "resync") => snapshot.at \in 0..now /\ snapshot.at \in Time
    <3>. SUFFICES ASSUME At(t, "resync") PROVE snapshot.at \in 0..now /\ snapshot.at \in Time
      OBVIOUS
    <3>1. snapshot # None
      BY DEF IInv, Typed, Sound, At
    <3>. QED BY <3>1 DEF IInv, Typed, TypeOK, Others
  <2>. QED BY <2>1, <2>2 DEF Date
<1>5. task \in Task /\ task.at = "write" /\ task.data \in Data /\ task.date \in 0..now
      /\ task.row = tasks[t].row
  BY <1>3, <1>4 DEF Task
<1>6. ASSUME NEW q \in Task, Goto(t, q), q.at \in {"idle", "write"},
             q.at = "write" => q.data \in Data /\ q.date \in 0..now /\ (q.row # 0 => q.row \in DOMAIN updates)
      PROVE  IInv'
  <2>1. Sound(q)'
    BY <1>1, <1>6 DEF Sound
  <2>2. Others' /\ \A r \in Tasks : Sound(tasks[r])'
    BY <1>1, <1>6, <2>1, OthersSame
  <2>. QED BY <1>1, <1>6, <2>2, TaskGoes
<1>7. CASE Goto(t, Idle)
  BY <1>6, <1>7, IdleTask
<1>8. ASSUME NEW i \in Open, Goto(t, [task EXCEPT !.row = i]) PROVE IInv'
  <2>. SUFFICES ASSUME NEW q, q = [task EXCEPT !.row = i] PROVE IInv'
    OBVIOUS
  <2>1. i \in DOMAIN updates /\ i \in Nat
    BY DEF IInv, Typed, TypeOK, Open
  <2>2. q \in Task /\ q.at = "write" /\ q.data \in Data /\ q.date \in 0..now /\ q.row = i
    <3>. HIDE DEF task
    <3>. QED BY <1>5, <2>1 DEF Task
  <2>. QED BY <1>6, <1>8, <2>1, <2>2
<1>9. CASE Goto(t, task) /\ Open = {}
  <2>. SUFFICES ASSUME NEW q, q = task PROVE IInv'
    OBVIOUS
  <2>1. q.row = 0
    BY <1>5, <1>1 DEF IInv, Typed, Sound
  <2>. QED BY <1>5, <1>6, <1>9, <2>1
<1>. QED BY <1>2, <1>7, <1>8, <1>9

LEMMA WriteInv == ASSUME IInv, NEW t \in Tasks, Write(t) PROVE IInv'
<1>. SUFFICES ASSUME NEW version, version = tasks[t].data.version, NEW date, date = tasks[t].date,
                     NEW i, i = tasks[t].row
              PROVE  IInv'
  OBVIOUS
<1>1. /\ tasks[t].at = "write" /\ Goto(t, Idle) /\ UNCHANGED <<now, events, car, states, snapshot>>
      /\ updates' = IF tasks[t].data.installing
                    THEN Append(updates, [start |-> date, end |-> None, version |-> None])
                    ELSE IF i = 0
                    THEN Append(updates, [start |-> date, end |-> date, version |-> version])
                    ELSE [updates EXCEPT ![i].end = date, ![i].version = version]
  BY DEF Write, At
<1>2. date \in 0..now /\ tasks[t].data \in Data /\ (i # 0 => i \in DOMAIN updates)
  BY <1>1 DEF IInv, Typed, Sound
<1>3. date \in Time /\ version \in Version /\ updates \in Seq(Update)
  BY <1>2, HistoryAssumption DEF IInv, Typed, TypeOK, Time, Data
<1>4. updates' \in Seq(Update) /\ DOMAIN updates \subseteq DOMAIN updates'
  <2>1. CASE tasks[t].data.installing
    <3>1. [start |-> date, end |-> None, version |-> None] \in Update
      BY <1>3 DEF Update
    <3>. QED BY <1>1, <1>3, <2>1, <3>1
  <2>2. CASE ~tasks[t].data.installing /\ i = 0
    <3>1. [start |-> date, end |-> date, version |-> version] \in Update
      BY <1>3 DEF Update
    <3>. QED BY <1>1, <1>3, <2>2, <3>1
  <2>3. CASE ~tasks[t].data.installing /\ i # 0
    <3>1. updates[i] \in Update
      BY <1>2, <1>3, <2>3
    <3>2. updates' = [updates EXCEPT ![i] = [updates[i] EXCEPT !.end = date, !.version = version]]
      BY <1>1, <1>2, <1>3, <2>3
    <3>3. [updates[i] EXCEPT !.end = date, !.version = version] \in Update
      BY <1>3, <3>1 DEF Update
    <3>. QED BY <1>2, <1>3, <2>3, <3>2, <3>3
  <2>. QED BY <2>1, <2>2, <2>3
<1>5. Others'
  BY <1>1, <1>4 DEF IInv, Typed, Others
<1>6. Sound(Idle)'
  BY IdleTask DEF Sound
<1>7. \A r \in Tasks : Sound(tasks[r])'
  BY <1>1, <1>4, <1>6, IdleTask, OthersSound
<1>. QED BY <1>1, <1>5, <1>7, IdleTask, TaskGoes

-----------------------------------------------------------------------------
(* The car and the clock. *)

LEMMA CarInv == ASSUME IInv, Car PROVE IInv'
<1>. USE HistoryAssumption
<1>1. UNCHANGED <<now, states, updates, snapshot, tasks>> /\ events' = events + 1
      /\ events \in 0..MaxEvents /\ events' \in 0..MaxEvents
      /\ car \in [state : States, version : 1..(events + 1), installing : BOOLEAN]
  BY DEF Car, Event, IInv, Typed, Others
<1>2. car' \in [state : States, version : 1..(events' + 1), installing : BOOLEAN]
  <2>1. \/ car'.state \in States /\ car' = [car EXCEPT !.state = car'.state]
        \/ car' = [car EXCEPT !.installing = TRUE]
        \/ car' = [car EXCEPT !.installing = FALSE]
        \/ car' = [car EXCEPT !.installing = FALSE, !.version = @ + 1]
    BY <1>1 DEF Car
  <2>2. car.version \in 1..(events' + 1) /\ car.version + 1 \in 1..(events' + 1)
    BY <1>1
  <2>. QED BY <1>1, <2>1, <2>2
<1>3. Others'
  BY <1>1, <1>2 DEF IInv, Typed, Others
<1>4. car' \in [state : States, version : Version, installing : BOOLEAN]
  <2>1. 1..(events' + 1) \subseteq Version
    BY <1>1, Wider DEF Version
  <2>. QED BY <1>2, <2>1
<1>. QED BY <1>1, <1>3, <1>4 DEF IInv, Typed, TypeOK, Sound, Past, Prepared, StatesApart

LEMMA TickInv == ASSUME IInv, Tick PROVE IInv'
<1>. USE HistoryAssumption
<1>1. /\ UNCHANGED <<events, car, states, updates, snapshot, tasks>>
      /\ now \in Nat /\ now' = now + 1 /\ now' \in Time /\ 0..now \subseteq 0..now'
  BY DEF Tick, IInv, Typed, TypeOK, Time
<1>2. Others'
  BY <1>1 DEF IInv, Typed, Others
<1>3. \A t \in Tasks : Sound(tasks[t])'
  BY <1>1 DEF IInv, Typed, Sound
<1>4. TypeOK'
  BY <1>1 DEF IInv, Typed, TypeOK
<1>5. Past'
  <2>. SUFFICES ASSUME NEW i \in DOMAIN states
                PROVE  states[i].start <= now' /\ (states[i].end # None => states[i].end <= now')
    BY <1>1 DEF Past
  <2>1. states[i].start <= now /\ (states[i].end # None => states[i].end <= now)
    BY DEF IInv, Past
  <2>2. states[i] \in State
    BY DEF IInv, Typed, TypeOK
  <2>3. states[i].start \in Nat /\ (states[i].end # None => states[i].end \in Nat)
    BY <2>2 DEF State, Time
  <2>. QED BY <1>1, <2>1, <2>3
<1>6. Prepared' /\ StatesApart'
  BY <1>1 DEF IInv, Prepared, StatesApart
<1>. QED BY <1>1, <1>2, <1>3, <1>4, <1>5, <1>6 DEF IInv, Typed

LEMMA Inductive == ASSUME IInv, [Next]_vars PROVE IInv'
<1>1. CASE UNCHANGED vars
  BY <1>1 DEF vars, IInv, Typed, TypeOK, Others, Sound, Past, Prepared, StatesApart
<1>2. CASE LoggerStep
  <2>1. "logger" \in Tasks
    BY DEF Tasks
  <2>. QED BY <1>2, <2>1, StartInv, SummaryInv, EndStateInv, InsertStateInv, StoreInv, SyncInv, WriteInv
           DEF LoggerStep
<1>3. CASE Read \/ SummaryOnly
  BY <1>3, ReadInv, SummaryOnlyInv
<1>4. CASE RefreshReads \/ Sync("refresh") \/ Write("refresh")
  <2>1. "refresh" \in Tasks
    BY DEF Tasks
  <2>. QED BY <1>4, <2>1, RefreshReadsInv, SyncInv, WriteInv
<1>5. CASE \E t \in Tasks : Fails(t)
  BY <1>5, FailsInv
<1>6. CASE Crash \/ Car \/ Tick
  BY <1>6, CrashInv, CarInv, TickInv
<1>. QED BY <1>1, <1>2, <1>3, <1>4, <1>5, <1>6 DEF Next

\* The tables and the tasks stay as the invariant says, from the first start on.
THEOREM HistoryInvariant == Spec => []IInv
<1>1. Init => IInv
  BY InitInv
<1>2. IInv /\ [Next]_vars => IInv'
  BY Inductive
<1>. QED BY <1>1, <1>2, PTL DEF Spec

\* The types hold for all states, clocks and numbers of events.
THEOREM HistoryTypeCorrect == Spec => []TypeOK
<1>1. IInv => TypeOK
  BY DEF IInv, Typed
<1>. QED BY <1>1, HistoryInvariant, PTL

\* record_state: wherever the logger stops between its two statements, the next
\* summary goes on from it, and the states of the car follow each other.
THEOREM StatesFollow == Spec => []StatesApart
<1>1. IInv => StatesApart
  BY DEF IInv
<1>. QED BY <1>1, HistoryInvariant, PTL
=============================================================================
