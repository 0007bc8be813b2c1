------------------------------ MODULE Queries ------------------------------
(***************************************************************************)
(* POST /api/query: the gate with its permits per user and in all, the     *)
(* blocking task that outlives a request whose client has gone, the pool   *)
(* of read connections with the progress handler that ends a query, and    *)
(* the cache of results (src/server.rs, src/app_state.rs, src/db.rs).      *)
(* Time is counted in ticks since something happened, never absolutely.    *)
(* The rate limit, the order in which waiters are served and the rows are  *)
(* left out; of a result it matters how old the data in it are.            *)
(***************************************************************************)
EXTENDS Naturals, FiniteSets

CONSTANTS
  None,
  Requests,       \* connections that send one query after the other
  Users, UserOf,
  PerUser,        \* permits of a user
  Global,         \* permits in all
  Readers,        \* size of the read pool
  Keys,           \* translated statements
  CacheMax,       \* QUERY_CACHE_MAX
  TTL,            \* QUERY_CACHE_TTL, in ticks
  Timeout,        \* query_timeout, in ticks
  Wait            \* QUERY_ACQUIRE_TIMEOUT, in ticks

VARIABLES
  req,       \* the handler of each connection
  permits,   \* what it holds of the gate
  task,      \* its blocking task
  readers,   \* per connection of the pool, the request whose task locked it
  handler,   \* per connection of the pool, the request whose flag ends it
  cursor,
  cache

vars == <<req, permits, task, readers, handler, cursor, cache>>

Pool == 0..(Readers - 1)
\* Ticks since the first commit that the data do not show, None if there is none.
Missed == {None} \cup 0..(TTL + Timeout + 1)
Reply == {"rows", "cancelled", "timeout", "failed", "busy"}
Req  == [at : {"idle", "user", "global", "run", "answered"}, key : Keys \cup {None},
         waited : 0..Wait, reply : Reply \cup {None}]
Task == [at : {"none", "start", "aux", "auxread", "lookup", "reader", "exec"},
         reader : Pool \cup {None}, elapsed : 0..Timeout, missed : Missed, gone : BOOLEAN]
Entry == [age : 0..(TTL + 1), missed : Missed]

NoReq  == [at |-> "idle", key |-> None, waited |-> 0, reply |-> None]
NoTask == [at |-> "none", reader |-> None, elapsed |-> 0, missed |-> None, gone |-> FALSE]

ASSUME QueriesAssumption ==
  /\ None \notin Requests \cup Keys \cup Nat \cup Reply
  /\ IsFiniteSet(Requests) /\ UserOf \in [Requests -> Users]
  /\ {PerUser, Global, Readers, CacheMax, Wait} \subseteq Nat \ {0}
  /\ {TTL, Timeout} \subseteq Nat

TypeOK ==
  /\ req \in [Requests -> Req]
  /\ permits \in [Requests -> {"none", "user", "both"}]
  /\ task \in [Requests -> Task]
  /\ readers \in [Pool -> Requests \cup {None}]
  /\ handler \in [Pool -> Requests \cup {None}]
  /\ cursor \in Pool
  /\ cache \in [Keys -> Entry \cup {None}]

Init ==
  /\ req = [r \in Requests |-> NoReq]
  /\ permits = [r \in Requests |-> "none"]
  /\ task = [r \in Requests |-> NoTask]
  /\ readers = [i \in Pool |-> None]
  /\ handler = [i \in Pool |-> None]
  /\ cursor = 0
  /\ cache = [k \in Keys |-> None]

-----------------------------------------------------------------------------
(* The handler: try_acquire, then the blocking task. *)

UserHolders(u) == {r \in Requests : UserOf[r] = u /\ permits[r] # "none"}
Holders == {r \in Requests : permits[r] = "both"}

Arrive(r, k) ==
  /\ req[r].at \in {"idle", "answered"} /\ task[r].at = "none"
  /\ req' = [req EXCEPT ![r] = [NoReq EXCEPT !.at = "user", !.key = k]]
  /\ UNCHANGED <<permits, task, readers, handler, cursor, cache>>

AcquireUser(r) ==
  /\ req[r].at = "user"
  /\ Cardinality(UserHolders(UserOf[r])) < PerUser
  /\ permits' = [permits EXCEPT ![r] = "user"]
  /\ req' = [req EXCEPT ![r].at = "global", ![r].waited = 0]
  /\ UNCHANGED <<task, readers, handler, cursor, cache>>

\* Mutant: let _ = try_acquire(..) instead of let _permits.
Spawn_drops_permits(r) ==
  /\ req[r].at = "global"
  /\ Cardinality(Holders) < Global
  /\ permits' = [permits EXCEPT ![r] = "none"]
  /\ req' = [req EXCEPT ![r].at = "run", ![r].waited = 0]
  /\ task' = [task EXCEPT ![r].at = "start"]
  /\ UNCHANGED <<readers, handler, cursor, cache>>

\* The global permit is there: the task is spawned and awaited.
Spawn(r) ==
  /\ req[r].at = "global"
  /\ Cardinality(Holders) < Global
  /\ permits' = [permits EXCEPT ![r] = "both"]
  /\ req' = [req EXCEPT ![r].at = "run", ![r].waited = 0]
  /\ task' = [task EXCEPT ![r].at = "start"]
  /\ UNCHANGED <<readers, handler, cursor, cache>>

\* The permits that a request holds are dropped with it.
Answer(r, reply) ==
  /\ req' = [req EXCEPT ![r] = [NoReq EXCEPT !.at = "answered", !.reply = reply]]
  /\ permits' = [permits EXCEPT ![r] = "none"]

\* Mutant: the second acquire waits without a timeout.
Refuse_user_only(r) ==
  /\ req[r].at = "user" /\ req[r].waited = Wait
  /\ Answer(r, "busy")
  /\ UNCHANGED <<task, readers, handler, cursor, cache>>

\* try_acquire has waited for a second: 429.
Refuse(r) ==
  /\ req[r].at \in {"user", "global"} /\ req[r].waited = Wait
  /\ Answer(r, "busy")
  /\ UNCHANGED <<task, readers, handler, cursor, cache>>

\* The client disconnects: the future is dropped, with the permits, and
\* CancelOnDrop sets the flag of the task.
Disconnect(r) ==
  /\ req[r].at \in {"user", "global", "run"}
  /\ req' = [req EXCEPT ![r].at = "idle", ![r].waited = 0,
                        ![r].key = IF req[r].at = "run" THEN @ ELSE None]
  /\ permits' = [permits EXCEPT ![r] = "none"]
  /\ task' = IF req[r].at = "run" THEN [task EXCEPT ![r].gone = TRUE] ELSE task
  /\ UNCHANGED <<readers, handler, cursor, cache>>

-----------------------------------------------------------------------------
(* execute_dashboard_query, in its blocking task. *)

\* It returns, to whom still waits for it.
Return(r, reply) ==
  /\ task' = [task EXCEPT ![r] = NoTask]
  /\ IF task[r].gone
     THEN req' = [req EXCEPT ![r] = NoReq] /\ UNCHANGED permits
     ELSE Answer(r, reply)

Goto(r, at) == task' = [task EXCEPT ![r].at = at] /\ UNCHANGED <<req, permits>>
\* Db::read: the next connection, whether it is free or not.
Queue(r, at) ==
  /\ task' = [task EXCEPT ![r].at = at, ![r].reader = cursor]
  /\ cursor' = (cursor + 1) % Readers
  /\ UNCHANGED <<req, permits>>

\* Denied by the allowlist, answered from the statistics, or on its way, with
\* battery_aux first when the template has $aux.
Begin(r) ==
  /\ task[r].at = "start"
  /\ \/ task[r].gone /\ Return(r, "cancelled") /\ UNCHANGED cursor
     \/ ~task[r].gone /\ (\E reply \in {"rows", "failed"} : Return(r, reply)) /\ UNCHANGED cursor
     \/ /\ ~task[r].gone
        /\ Queue(r, "aux") \/ (Goto(r, "lookup") /\ UNCHANGED cursor)
  /\ UNCHANGED <<readers, handler, cache>>

TakeAux(r) ==
  /\ task[r].at = "aux" /\ readers[task[r].reader] = None
  /\ IF task[r].gone
     THEN Return(r, "cancelled") /\ UNCHANGED readers
     ELSE /\ readers' = [readers EXCEPT ![task[r].reader] = r]
          /\ Goto(r, "auxread")
  /\ UNCHANGED <<handler, cursor, cache>>

\* battery_aux has read what it needs, and drop(conn).
AuxEnds(r) ==
  /\ task[r].at = "auxread"
  /\ readers' = [readers EXCEPT ![task[r].reader] = None]
  /\ task' = [task EXCEPT ![r].at = "lookup", ![r].reader = None]
  /\ UNCHANGED <<req, permits, handler, cursor, cache>>

\* Mutant: any entry answers.
Fresh_any(k) == cache[k] # None
\* QueryCache::get
Fresh(k) == cache[k] # None /\ cache[k].age <= TTL

\* The deadline counts from here.
Lookup(r) ==
  LET k == req[r].key IN
  /\ task[r].at = "lookup"
  /\ \/ ~Fresh(k) /\ cache' = [cache EXCEPT ![k] = None] 
        /\ \/ task[r].gone /\ Return(r, "cancelled") /\ UNCHANGED cursor
           \/ ~task[r].gone /\ Queue(r, "reader")
     \/ Fresh(k) /\ Return(r, "rows") /\ UNCHANGED <<cursor, cache>>
  /\ UNCHANGED <<readers, handler>>

\* The lock is there: the handler is set and the statement reads from now on.
TakeReader(r) ==
  LET i == task[r].reader IN
  /\ task[r].at = "reader" /\ readers[i] = None
  /\ IF task[r].gone
     THEN Return(r, "cancelled") /\ UNCHANGED <<readers, handler>>
     ELSE /\ readers' = [readers EXCEPT ![i] = r]
          /\ handler' = [handler EXCEPT ![i] = r]
          /\ Goto(r, "exec")
  /\ UNCHANGED <<cursor, cache>>

\* Mutant: an early return that leaves the handler.
Release_leaves_handler(i) == readers' = [readers EXCEPT ![i] = None] /\ UNCHANGED handler
\* The statement, ClearProgress and the lock are dropped, however it ends.
Release(i) == /\ readers' = [readers EXCEPT ![i] = None]
              /\ handler' = [handler EXCEPT ![i] = None]

\* The progress handler ends the statement.
Fires(i) == handler[i] # None /\ (task[handler[i]].gone \/ task[handler[i]].elapsed = Timeout)

\* QueryCache::put: the oldest entry makes room, also when k has one already.
Cached == {k \in Keys : cache[k] # None}
Oldest == {k \in Cached : \A o \in Cached : cache[o].age <= cache[k].age}
Put(k, missed) ==
  LET entry == [age |-> 0, missed |-> missed] IN
  IF Cardinality(Cached) >= CacheMax
  THEN \E old \in Oldest : cache' = [[cache EXCEPT ![old] = None] EXCEPT ![k] = entry]
  ELSE cache' = [cache EXCEPT ![k] = entry]

Execute(r) ==
  /\ task[r].at = "exec"
  /\ Release(task[r].reader)
  /\ UNCHANGED cursor
  /\ \/ Fires(task[r].reader) /\ Return(r, "cancelled") /\ UNCHANGED cache
     \* now >= deadline, between two rows
     \/ task[r].elapsed = Timeout /\ Return(r, "timeout") /\ UNCHANGED cache
     \* an error of SQLite, or a flag that is seen at the end
     \/ Return(r, IF task[r].gone THEN "cancelled" ELSE "failed") /\ UNCHANGED cache
     \* all rows, or as many as max_rows, which are not kept
     \/ /\ ~task[r].gone /\ task[r].elapsed < Timeout
        /\ Return(r, "rows")
        /\ UNCHANGED cache \/ Put(req[r].key, task[r].missed)

-----------------------------------------------------------------------------
\* Another connection commits a change of the tables.
Commit ==
  /\ task' = [r \in Requests |-> IF task[r].at = "exec" /\ task[r].missed = None
                                 THEN [task[r] EXCEPT !.missed = 0] ELSE task[r]]
  /\ cache' = [k \in Keys |-> IF cache[k] # None /\ cache[k].missed = None
                              THEN [cache[k] EXCEPT !.missed = 0] ELSE cache[k]]
  /\ UNCHANGED <<req, permits, readers, handler, cursor>>

Up(n, max) == IF n < max THEN n + 1 ELSE n
Later(missed) == IF missed = None THEN None ELSE Up(missed, TTL + Timeout + 1)

\* A tick passes; no timer that has run out waits for another one.
Tick ==
  /\ \A r \in Requests : /\ req[r].waited < Wait
                         /\ task[r].at = "exec" => task[r].elapsed < Timeout
  /\ req' = [r \in Requests |-> IF req[r].at \in {"user", "global"}
                                THEN [req[r] EXCEPT !.waited = @ + 1] ELSE req[r]]
  /\ task' = [r \in Requests |->
       [task[r] EXCEPT !.elapsed = IF task[r].at \in {"reader", "exec"} THEN Up(@, Timeout) ELSE @,
                       !.missed = Later(@)]]
  /\ cache' = [k \in Keys |-> IF cache[k] = None THEN None
                              ELSE [age |-> Up(cache[k].age, TTL + 1), missed |-> Later(cache[k].missed)]]
  /\ UNCHANGED <<permits, readers, handler, cursor>>

TaskStep(r) == Begin(r) \/ TakeAux(r) \/ AuxEnds(r) \/ Lookup(r) \/ TakeReader(r) \/ Execute(r)

Next ==
  \/ \E r \in Requests : \/ \E k \in Keys : Arrive(r, k)
                         \/ AcquireUser(r) \/ Spawn(r) \/ Refuse(r) \/ Disconnect(r)
                         \/ TaskStep(r)
  \/ Commit
  \/ Tick

\* Time passes, timers fire, tasks run on and statements end; a lock of the
\* pool that is given up again and again comes to each of those who wait.
Fairness ==
  /\ WF_vars(Tick)
  /\ \A r \in Requests : /\ WF_vars(Refuse(r))
                         /\ WF_vars(Begin(r) \/ AuxEnds(r) \/ Lookup(r) \/ Execute(r))
                         /\ SF_vars(TakeAux(r) \/ TakeReader(r))

Spec == Init /\ [][Next]_vars /\ Fairness

-----------------------------------------------------------------------------
(* Properties. *)

\* app_state.rs:327: the tasks that work for clients who still wait for them are
\* no more than the permits allow, of one user and in all.
Working == {r \in Requests : task[r].at # "none" /\ ~task[r].gone}
WorkCapped == /\ \A u \in Users : Cardinality({r \in Working : UserOf[r] = u}) <= PerUser
              /\ Cardinality(Working) <= Global

\* A connection of the pool is held by one task that means to use it, and its
\* progress handler is that of the query which runs on it: after any way out of
\* a query the next reader finds no handler that would end its statement.
ReadersOwned ==
  \A i \in Pool :
    /\ readers[i] # None => task[readers[i]].at \in {"auxread", "exec"} /\ task[readers[i]].reader = i
    /\ handler[i] # None => handler[i] = readers[i] /\ task[handler[i]].at = "exec"

\* What an answer from the cache does not show was committed no longer ago than
\* the time to live and the timeout of a query: an entry is dated when it is put,
\* and the data in it are as old as the query that read them.
AnsweredFresh ==
  [][\A r \in Requests :
       task[r].at = "lookup" /\ req[r].at = "run" /\ req'[r].reply = "rows"
         => cache[req[r].key].missed \in {None} \cup 0..(TTL + Timeout)]_vars

\* Every query ends: its request is answered, with rows, an error or 429, or its
\* client has gone, and its task has ended and given its connection back, also
\* when nobody waits for it any more.
Busy(r) == req[r].at \in {"user", "global", "run"} \/ task[r].at # "none"
EveryQueryEnds == \A r \in Requests : Busy(r) ~> ~Busy(r)
=============================================================================
