--------------------------- MODULE QueriesProofs ---------------------------
(***************************************************************************)
(* Proofs about Queries: for any number of users, connections and readers, *)
(* the tasks that work for a client stay within the permits, and a reader  *)
(* has the progress handler of the query that runs on it or none.          *)
(***************************************************************************)
EXTENDS Queries, FiniteSetTheorems, TLAPS

\* How the handler, its permits and its task go together.
Phase(r) ==
  /\ permits[r] # "none" => req[r].at \in {"global", "run"}
  /\ req[r].at = "global" => permits[r] = "user"
  /\ req[r].at = "run" <=> task[r].at # "none" /\ ~task[r].gone
  /\ req[r].at = "run" => permits[r] = "both"
  /\ task[r].gone => req[r].at = "idle" /\ task[r].at # "none"
  /\ task[r].at # "none" => req[r].key \in Keys
  /\ req[r].at \in {"user", "global", "run"} => req[r].key \in Keys

\* The task that holds or waits for a reader, and the reader that is held.
Owns(r) ==
  /\ task[r].at \in {"aux", "auxread", "reader", "exec"} => task[r].reader \in Pool
  /\ task[r].at \in {"auxread", "exec"} => readers[task[r].reader] = r

Capped == /\ \A u \in Users : Cardinality(UserHolders(u)) <= PerUser
          /\ Cardinality(Holders) <= Global

Links == \A r \in Requests : Phase(r) /\ Owns(r)

IInv == TypeOK /\ Links /\ ReadersOwned /\ Capped

-----------------------------------------------------------------------------
LEMMA Numbers == /\ PerUser \in Nat /\ Global \in Nat /\ Readers \in Nat /\ Wait \in Nat /\ TTL \in Nat
                 /\ Timeout \in Nat /\ 0 \in 0..Wait /\ 0 \in 0..Timeout /\ 0 \in 0..(TTL + 1)
BY QueriesAssumption

LEMMA PoolFacts == /\ 0 \in Pool /\ Readers \in Nat \ {0} /\ None \notin Pool
                   /\ \A i \in Pool : (i + 1) % Readers \in Pool
BY QueriesAssumption DEF Pool

LEMMA NullTypes == NoReq \in Req /\ NoTask \in Task
BY QueriesAssumption DEF NoReq, NoTask, Req, Task, Reply, Missed

\* Who holds permits is a finite set, and a smaller one is no larger.
LEMMA HoldersFinite ==
  /\ \A u \in Users : IsFiniteSet(UserHolders(u)) /\ Cardinality(UserHolders(u)) \in Nat
  /\ IsFiniteSet(Holders) /\ Cardinality(Holders) \in Nat
<1>. USE QueriesAssumption
<1>1. \A u \in Users : UserHolders(u) \subseteq Requests
  BY DEF UserHolders
<1>2. Holders \subseteq Requests
  BY DEF Holders
<1>. QED BY <1>1, <1>2, FS_Subset, FS_CardinalityType

LEMMA InitInv == ASSUME Init PROVE IInv
<1>. USE QueriesAssumption
<1>1. TypeOK
  BY NullTypes, PoolFacts DEF Init, TypeOK
<1>2. Links /\ ReadersOwned
  BY DEF Init, Links, Phase, Owns, ReadersOwned, NoReq, NoTask
<1>3. \A u \in Users : UserHolders(u) = {}
  BY DEF Init, UserHolders
<1>4. Holders = {}
  BY DEF Init, Holders
<1>5. Capped
  BY <1>3, <1>4, FS_EmptySet DEF Capped
<1>. QED BY <1>1, <1>2, <1>5 DEF IInv

-----------------------------------------------------------------------------
(* The permits. *)

LEMMA CappedShrinks ==
  ASSUME Capped,
         \A r \in Requests : /\ permits'[r] # "none" => permits[r] # "none"
                             /\ permits'[r] = "both" => permits[r] = "both"
  PROVE  Capped'
<1>1. \A u \in Users : UserHolders(u)' \subseteq UserHolders(u)
  BY DEF UserHolders
<1>2. Holders' \subseteq Holders
  BY DEF Holders
<1>3. \A u \in Users : Cardinality(UserHolders(u)') <= Cardinality(UserHolders(u))
                       /\ Cardinality(UserHolders(u)') \in Nat
  BY <1>1, HoldersFinite, FS_Subset, FS_CardinalityType
<1>4. Cardinality(Holders') <= Cardinality(Holders) /\ Cardinality(Holders') \in Nat
  BY <1>2, HoldersFinite, FS_Subset, FS_CardinalityType
<1>5. PerUser \in Nat /\ Global \in Nat
  BY QueriesAssumption
<1>6. \A u \in Users : Cardinality(UserHolders(u)') <= PerUser
  BY <1>3, <1>5, HoldersFinite DEF Capped
<1>7. Cardinality(Holders') <= Global
  BY <1>4, <1>5, HoldersFinite DEF Capped
<1>. QED BY <1>6, <1>7 DEF Capped

LEMMA AcquireCapped == ASSUME IInv, NEW r \in Requests, AcquireUser(r) PROVE Capped'
<1>. USE QueriesAssumption
<1>1. permits[r] = "none" /\ permits' = [permits EXCEPT ![r] = "user"]
  BY DEF AcquireUser, IInv, Links, Phase, TypeOK
<1>2. Holders' = Holders
  BY <1>1 DEF Holders, IInv, TypeOK
<1>3. \A u \in Users : u # UserOf[r] => UserHolders(u)' = UserHolders(u)
  BY <1>1 DEF UserHolders, IInv, TypeOK
<1>4. /\ UserHolders(UserOf[r])' = UserHolders(UserOf[r]) \cup {r} /\ r \notin UserHolders(UserOf[r])
      /\ UserOf[r] \in Users
  BY <1>1 DEF UserHolders, IInv, TypeOK
<1>5. Cardinality(UserHolders(UserOf[r]) \cup {r}) = Cardinality(UserHolders(UserOf[r])) + 1
  BY <1>4, HoldersFinite, FS_AddElement
<1>6. Cardinality(UserHolders(UserOf[r])') <= PerUser
  BY <1>4, <1>5, HoldersFinite DEF AcquireUser
<1>. QED BY <1>2, <1>3, <1>6 DEF Capped, IInv

LEMMA SpawnCapped == ASSUME IInv, NEW r \in Requests, Spawn(r) PROVE Capped'
<1>. USE QueriesAssumption
<1>1. permits[r] = "user" /\ permits' = [permits EXCEPT ![r] = "both"]
  BY DEF Spawn, IInv, Links, Phase
<1>2. \A u \in Users : UserHolders(u)' = UserHolders(u)
  BY <1>1 DEF UserHolders, IInv, TypeOK
<1>3. Holders' = Holders \cup {r} /\ r \notin Holders
  BY <1>1 DEF Holders, IInv, TypeOK
<1>4. Cardinality(Holders \cup {r}) = Cardinality(Holders) + 1
  BY <1>3, HoldersFinite, FS_AddElement
<1>5. Cardinality(Holders') <= Global
  BY <1>3, <1>4, HoldersFinite DEF Spawn
<1>. QED BY <1>2, <1>5 DEF Capped, IInv

-----------------------------------------------------------------------------
(* Steps of one request: its handler, its permits and its task. *)

\* What is left to show of a step of r that touches neither readers nor handlers,
\* and whose task neither held a reader nor holds one now.
LEMMA RequestStep ==
  ASSUME IInv, NEW r \in Requests, NEW q \in Req, NEW p \in {"none", "user", "both"}, NEW t \in Task,
         req' = [req EXCEPT ![r] = q], permits' = [permits EXCEPT ![r] = p],
         task' = [task EXCEPT ![r] = t], UNCHANGED <<readers, handler>>,
         t = task[r] \/ (/\ task[r].at \notin {"auxread", "exec"} /\ t.at \notin {"auxread", "exec"}
                         /\ t.at \in {"aux", "reader"} => t.reader \in Pool),
         Phase(r)'
  PROVE  Links' /\ ReadersOwned' /\ req' \in [Requests -> Req]
         /\ permits' \in [Requests -> {"none", "user", "both"}] /\ task' \in [Requests -> Task]
<1>1. /\ req' \in [Requests -> Req] /\ permits' \in [Requests -> {"none", "user", "both"}]
      /\ task' \in [Requests -> Task]
  BY DEF IInv, TypeOK
<1>2. \A s \in Requests : Phase(s)'
  BY DEF IInv, TypeOK, Links, Phase
<1>3. \A s \in Requests : Owns(s)'
  BY DEF IInv, TypeOK, Links, Owns
<1>4. ReadersOwned'
  BY QueriesAssumption DEF IInv, TypeOK, ReadersOwned
<1>. QED BY <1>1, <1>2, <1>3, <1>4 DEF Links

\* A step that locks reader i for the task of r.
LEMMA TakeStep ==
  ASSUME IInv, NEW r \in Requests, NEW i \in Pool, NEW at \in {"auxread", "exec"},
         task[r].at \in {"aux", "reader"}, task[r].reader = i, readers[i] = None,
         task' = [task EXCEPT ![r].at = at], readers' = [readers EXCEPT ![i] = r],
         handler' = IF at = "exec" THEN [handler EXCEPT ![i] = r] ELSE handler,
         UNCHANGED <<req, permits, cursor, cache>>
  PROVE  IInv'
<1>. USE QueriesAssumption
<1>. DEFINE t == [task[r] EXCEPT !.at = at]
<1>1. task' = [task EXCEPT ![r] = t] /\ t \in Task /\ t.at = at /\ t.reader = i /\ t.gone = task[r].gone
  BY DEF IInv, TypeOK, Task
<1>2. TypeOK'
  BY <1>1 DEF IInv, TypeOK
<1>3. \A s \in Requests : Phase(s)'
  BY <1>1 DEF IInv, TypeOK, Links, Phase
<1>4. \A s \in Requests : Owns(s)'
  BY <1>1 DEF IInv, TypeOK, Links, Owns
<1>5. ReadersOwned'
  <2>. SUFFICES ASSUME NEW j \in Pool
                PROVE  /\ readers'[j] # None => task'[readers'[j]].at \in {"auxread", "exec"}
                                                /\ task'[readers'[j]].reader = j
                       /\ handler'[j] # None => handler'[j] = readers'[j] /\ task'[handler'[j]].at = "exec"
    BY DEF ReadersOwned
  <2>1. CASE j = i
    <3>1. handler[i] = None
      BY DEF IInv, TypeOK, ReadersOwned
    <3>. QED BY <1>1, <2>1, <3>1 DEF IInv, TypeOK
  <2>2. CASE j # i
    <3>1. readers'[j] = readers[j] /\ handler'[j] = handler[j]
      BY <2>2 DEF IInv, TypeOK
    <3>2. readers[j] # r
      BY <2>2 DEF IInv, ReadersOwned
    <3>3. handler[j] # None => handler[j] = readers[j]
      BY DEF IInv, ReadersOwned
    <3>4. readers[j] # None => task'[readers[j]] = task[readers[j]]
      BY <1>1, <3>2 DEF IInv, TypeOK
    <3>. QED BY <3>1, <3>3, <3>4 DEF IInv, ReadersOwned
  <2>. QED BY <2>1, <2>2
<1>6. Capped'
  BY CappedShrinks DEF IInv
<1>. QED BY <1>2, <1>3, <1>4, <1>5, <1>6 DEF IInv, Links

\* A step that gives the reader of r back, with the handler.
LEMMA ReleaseStep ==
  ASSUME IInv, NEW r \in Requests, NEW q \in Req, NEW p \in {"none", "user", "both"}, NEW t \in Task,
         task[r].at \in {"auxread", "exec"}, t.at \in {"none", "lookup"},
         req' = [req EXCEPT ![r] = q], permits' = [permits EXCEPT ![r] = p],
         task' = [task EXCEPT ![r] = t],
         readers' = [readers EXCEPT ![task[r].reader] = None],
         handler' = [handler EXCEPT ![task[r].reader] = None] \/ (task[r].at = "auxread" /\ handler' = handler),
         Phase(r)'
  PROVE  Links' /\ ReadersOwned' /\ req' \in [Requests -> Req]
         /\ permits' \in [Requests -> {"none", "user", "both"}] /\ task' \in [Requests -> Task]
         /\ readers' \in [Pool -> Requests \cup {None}] /\ handler' \in [Pool -> Requests \cup {None}]
<1>. USE QueriesAssumption
<1>. DEFINE i == task[r].reader
<1>1. i \in Pool /\ readers[i] = r
  BY DEF IInv, Links, Owns
<1>2. /\ req' \in [Requests -> Req] /\ permits' \in [Requests -> {"none", "user", "both"}]
      /\ task' \in [Requests -> Task]
      /\ readers' \in [Pool -> Requests \cup {None}] /\ handler' \in [Pool -> Requests \cup {None}]
  BY <1>1 DEF IInv, TypeOK
<1>3. \A s \in Requests : Phase(s)'
  BY DEF IInv, TypeOK, Links, Phase
<1>4. \A s \in Requests : Owns(s)'
  <2>. SUFFICES ASSUME NEW s \in Requests, s # r PROVE Owns(s)'
    BY DEF Owns, IInv, TypeOK
  <2>1. task'[s] = task[s]
    BY DEF IInv, TypeOK
  <2>2. task[s].at \in {"auxread", "exec"} => task[s].reader # i
    BY <1>1 DEF IInv, Links, Owns
  <2>. QED BY <2>1, <2>2, <1>1 DEF IInv, TypeOK, Links, Owns
<1>5. ReadersOwned'
  <2>. SUFFICES ASSUME NEW j \in Pool
                PROVE  /\ readers'[j] # None => task'[readers'[j]].at \in {"auxread", "exec"}
                                                /\ task'[readers'[j]].reader = j
                       /\ handler'[j] # None => handler'[j] = readers'[j] /\ task'[handler'[j]].at = "exec"
    BY DEF ReadersOwned
  <2>1. CASE j = i
    <3>1. task[r].at = "auxread" => handler[i] = None
      BY <1>1 DEF IInv, ReadersOwned
    <3>. QED BY <1>1, <2>1, <3>1 DEF IInv, TypeOK
  <2>2. CASE j # i
    <3>1. readers'[j] = readers[j] /\ handler'[j] = handler[j]
      BY <2>2 DEF IInv, TypeOK
    <3>2. readers[j] # r
      BY <2>2 DEF IInv, ReadersOwned
    <3>3. handler[j] # None => handler[j] = readers[j]
      BY DEF IInv, ReadersOwned
    <3>4. readers[j] # None => task'[readers[j]] = task[readers[j]]
      BY <3>2 DEF IInv, TypeOK
    <3>. QED BY <3>1, <3>3, <3>4 DEF IInv, ReadersOwned
  <2>. QED BY <2>1, <2>2
<1>. QED BY <1>2, <1>3, <1>4, <1>5 DEF Links

-----------------------------------------------------------------------------
(* The steps of the handler. *)

LEMMA ArriveInv == ASSUME IInv, NEW r \in Requests, NEW k \in Keys, Arrive(r, k) PROVE IInv'
<1>. USE QueriesAssumption
<1>. DEFINE q == [NoReq EXCEPT !.at = "user", !.key = k]
<1>1. q \in Req /\ q.at = "user" /\ q.key = k
  BY Numbers DEF NoReq, Req, Reply
<1>2. /\ req' = [req EXCEPT ![r] = q] /\ permits' = [permits EXCEPT ![r] = permits[r]]
      /\ task' = [task EXCEPT ![r] = task[r]] /\ permits[r] \in {"none", "user", "both"} /\ task[r] \in Task
  BY DEF Arrive, IInv, TypeOK
<1>3. Phase(r)'
  BY <1>1, <1>2 DEF Arrive, IInv, TypeOK, Links, Phase
<1>4. Capped'
  BY CappedShrinks DEF Arrive, IInv
<1>5. UNCHANGED <<readers, handler, cursor, cache>>
  BY DEF Arrive
<1>6. /\ Links' /\ ReadersOwned' /\ req' \in [Requests -> Req]
      /\ permits' \in [Requests -> {"none", "user", "both"}] /\ task' \in [Requests -> Task]
  <2>. DEFINE p == permits[r]
              t == task[r]
  <2>1. p \in {"none", "user", "both"} /\ t \in Task /\ permits' = [permits EXCEPT ![r] = p]
        /\ task' = [task EXCEPT ![r] = t] /\ t = task[r]
    BY <1>2
  <2>. HIDE DEF p, t
  <2>. QED BY <1>1, <1>2, <1>3, <1>5, <2>1, RequestStep
<1>. QED BY <1>4, <1>5, <1>6 DEF IInv, TypeOK

LEMMA AcquireInv == ASSUME IInv, NEW r \in Requests, AcquireUser(r) PROVE IInv'
<1>. USE QueriesAssumption
<1>. DEFINE q == [req[r] EXCEPT !.at = "global", !.waited = 0]
<1>1. q \in Req /\ q.at = "global" /\ q.key = req[r].key
  BY Numbers DEF IInv, TypeOK, Req
<1>2. /\ req' = [req EXCEPT ![r] = q] /\ permits' = [permits EXCEPT ![r] = "user"]
      /\ task' = [task EXCEPT ![r] = task[r]] /\ task[r] \in Task
  BY DEF AcquireUser, IInv, TypeOK, Req
<1>3. Phase(r)'
  BY <1>1, <1>2 DEF AcquireUser, IInv, TypeOK, Links, Phase
<1>4. Capped'
  BY AcquireCapped
<1>. QED BY <1>1, <1>2, <1>3, <1>4, RequestStep DEF AcquireUser, IInv, TypeOK

LEMMA SpawnInv == ASSUME IInv, NEW r \in Requests, Spawn(r) PROVE IInv'
<1>. USE QueriesAssumption
<1>. DEFINE q == [req[r] EXCEPT !.at = "run", !.waited = 0]
            t == [task[r] EXCEPT !.at = "start"]
<1>1. q \in Req /\ q.at = "run" /\ q.key = req[r].key
  BY Numbers DEF IInv, TypeOK, Req
<1>2. t \in Task /\ t.at = "start" /\ t.gone = task[r].gone
  BY DEF IInv, TypeOK, Task
<1>3. /\ req' = [req EXCEPT ![r] = q] /\ permits' = [permits EXCEPT ![r] = "both"]
      /\ task' = [task EXCEPT ![r] = t]
  BY DEF Spawn, IInv, TypeOK, Req
<1>4. task[r].at = "none" /\ ~task[r].gone
  BY DEF Spawn, IInv, TypeOK, Links, Phase, Task
<1>5. Phase(r)'
  BY <1>1, <1>2, <1>3, <1>4 DEF Spawn, IInv, TypeOK, Links, Phase
<1>6. Capped'
  BY SpawnCapped
<1>. QED BY <1>1, <1>2, <1>3, <1>4, <1>5, <1>6, RequestStep DEF Spawn, IInv, TypeOK

\* Answer ends a handler.
LEMMA AnswerStep ==
  ASSUME IInv, NEW r \in Requests, NEW reply \in Reply, Answer(r, reply)
  PROVE  LET q == [NoReq EXCEPT !.at = "answered", !.reply = reply] IN
         /\ req' = [req EXCEPT ![r] = q] /\ q \in Req /\ q.at = "answered"
         /\ permits' = [permits EXCEPT ![r] = "none"] /\ Capped'
<1>. USE QueriesAssumption
<1>1. Capped'
  BY CappedShrinks DEF Answer, IInv, TypeOK
<1>. QED BY <1>1, Numbers DEF Answer, NoReq, Req

LEMMA RefuseInv == ASSUME IInv, NEW r \in Requests, Refuse(r) PROVE IInv'
<1>. USE QueriesAssumption
<1>. DEFINE q == [NoReq EXCEPT !.at = "answered", !.reply = "busy"]
<1>1. /\ req' = [req EXCEPT ![r] = q] /\ q \in Req /\ q.at = "answered"
      /\ permits' = [permits EXCEPT ![r] = "none"] /\ Capped'
  BY AnswerStep DEF Refuse, Reply
<1>2. task' = [task EXCEPT ![r] = task[r]] /\ task[r] \in Task
  BY DEF Refuse, IInv, TypeOK
<1>3. Phase(r)'
  BY <1>1, <1>2 DEF Refuse, IInv, TypeOK, Links, Phase
<1>. QED BY <1>1, <1>2, <1>3, RequestStep DEF Refuse, IInv, TypeOK

LEMMA DisconnectInv == ASSUME IInv, NEW r \in Requests, Disconnect(r) PROVE IInv'
<1>. USE QueriesAssumption
<1>. DEFINE key == IF req[r].at = "run" THEN req[r].key ELSE None
            q == [req[r] EXCEPT !.at = "idle", !.waited = 0, !.key = key]
            t == IF req[r].at = "run" THEN [task[r] EXCEPT !.gone = TRUE] ELSE task[r]
<1>1. q \in Req /\ q.at = "idle" /\ q.key = key
  BY Numbers DEF IInv, TypeOK, Req
<1>2. t \in Task /\ t.at = task[r].at /\ t.reader = task[r].reader
      /\ (t.gone <=> task[r].gone \/ req[r].at = "run")
  BY DEF IInv, TypeOK, Task
<1>3. /\ req' = [req EXCEPT ![r] = q] /\ permits' = [permits EXCEPT ![r] = "none"]
      /\ task' = [task EXCEPT ![r] = t]
  BY DEF Disconnect, IInv, TypeOK, Req
<1>4. Phase(r)'
  BY <1>1, <1>2, <1>3 DEF Disconnect, IInv, TypeOK, Links, Phase
<1>5. Capped'
  BY CappedShrinks DEF Disconnect, IInv, TypeOK
<1>6. TypeOK'
  BY <1>1, <1>2, <1>3 DEF Disconnect, IInv, TypeOK
<1>7. \A s \in Requests : Phase(s)'
  BY <1>3, <1>4 DEF IInv, TypeOK, Links, Phase
<1>8. \A s \in Requests : Owns(s)'
  BY <1>2, <1>3 DEF Disconnect, IInv, TypeOK, Links, Owns
<1>9. ReadersOwned'
  BY <1>2, <1>3 DEF Disconnect, IInv, TypeOK, ReadersOwned
<1>. QED BY <1>5, <1>6, <1>7, <1>8, <1>9 DEF IInv, Links

-----------------------------------------------------------------------------
(* The steps of the task. *)

\* Return in canonical form: what it does to the request, its permits and its task.
LEMMA ReturnStep ==
  ASSUME IInv, NEW r \in Requests, NEW reply \in Reply, Return(r, reply), task[r].at # "none"
  PROVE  \E q \in Req, p \in {"none", "user", "both"} :
           /\ req' = [req EXCEPT ![r] = q] /\ permits' = [permits EXCEPT ![r] = p]
           /\ task' = [task EXCEPT ![r] = NoTask] /\ NoTask \in Task
           /\ Phase(r)' /\ Capped'
<1>. USE QueriesAssumption, NullTypes
<1>0. task' = [task EXCEPT ![r] = NoTask] /\ task'[r] = NoTask
  BY DEF Return, IInv, TypeOK
<1>1. CASE task[r].gone
  <2>1. req' = [req EXCEPT ![r] = NoReq] /\ permits' = permits /\ permits[r] = "none"
        /\ permits' = [permits EXCEPT ![r] = "none"]
    BY <1>1 DEF Return, IInv, TypeOK, Links, Phase
  <2>2. Phase(r)'
    BY <1>0, <2>1 DEF Phase, NoReq, NoTask, IInv, TypeOK
  <2>3. Capped'
    BY <2>1, CappedShrinks DEF IInv
  <2>. QED BY <1>0, <2>1, <2>2, <2>3
<1>2. CASE ~task[r].gone
  <2>. DEFINE q == [NoReq EXCEPT !.at = "answered", !.reply = reply]
  <2>1. /\ req' = [req EXCEPT ![r] = q] /\ q \in Req /\ q.at = "answered"
        /\ permits' = [permits EXCEPT ![r] = "none"] /\ Capped'
    BY <1>2, AnswerStep DEF Return
  <2>2. Phase(r)'
    BY <1>0, <2>1 DEF Phase, NoTask, IInv, TypeOK
  <2>. QED BY <1>0, <2>1, <2>2
<1>. QED BY <1>1, <1>2

\* Return from a place where no reader is held.
LEMMA ReturnFree ==
  ASSUME IInv, NEW r \in Requests, NEW reply \in Reply, Return(r, reply),
         task[r].at \in {"start", "aux", "lookup", "reader"}, UNCHANGED <<readers, handler>>
  PROVE  Links' /\ ReadersOwned' /\ req' \in [Requests -> Req]
         /\ permits' \in [Requests -> {"none", "user", "both"}] /\ task' \in [Requests -> Task] /\ Capped'
<1>1. NoTask.at = "none"
  BY DEF NoTask
<1>. QED BY <1>1, ReturnStep, RequestStep

\* The task goes on to a place where it holds no reader.
LEMMA TaskStepFree ==
  ASSUME IInv, NEW r \in Requests, NEW t \in Task, task' = [task EXCEPT ![r] = t],
         task[r].at \in {"start", "lookup"}, t.at \in {"aux", "lookup", "reader"},
         t.gone = task[r].gone, t.at \in {"aux", "reader"} => t.reader \in Pool,
         UNCHANGED <<req, permits, readers, handler>>
  PROVE  Links' /\ ReadersOwned' /\ task' \in [Requests -> Task] /\ Capped'
<1>1. task' \in [Requests -> Task] /\ task'[r] = t
  BY DEF IInv, TypeOK
<1>2. \A s \in Requests : Phase(s)'
  BY <1>1 DEF IInv, TypeOK, Links, Phase
<1>3. \A s \in Requests : Owns(s)'
  BY <1>1 DEF IInv, TypeOK, Links, Owns
<1>4. ReadersOwned'
  BY <1>1, QueriesAssumption DEF IInv, TypeOK, ReadersOwned
<1>5. Capped'
  BY CappedShrinks DEF IInv
<1>. QED BY <1>1, <1>2, <1>3, <1>4, <1>5 DEF Links

LEMMA QueueStep ==
  ASSUME IInv, NEW r \in Requests, NEW at \in {"aux", "reader"}, Queue(r, at),
         task[r].at \in {"start", "lookup"}, UNCHANGED <<readers, handler>>
  PROVE  /\ Links' /\ ReadersOwned' /\ task' \in [Requests -> Task] /\ Capped'
         /\ cursor' \in Pool /\ UNCHANGED <<req, permits>>
<1>. DEFINE t == [task[r] EXCEPT !.at = at, !.reader = cursor]
<1>1. t \in Task /\ t.at = at /\ t.reader = cursor /\ t.gone = task[r].gone /\ cursor \in Pool
  BY DEF IInv, TypeOK, Task
<1>2. task' = [task EXCEPT ![r] = t] /\ UNCHANGED <<req, permits>> /\ cursor' \in Pool
  BY <1>1, PoolFacts DEF Queue, IInv, TypeOK, Task
<1>. QED BY <1>1, <1>2, TaskStepFree

LEMMA BeginInv == ASSUME IInv, NEW r \in Requests, Begin(r) PROVE IInv'
<1>1. task[r].at = "start" /\ UNCHANGED <<readers, handler, cache>>
  BY DEF Begin
<1>2. CASE \E reply \in Reply : Return(r, reply) /\ UNCHANGED cursor
  <2>1. PICK reply \in Reply : Return(r, reply) /\ UNCHANGED cursor
    BY <1>2
  <2>2. /\ Links' /\ ReadersOwned' /\ req' \in [Requests -> Req] /\ Capped'
        /\ permits' \in [Requests -> {"none", "user", "both"}] /\ task' \in [Requests -> Task]
    BY <1>1, <2>1, ReturnFree
  <2>. QED BY <1>1, <2>1, <2>2 DEF IInv, TypeOK
<1>3. CASE Queue(r, "aux")
  BY <1>1, <1>3, QueueStep DEF IInv, TypeOK
<1>4. CASE Goto(r, "lookup") /\ UNCHANGED cursor
  <2>. DEFINE t == [task[r] EXCEPT !.at = "lookup"]
  <2>1. t \in Task /\ t.at = "lookup" /\ t.gone = task[r].gone /\ task' = [task EXCEPT ![r] = t]
    BY <1>4 DEF Goto, IInv, TypeOK, Task
  <2>2. /\ Links' /\ ReadersOwned' /\ task' \in [Requests -> Task] /\ Capped'
    BY <1>1, <1>4, <2>1, TaskStepFree DEF Goto
  <2>. QED BY <1>1, <1>4, <2>2 DEF Goto, IInv, TypeOK
<1>. QED BY <1>2, <1>3, <1>4 DEF Begin, Reply

LEMMA TakeAuxInv == ASSUME IInv, NEW r \in Requests, TakeAux(r) PROVE IInv'
<1>1. task[r].at = "aux" /\ readers[task[r].reader] = None /\ UNCHANGED <<handler, cursor, cache>>
  BY DEF TakeAux
<1>2. CASE Return(r, "cancelled") /\ UNCHANGED readers
  <2>1. /\ Links' /\ ReadersOwned' /\ req' \in [Requests -> Req] /\ Capped'
        /\ permits' \in [Requests -> {"none", "user", "both"}] /\ task' \in [Requests -> Task]
    BY <1>1, <1>2, ReturnFree DEF Reply
  <2>. QED BY <1>1, <1>2, <2>1 DEF IInv, TypeOK
<1>3. CASE readers' = [readers EXCEPT ![task[r].reader] = r] /\ Goto(r, "auxread")
  <2>1. task[r].reader \in Pool
    BY <1>1 DEF IInv, Links, Owns
  <2>. QED BY <1>1, <1>3, <2>1, TakeStep DEF Goto
<1>. QED BY <1>2, <1>3 DEF TakeAux

LEMMA AuxEndsInv == ASSUME IInv, NEW r \in Requests, AuxEnds(r) PROVE IInv'
<1>. DEFINE t == [task[r] EXCEPT !.at = "lookup", !.reader = None]
            q == req[r]
            p == permits[r]
<1>1. t \in Task /\ t.at = "lookup" /\ t.gone = task[r].gone
  BY DEF IInv, TypeOK, Task
<1>2. /\ task[r].at = "auxread" /\ task' = [task EXCEPT ![r] = t] /\ task'[r] = t
      /\ readers' = [readers EXCEPT ![task[r].reader] = None]
      /\ UNCHANGED <<req, permits, handler, cursor, cache>>
  BY <1>1 DEF AuxEnds, IInv, TypeOK, Task
<1>3. /\ q \in Req /\ req' = [req EXCEPT ![r] = q]
      /\ p \in {"none", "user", "both"} /\ permits' = [permits EXCEPT ![r] = p]
  BY <1>2 DEF IInv, TypeOK
<1>4. Phase(r)'
  BY <1>1, <1>2 DEF IInv, Links, Phase
<1>. HIDE DEF t, q, p
<1>5. /\ Links' /\ ReadersOwned' /\ req' \in [Requests -> Req]
      /\ permits' \in [Requests -> {"none", "user", "both"}] /\ task' \in [Requests -> Task]
      /\ readers' \in [Pool -> Requests \cup {None}]
  BY <1>1, <1>2, <1>3, <1>4, ReleaseStep
<1>6. Capped'
  BY <1>2, CappedShrinks DEF IInv
<1>. QED BY <1>2, <1>5, <1>6 DEF IInv, TypeOK

LEMMA LookupInv == ASSUME IInv, NEW r \in Requests, Lookup(r) PROVE IInv'
<1>1. task[r].at = "lookup" /\ UNCHANGED <<readers, handler>>
  BY DEF Lookup
<1>2. cache' \in [Keys -> Entry \cup {None}]
  BY DEF Lookup, IInv, TypeOK
<1>3. CASE \E reply \in Reply : Return(r, reply) /\ UNCHANGED cursor
  <2>1. PICK reply \in Reply : Return(r, reply) /\ UNCHANGED cursor
    BY <1>3
  <2>2. /\ Links' /\ ReadersOwned' /\ req' \in [Requests -> Req] /\ Capped'
        /\ permits' \in [Requests -> {"none", "user", "both"}] /\ task' \in [Requests -> Task]
    BY <1>1, <2>1, ReturnFree
  <2>. QED BY <1>1, <1>2, <2>1, <2>2 DEF IInv, TypeOK
<1>4. CASE Queue(r, "reader")
  <2>1. /\ Links' /\ ReadersOwned' /\ task' \in [Requests -> Task] /\ Capped'
        /\ cursor' \in Pool /\ UNCHANGED <<req, permits>>
    BY <1>1, <1>4, QueueStep
  <2>. QED BY <1>1, <1>2, <2>1 DEF IInv, TypeOK
<1>. QED BY <1>3, <1>4 DEF Lookup, Reply

LEMMA TakeReaderInv == ASSUME IInv, NEW r \in Requests, TakeReader(r) PROVE IInv'
<1>1. task[r].at = "reader" /\ readers[task[r].reader] = None /\ UNCHANGED <<cursor, cache>>
  BY DEF TakeReader
<1>2. CASE Return(r, "cancelled") /\ UNCHANGED <<readers, handler>>
  <2>1. /\ Links' /\ ReadersOwned' /\ req' \in [Requests -> Req] /\ Capped'
        /\ permits' \in [Requests -> {"none", "user", "both"}] /\ task' \in [Requests -> Task]
    BY <1>1, <1>2, ReturnFree DEF Reply
  <2>. QED BY <1>1, <1>2, <2>1 DEF IInv, TypeOK
<1>3. CASE /\ readers' = [readers EXCEPT ![task[r].reader] = r]
           /\ handler' = [handler EXCEPT ![task[r].reader] = r]
           /\ Goto(r, "exec")
  <2>1. task[r].reader \in Pool
    BY <1>1 DEF IInv, Links, Owns
  <2>. QED BY <1>1, <1>3, <2>1, TakeStep DEF Goto
<1>. QED BY <1>2, <1>3 DEF TakeReader

LEMMA PutType ==
  ASSUME IInv, NEW k \in Keys, NEW missed \in Missed, Put(k, missed)
  PROVE  cache' \in [Keys -> Entry \cup {None}]
<1>1. [age |-> 0, missed |-> missed] \in Entry
  BY Numbers DEF Entry
<1>. QED BY <1>1 DEF Put, IInv, TypeOK

LEMMA ExecuteInv == ASSUME IInv, NEW r \in Requests, Execute(r) PROVE IInv'
<1>1. task[r].at = "exec" /\ Release(task[r].reader) /\ UNCHANGED cursor
  BY DEF Execute
<1>2. PICK reply \in Reply : Return(r, reply)
  BY DEF Execute, Reply
<1>3. cache' \in [Keys -> Entry \cup {None}]
  <2>1. req[r].key \in Keys /\ task[r].missed \in Missed
    BY <1>1 DEF IInv, Links, Phase, TypeOK, Task
  <2>2. UNCHANGED cache \/ Put(req[r].key, task[r].missed)
    BY DEF Execute
  <2>. QED BY <2>1, <2>2, PutType DEF IInv, TypeOK
<1>4. PICK q \in Req, p \in {"none", "user", "both"} :
           /\ req' = [req EXCEPT ![r] = q] /\ permits' = [permits EXCEPT ![r] = p]
           /\ task' = [task EXCEPT ![r] = NoTask] /\ NoTask \in Task
           /\ Phase(r)' /\ Capped'
  BY <1>1, <1>2, ReturnStep
<1>5. NoTask.at = "none"
  BY DEF NoTask
<1>6. /\ Links' /\ ReadersOwned' /\ req' \in [Requests -> Req]
      /\ permits' \in [Requests -> {"none", "user", "both"}] /\ task' \in [Requests -> Task]
      /\ readers' \in [Pool -> Requests \cup {None}] /\ handler' \in [Pool -> Requests \cup {None}]
  BY <1>1, <1>4, <1>5, ReleaseStep DEF Release
<1>. QED BY <1>1, <1>3, <1>4, <1>6 DEF IInv, TypeOK

-----------------------------------------------------------------------------
(* The data and the time. *)

LEMMA LaterType == \A missed \in Missed : Later(missed) \in Missed
BY Numbers, QueriesAssumption DEF Later, Up, Missed

LEMMA CommitInv == ASSUME IInv, Commit PROVE IInv'
<1>. USE QueriesAssumption
<1>1. 0 \in Missed
  BY Numbers DEF Missed
<1>2. \A r \in Requests : /\ task'[r] \in Task /\ task'[r].at = task[r].at
                          /\ task'[r].reader = task[r].reader /\ task'[r].gone = task[r].gone
  <2>. SUFFICES ASSUME NEW r \in Requests
                PROVE  /\ task'[r] \in Task /\ task'[r].at = task[r].at
                       /\ task'[r].reader = task[r].reader /\ task'[r].gone = task[r].gone
    OBVIOUS
  <2>1. task[r] \in Task /\ task'[r] \in {task[r], [task[r] EXCEPT !.missed = 0]}
    BY DEF Commit, IInv, TypeOK
  <2>. QED BY <1>1, <2>1 DEF Task
<1>3. task' \in [Requests -> Task] /\ cache' \in [Keys -> Entry \cup {None}]
  BY <1>1, <1>2 DEF Commit, IInv, TypeOK, Entry
<1>4. Links' /\ ReadersOwned'
  BY <1>2 DEF Commit, IInv, TypeOK, Links, Phase, Owns, ReadersOwned
<1>5. Capped'
  BY CappedShrinks DEF Commit, IInv
<1>. QED BY <1>3, <1>4, <1>5 DEF Commit, IInv, TypeOK

LEMMA TickInv == ASSUME IInv, Tick PROVE IInv'
<1>. USE QueriesAssumption, Numbers
<1>1. \A r \in Requests : /\ req'[r] \in Req /\ req'[r].at = req[r].at /\ req'[r].key = req[r].key
  <2>. SUFFICES ASSUME NEW r \in Requests
                PROVE  req'[r] \in Req /\ req'[r].at = req[r].at /\ req'[r].key = req[r].key
    OBVIOUS
  <2>1. req[r] \in Req /\ req[r].waited \in 0..Wait /\ req[r].waited < Wait
    BY DEF Tick, IInv, TypeOK, Req
  <2>2. req[r].waited + 1 \in 0..Wait
    BY <2>1
  <2>. QED BY <2>1, <2>2 DEF Tick, Req
<1>2. \A r \in Requests : /\ task'[r] \in Task /\ task'[r].at = task[r].at
                          /\ task'[r].reader = task[r].reader /\ task'[r].gone = task[r].gone
  <2>. SUFFICES ASSUME NEW r \in Requests
                PROVE  /\ task'[r] \in Task /\ task'[r].at = task[r].at
                       /\ task'[r].reader = task[r].reader /\ task'[r].gone = task[r].gone
    OBVIOUS
  <2>1. task[r] \in Task /\ Later(task[r].missed) \in Missed /\ Up(task[r].elapsed, Timeout) \in 0..Timeout
    BY LaterType DEF IInv, TypeOK, Task, Up
  <2>. QED BY <2>1 DEF Tick, Task
<1>3. \A k \in Keys : cache'[k] \in Entry \cup {None}
  <2>. SUFFICES ASSUME NEW k \in Keys, cache[k] # None PROVE cache'[k] \in Entry
    BY DEF Tick
  <2>1. cache[k] \in Entry
    BY DEF IInv, TypeOK
  <2>2. Later(cache[k].missed) \in Missed /\ Up(cache[k].age, TTL + 1) \in 0..(TTL + 1)
    BY <2>1, LaterType DEF Entry, Up
  <2>. QED BY <2>2 DEF Tick, Entry
<1>4. /\ req' \in [Requests -> Req] /\ task' \in [Requests -> Task]
      /\ cache' \in [Keys -> Entry \cup {None}] /\ UNCHANGED <<permits, readers, handler, cursor>>
  BY <1>1, <1>2, <1>3 DEF Tick
<1>5. \A r \in Requests : Phase(r)'
  BY <1>1, <1>2, <1>4 DEF IInv, Links, Phase
<1>6. \A r \in Requests : Owns(r)'
  BY <1>2, <1>4 DEF IInv, Links, Owns
<1>7. ReadersOwned'
  BY <1>2, <1>4 DEF IInv, TypeOK, ReadersOwned
<1>8. Capped'
  BY <1>4, CappedShrinks DEF IInv
<1>. QED BY <1>4, <1>5, <1>6, <1>7, <1>8 DEF IInv, TypeOK, Links

LEMMA NextInv == ASSUME IInv, Next PROVE IInv'
<1>1. ASSUME NEW r \in Requests, NEW k \in Keys, Arrive(r, k) PROVE IInv'
  BY <1>1, ArriveInv
<1>2. ASSUME NEW r \in Requests, AcquireUser(r) \/ Spawn(r) \/ Refuse(r) \/ Disconnect(r) PROVE IInv'
  BY <1>2, AcquireInv, SpawnInv, RefuseInv, DisconnectInv
<1>3. ASSUME NEW r \in Requests, TaskStep(r) PROVE IInv'
  BY <1>3, BeginInv, TakeAuxInv, AuxEndsInv, LookupInv, TakeReaderInv, ExecuteInv DEF TaskStep
<1>. QED BY <1>1, <1>2, <1>3, CommitInv, TickInv DEF Next

LEMMA Invariance == Spec => []IInv
<1>1. IInv /\ UNCHANGED vars => IInv'
  BY DEF IInv, TypeOK, Links, Phase, Owns, ReadersOwned, Capped, UserHolders, Holders, vars
<1>. QED BY <1>1, InitInv, NextInv, PTL DEF Spec

\* Every variable keeps its type.
THEOREM QueriesTypeCorrect == Spec => []TypeOK
<1>. QED BY Invariance, PTL DEF IInv

\* A connection of the pool has one user, and the progress handler of the query
\* that runs on it or none, for any number of readers and requests.
THEOREM ReadersAreOwned == Spec => []ReadersOwned
<1>1. IInv => ReadersOwned
  BY DEF IInv
<1>. QED BY <1>1, Invariance, PTL

\* The tasks that work for a client who still waits are within the permits of
\* their user and within those of all, whoever disconnects meanwhile.
THEOREM WorkIsCapped == Spec => []WorkCapped
<1>. USE QueriesAssumption, Numbers
<1>1. ASSUME IInv PROVE WorkCapped
  <2>1. Working \subseteq Holders
    BY <1>1 DEF Working, Holders, IInv, Links, Phase
  <2>2. \A u \in Users : {r \in Working : UserOf[r] = u} \subseteq UserHolders(u)
    BY <2>1 DEF Holders, UserHolders
  <2>3. Cardinality(Working) <= Cardinality(Holders) /\ Cardinality(Working) \in Nat
    BY <2>1, HoldersFinite, FS_Subset, FS_CardinalityType
  <2>4. \A u \in Users :
          /\ Cardinality({r \in Working : UserOf[r] = u}) <= Cardinality(UserHolders(u))
          /\ Cardinality({r \in Working : UserOf[r] = u}) \in Nat
    BY <2>2, HoldersFinite, FS_Subset, FS_CardinalityType
  <2>5. Cardinality(Working) <= Global
    BY <1>1, <2>3, HoldersFinite DEF IInv, Capped
  <2>6. \A u \in Users : Cardinality({r \in Working : UserOf[r] = u}) <= PerUser
    BY <1>1, <2>4, HoldersFinite DEF IInv, Capped
  <2>. QED BY <2>5, <2>6 DEF WorkCapped
<1>. QED BY <1>1, Invariance, PTL

-----------------------------------------------------------------------------
(***************************************************************************)
(* AnsweredFresh.  What a running query missed is no older than the query, *)
(* and what an entry does not show no older than the entry and a query.    *)
(***************************************************************************)
Dated(r) ==
  /\ task[r].missed # None => task[r].at = "exec" /\ task[r].missed <= task[r].elapsed
  /\ req[r].at \in {"user", "global", "run"} => req[r].reply = None

Kept(k) ==
  cache[k] # None /\ cache[k].missed # None => cache[k].missed <= cache[k].age + Timeout

DInv == (\A r \in Requests : Dated(r)) /\ (\A k \in Keys : Kept(k))

\* A step of one request and its task.
LEMMA DatedStep ==
  ASSUME DInv, NEW r \in Requests, Dated(r)',
         \A q \in Requests \ {r} : req'[q] = req[q] /\ task'[q] = task[q],
         \A k \in Keys : cache'[k] = cache[k] \/ cache'[k] = None \/ Kept(k)'
  PROVE  DInv'
BY DEF DInv, Dated, Kept

LEMMA RequestDated ==
  ASSUME IInv, DInv, NEW r \in Requests,
         \/ \E k \in Keys : Arrive(r, k)
         \/ AcquireUser(r) \/ Spawn(r) \/ Refuse(r) \/ Disconnect(r)
  PROVE  DInv'
<1>. USE QueriesAssumption
<1>1. Dated(r) /\ req \in [Requests -> Req] /\ task \in [Requests -> Task] /\ cache' = cache
  BY DEF DInv, IInv, TypeOK, Arrive, AcquireUser, Spawn, Refuse, Disconnect
<1>2. \A q \in Requests \ {r} : req'[q] = req[q] /\ task'[q] = task[q]
  BY <1>1 DEF Arrive, AcquireUser, Spawn, Refuse, Answer, Disconnect
<1>3. Phase(r)
  BY DEF IInv, Links
<1>4. ASSUME NEW k \in Keys, Arrive(r, k) PROVE Dated(r)'
  <2>1. req'[r].reply = None /\ task' = task
    BY <1>1, <1>4 DEF Arrive, NoReq
  <2>. QED BY <1>1, <2>1 DEF Dated
<1>5. ASSUME AcquireUser(r) PROVE Dated(r)'
  <2>1. req[r].reply = None /\ req[r] \in Req
    BY <1>1, <1>5 DEF AcquireUser, Dated
  <2>2. req'[r].reply = None /\ task' = task
    BY <1>1, <1>5, <2>1 DEF AcquireUser, Req
  <2>. QED BY <1>1, <2>2 DEF Dated
<1>6. ASSUME Spawn(r) PROVE Dated(r)'
  <2>1. task[r].missed = None /\ req[r].reply = None
    BY <1>1, <1>3, <1>6 DEF Spawn, Dated, Phase
  <2>2. task'[r].missed = None /\ req'[r].reply = None
    BY <1>1, <1>6, <2>1 DEF Spawn, Req, Task
  <2>. QED BY <2>2 DEF Dated
<1>7. ASSUME Refuse(r) PROVE Dated(r)'
  <2>1. req'[r].at = "answered" /\ task' = task
    BY <1>1, <1>7 DEF Refuse, Answer, NoReq
  <2>. QED BY <1>1, <2>1 DEF Dated
<1>8. ASSUME Disconnect(r) PROVE Dated(r)'
  <2>1. /\ req'[r].at = "idle" /\ task'[r].at = task[r].at
        /\ task'[r].missed = task[r].missed /\ task'[r].elapsed = task[r].elapsed
    BY <1>1, <1>8 DEF Disconnect, Req, Task
  <2>. QED BY <1>1, <2>1 DEF Dated
<1>9. Dated(r)'
  BY <1>4, <1>5, <1>6, <1>7, <1>8
<1>. QED BY <1>1, <1>2, <1>9, DatedStep

\* A task that returns leaves nothing behind.
LEMMA ReturnDated ==
  ASSUME IInv, NEW r \in Requests, NEW reply \in Reply, Return(r, reply)
  PROVE  /\ Dated(r)'
         /\ \A q \in Requests \ {r} : req'[q] = req[q] /\ task'[q] = task[q]
         /\ req'[r].reply = IF task[r].gone THEN None ELSE reply
<1>1. req \in [Requests -> Req] /\ task \in [Requests -> Task]
  BY DEF IInv, TypeOK
<1>2. task'[r].missed = None /\ \A q \in Requests \ {r} : task'[q] = task[q]
  BY <1>1 DEF Return, NoTask
<1>3. /\ \A q \in Requests \ {r} : req'[q] = req[q]
      /\ req'[r].at \in {"idle", "answered"}
      /\ req'[r].reply = IF task[r].gone THEN None ELSE reply
  <2>. DEFINE answered == [NoReq EXCEPT !.at = "answered", !.reply = reply]
  <2>1. /\ NoReq.at = "idle" /\ NoReq.reply = None
        /\ answered.at = "answered" /\ answered.reply = reply
    BY DEF NoReq
  <2>2. req' = [req EXCEPT ![r] = IF task[r].gone THEN NoReq ELSE answered]
    BY DEF Return, Answer
  <2>. HIDE DEF answered
  <2>. QED BY <1>1, <2>1, <2>2
<1>. QED BY <1>2, <1>3 DEF Dated

\* A task that goes on before it executes.
LEMMA GoesOnDated ==
  ASSUME IInv, DInv, NEW r \in Requests, task[r].at # "exec", req' = req,
         NEW at, task'[r].at = at, task'[r].missed = task[r].missed,
         \A q \in Requests \ {r} : task'[q] = task[q]
  PROVE  Dated(r)' /\ \A q \in Requests \ {r} : req'[q] = req[q] /\ task'[q] = task[q]
BY DEF DInv, Dated

LEMMA BeginDated ==
  ASSUME IInv, DInv, NEW r \in Requests, Begin(r) \/ TakeAux(r) \/ AuxEnds(r) \/ TakeReader(r)
  PROVE  DInv'
<1>1. /\ task[r] \in Task /\ task \in [Requests -> Task] /\ cache' = cache
      /\ task[r].at # "exec"
  BY DEF IInv, TypeOK, Begin, TakeAux, AuxEnds, TakeReader
<1>2. CASE \E reply \in Reply : Return(r, reply)
  BY <1>1, <1>2, ReturnDated, DatedStep
<1>3. CASE ~\E reply \in Reply : Return(r, reply)
  <2>1. /\ req' = req /\ task'[r].missed = task[r].missed
        /\ \A q \in Requests \ {r} : task'[q] = task[q]
    BY <1>1, <1>3 DEF Begin, TakeAux, AuxEnds, TakeReader, Goto, Queue, Reply, Task
  <2>. QED BY <1>1, <2>1, GoesOnDated, DatedStep
<1>. QED BY <1>2, <1>3

\* The answer of the cache, or the way to a reader.
LEMMA LookupDated ==
  ASSUME IInv, DInv, NEW r \in Requests, Lookup(r)
  PROVE  /\ DInv'
         /\ req'[r].reply = "rows" /\ req[r].at = "run" =>
              cache[req[r].key].missed \in {None} \cup 0..(TTL + Timeout)
<1>. USE QueriesAssumption
<1>. DEFINE k == req[r].key
<1>1. /\ task[r] \in Task /\ task \in [Requests -> Task] /\ task[r].at = "lookup"
      /\ k \in Keys /\ cache \in [Keys -> Entry \cup {None}]
      /\ \A j \in Keys : cache'[j] = cache[j] \/ cache'[j] = None
  BY DEF IInv, TypeOK, Lookup, Links, Phase
<1>2. CASE Fresh(k)
  <2>1. Return(r, "rows")
    BY <1>2 DEF Lookup
  <2>2. DInv'
    BY <1>1, <2>1, ReturnDated, DatedStep DEF Reply
  <2>3. cache[k] \in Entry /\ cache[k] # None /\ cache[k].age <= TTL /\ Kept(k)
    BY <1>1, <1>2 DEF Fresh, DInv
  <2>4. cache[k].missed \in {None} \cup 0..(TTL + Timeout)
    BY <2>3, Numbers DEF Entry, Missed, Kept
  <2>. QED BY <2>2, <2>4
<1>3. CASE ~Fresh(k) /\ task[r].gone
  <2>1. Return(r, "cancelled") /\ "cancelled" \in Reply
    BY <1>3 DEF Lookup, Reply
  <2>2. DInv'
    BY <1>1, <2>1, ReturnDated, DatedStep
  <2>3. req'[r].reply = None /\ None # "rows"
    BY <1>3, <2>1, ReturnDated DEF Reply
  <2>. QED BY <2>2, <2>3
<1>4. CASE ~Fresh(k) /\ ~task[r].gone
  <2>1. /\ req' = req /\ task'[r].missed = task[r].missed
        /\ \A q \in Requests \ {r} : task'[q] = task[q]
    BY <1>1, <1>4 DEF Lookup, Queue, Task
  <2>2. DInv'
    BY <1>1, <2>1, GoesOnDated, DatedStep
  <2>3. req[r].at = "run" => req[r].reply = None
    BY DEF DInv, Dated
  <2>. QED BY <2>1, <2>2, <2>3 DEF Reply
<1>. QED BY <1>2, <1>3, <1>4

LEMMA ExecuteDated ==
  ASSUME IInv, DInv, NEW r \in Requests, Execute(r) PROVE DInv'
<1>1. /\ task[r] \in Task /\ task[r].at = "exec" /\ req[r].key \in Keys
      /\ cache \in [Keys -> Entry \cup {None}]
  BY DEF IInv, TypeOK, Execute, Links, Phase
<1>2. PICK reply \in Reply : Return(r, reply)
  BY DEF Execute, Reply
<1>3. ASSUME NEW j \in Keys PROVE cache'[j] = cache[j] \/ cache'[j] = None \/ Kept(j)'
  <2>1. CASE UNCHANGED cache
    BY <2>1
  <2>2. CASE Put(req[r].key, task[r].missed)
    <3>. DEFINE entry == [age |-> 0, missed |-> task[r].missed]
    <3>1. cache'[j] = cache[j] \/ cache'[j] = None \/ cache'[j] = entry
      BY <1>1, <2>2 DEF Put
    <3>2. task[r].missed # None => task[r].missed <= Timeout
      BY <1>1, Numbers, QueriesAssumption DEF DInv, Dated, Task, Missed
    <3>3. entry.age = 0 /\ entry.missed = task[r].missed
      OBVIOUS
    <3>4. CASE cache'[j] = entry
      BY <3>2, <3>3, <3>4, Numbers DEF Kept
    <3>. QED BY <3>1, <3>4
  <2>. QED BY <2>1, <2>2 DEF Execute
<1>. QED BY <1>2, <1>3, ReturnDated, DatedStep

LEMMA CommitDated == ASSUME IInv, DInv, Commit PROVE DInv'
<1>. USE QueriesAssumption, Numbers
<1>1. ASSUME NEW r \in Requests PROVE Dated(r)'
  <2>1. task[r] \in Task /\ Dated(r) /\ req' = req
    BY DEF IInv, TypeOK, DInv, Commit
  <2>2. task'[r] = IF task[r].at = "exec" /\ task[r].missed = None
                   THEN [task[r] EXCEPT !.missed = 0] ELSE task[r]
    BY DEF Commit
  <2>3. CASE task[r].at = "exec" /\ task[r].missed = None
    <3>1. task'[r].at = "exec" /\ task'[r].missed = 0 /\ task'[r].elapsed \in Nat
      BY <2>1, <2>2, <2>3 DEF Task
    <3>. QED BY <2>1, <3>1 DEF Dated
  <2>4. CASE ~(task[r].at = "exec" /\ task[r].missed = None)
    BY <2>1, <2>2, <2>4 DEF Dated
  <2>. QED BY <2>3, <2>4
<1>2. ASSUME NEW k \in Keys PROVE Kept(k)'
  <2>1. Kept(k) /\ cache[k] \in Entry \cup {None}
    BY DEF IInv, TypeOK, DInv
  <2>2. cache'[k] = IF cache[k] # None /\ cache[k].missed = None
                    THEN [cache[k] EXCEPT !.missed = 0] ELSE cache[k]
    BY DEF Commit
  <2>3. CASE cache[k] # None /\ cache[k].missed = None
    <3>1. cache'[k].missed = 0 /\ cache'[k].age \in Nat
      BY <2>1, <2>2, <2>3 DEF Entry
    <3>. QED BY <3>1 DEF Kept
  <2>4. CASE ~(cache[k] # None /\ cache[k].missed = None)
    BY <2>1, <2>2, <2>4 DEF Kept
  <2>. QED BY <2>3, <2>4
<1>. QED BY <1>1, <1>2 DEF DInv

LEMMA TickDated == ASSUME IInv, DInv, Tick PROVE DInv'
<1>. USE QueriesAssumption, Numbers
<1>1. ASSUME NEW r \in Requests PROVE Dated(r)'
  <2>1. task[r] \in Task /\ req[r] \in Req /\ Dated(r)
    BY DEF IInv, TypeOK, DInv
  <2>2. req'[r].at = req[r].at /\ req'[r].reply = req[r].reply
    BY <2>1 DEF Tick, Req
  <2>3. /\ task'[r].at = task[r].at /\ task'[r].missed = Later(task[r].missed)
        /\ task[r].at = "exec" => /\ task[r].elapsed < Timeout
                                  /\ task'[r].elapsed = Up(task[r].elapsed, Timeout)
    BY <2>1 DEF Tick, Task
  <2>4. ASSUME task[r].missed # None
        PROVE  task[r].at = "exec" /\ Later(task[r].missed) <= task'[r].elapsed
    <3>1. /\ task[r].at = "exec" /\ task[r].missed <= task[r].elapsed
          /\ task[r].missed \in Nat /\ task[r].elapsed \in Nat
      BY <2>1, <2>4 DEF Dated, Task, Missed
    <3>. QED BY <2>3, <2>4, <3>1 DEF Later, Up
  <2>5. task[r].missed = None => Later(task[r].missed) = None
    BY DEF Later
  <2>. QED BY <2>1, <2>2, <2>3, <2>4, <2>5 DEF Dated
<1>2. ASSUME NEW k \in Keys PROVE Kept(k)'
  <2>. SUFFICES ASSUME cache'[k] # None, cache'[k].missed # None
                PROVE  cache'[k].missed <= cache'[k].age + Timeout
    BY DEF Kept
  <2>1. /\ Kept(k) /\ cache[k] # None /\ cache[k] \in Entry
        /\ cache'[k] = [age |-> Up(cache[k].age, TTL + 1), missed |-> Later(cache[k].missed)]
    BY DEF IInv, TypeOK, DInv, Tick
  <2>2. /\ cache'[k].age = Up(cache[k].age, TTL + 1) /\ cache'[k].missed = Later(cache[k].missed)
        /\ cache[k].age \in 0..(TTL + 1)
    BY <2>1 DEF Entry
  <2>3. cache[k].missed # None /\ cache[k].missed \in 0..(TTL + Timeout + 1)
    BY <2>1, <2>2 DEF Entry, Missed, Later
  <2>4. cache[k].missed <= cache[k].age + Timeout
    BY <2>1, <2>3 DEF Kept
  <2>. QED BY <2>2, <2>3, <2>4 DEF Later, Up
<1>. QED BY <1>1, <1>2 DEF DInv

LEMMA DatedNext == ASSUME IInv, DInv, [Next]_vars PROVE DInv'
<1>1. ASSUME NEW r \in Requests,
             \/ \E k \in Keys : Arrive(r, k)
             \/ AcquireUser(r) \/ Spawn(r) \/ Refuse(r) \/ Disconnect(r)
      PROVE  DInv'
  BY <1>1, RequestDated
<1>2. ASSUME NEW r \in Requests, TaskStep(r) PROVE DInv'
  BY <1>2, BeginDated, LookupDated, ExecuteDated DEF TaskStep
<1>3. CASE UNCHANGED vars
  BY <1>3 DEF vars, DInv, Dated, Kept
<1>. QED BY <1>1, <1>2, <1>3, CommitDated, TickDated DEF Next

\* Only its own lookup answers a request whose task looks up.
LEMMA OthersDoNotAnswer ==
  ASSUME IInv, DInv, [Next]_vars, NEW r \in Requests,
         task[r].at = "lookup", req[r].at = "run", ~Lookup(r)
  PROVE  req'[r].reply = None
<1>. USE QueriesAssumption
<1>1. req[r].reply = None /\ req \in [Requests -> Req]
  BY DEF DInv, Dated, IInv, TypeOK
<1>2. ASSUME NEW q \in Requests,
             \/ \E k \in Keys : Arrive(q, k)
             \/ AcquireUser(q) \/ Spawn(q) \/ Refuse(q) \/ Disconnect(q)
      PROVE  req'[r].reply = None
  <2>1. CASE q = r
    <3>1. Disconnect(r)
      BY <1>2, <2>1 DEF Arrive, AcquireUser, Spawn, Refuse
    <3>. QED BY <1>1, <3>1 DEF Disconnect, Req
  <2>2. CASE q # r
    BY <1>1, <1>2, <2>2 DEF Arrive, AcquireUser, Spawn, Refuse, Answer, Disconnect
  <2>. QED BY <2>1, <2>2
<1>3. ASSUME NEW q \in Requests, TaskStep(q) PROVE req'[r].reply = None
  <2>1. q # r
    BY <1>3 DEF TaskStep, Begin, TakeAux, AuxEnds, TakeReader, Execute
  <2>2. CASE \E reply \in Reply : Return(q, reply)
    BY <1>1, <2>1, <2>2, ReturnDated
  <2>3. CASE ~\E reply \in Reply : Return(q, reply)
    <3>1. req' = req
      BY <1>3, <2>3 DEF TaskStep, Begin, TakeAux, AuxEnds, TakeReader, Lookup, Execute, Goto,
                        Queue, Reply
    <3>. QED BY <1>1, <3>1
  <2>. QED BY <2>2, <2>3
<1>4. CASE Commit \/ UNCHANGED vars
  BY <1>1, <1>4 DEF Commit, vars
<1>5. CASE Tick
  BY <1>1, <1>5 DEF Tick, Req
<1>. QED BY <1>2, <1>3, <1>4, <1>5 DEF Next

\* What the cache answers with is never older than the time to live and the
\* timeout of a query together.
THEOREM CacheIsFresh == Spec => AnsweredFresh
<1>1. Init => DInv
  <2>1. ASSUME Init PROVE DInv
    BY <2>1, QueriesAssumption DEF Init, DInv, Dated, Kept, NoReq, NoTask
  <2>. QED BY <2>1
<1>2. IInv /\ DInv /\ [Next]_vars => DInv'
  BY DatedNext
<1>3. ASSUME IInv, DInv, [Next]_vars, NEW r \in Requests,
             task[r].at = "lookup", req[r].at = "run", req'[r].reply = "rows"
      PROVE  cache[req[r].key].missed \in {None} \cup 0..(TTL + Timeout)
  <2>1. "rows" # None
    BY QueriesAssumption DEF Reply
  <2>2. Lookup(r)
    BY <1>3, <2>1, OthersDoNotAnswer
  <2>. QED BY <1>3, <2>2, LookupDated
<1>4. IInv /\ DInv /\ [Next]_vars =>
        [\A r \in Requests :
           task[r].at = "lookup" /\ req[r].at = "run" /\ req'[r].reply = "rows"
             => cache[req[r].key].missed \in {None} \cup 0..(TTL + Timeout)]_vars
  BY <1>3
<1>. QED BY <1>1, <1>2, <1>4, Invariance, PTL DEF Spec, AnsweredFresh
=============================================================================
