---------------------------- MODULE TokensProofs ----------------------------
(***************************************************************************)
(* Proofs about Tokens: however many processes and tasks make the key of   *)
(* the tokens at once, or stop while they do, what is stored can be read.  *)
(***************************************************************************)
EXTENDS Tokens, TLAPS

\* The key in memory is that in the file; while one task writes the file, it is
\* empty and no other task does; a row that was read is under the key in the file.
KeyInv ==
  /\ \A p \in Processes : cache[p] # None => file = cache[p]
  /\ \A t \in Tasks : tasks[t].making = "write" => file = "empty"
  /\ \A s, t \in Tasks : tasks[s].making = "write" /\ tasks[t].making = "write" => s = t
  /\ \A t \in Tasks : tasks[t].key # None => file = tasks[t].key

Safe == TypeOK /\ KeyInv /\ Decryptable

\* A task that is about to write the row has a token to write.
HasToken == \A t \in Tasks : tasks[t].at # "idle" => tasks[t].token # None

IInv == Safe /\ HasToken

LEMMA InitInv == ASSUME Init PROVE Safe
<1>. USE TokensAssumption
<1>1. Idle \in Task /\ Idle.making = "no" /\ Idle.key = None
  BY DEF Idle, Task, Step
<1>2. row \in Row \cup {None} /\ issued \in 0..MaxTokens /\ (row # None => row.key = None)
  BY DEF Init, Row, Token
<1>3. <<>> \in Seq(CarSet)
  OBVIOUS
<1>. QED BY <1>1, <1>2, <1>3 DEF Init, Safe, TypeOK, KeyInv, Decryptable

-----------------------------------------------------------------------------
\* A step of one task that touches neither the files nor a key.
LEMMA TaskOnly ==
  ASSUME Safe, NEW t \in Tasks, NEW q \in Task, tasks' = [tasks EXCEPT ![t] = q],
         q.key \in {None, tasks[t].key}, q.making # "write",
         UNCHANGED <<file, cache>>
  PROVE  KeyInv' /\ tasks' \in [Tasks -> Task]
BY DEF Safe, TypeOK, KeyInv, Task

LEMMA IdleTask == Idle \in Task /\ Idle.key = None /\ Idle.making = "no"
BY DEF Idle, Task, Step

LEMMA KeyFailsInv == ASSUME Safe, NEW t \in Tasks, KeyFails(t) PROVE Safe'
<1>. DEFINE q == IF t = Logger /\ At(t, "store")
                 THEN [tasks[t] EXCEPT !.at = "use", !.making = "no"] ELSE Idle
<1>1. q \in Task /\ q.key \in {None, tasks[t].key} /\ q.making = "no"
  BY IdleTask DEF Safe, TypeOK, Task, Step
<1>2. KeyInv' /\ tasks' \in [Tasks -> Task]
  BY <1>1, TaskOnly DEF KeyFails, Goto
<1>. QED BY <1>2 DEF KeyFails, Safe, TypeOK, Decryptable

LEMMA ReadKeyInv == ASSUME Safe, NEW t \in Tasks, ReadKey(t) PROVE Safe'
<1>. USE TokensAssumption
<1>1. CASE KeyFails(t)
  BY <1>1, KeyFailsInv
<1>2. CASE /\ file # "empty"
           /\ cache' = [cache EXCEPT ![ProcessOf[t]] = file]
           /\ UNCHANGED <<file, row, issued, tasks, turn, due>>
  <2>1. ProcessOf[t] \in Processes /\ file \in Processes
    BY <1>2 DEF ReadKey, Safe, TypeOK
  <2>. QED BY <1>2, <2>1 DEF Safe, TypeOK, KeyInv, Decryptable
<1>. QED BY <1>1, <1>2 DEF ReadKey

LEMMA MissKeyInv == ASSUME Safe, NEW t \in Tasks, MissKey(t) PROVE Safe'
<1>. DEFINE q == [tasks[t] EXCEPT !.making = "create"]
<1>1. q \in Task /\ q.key = tasks[t].key /\ q.making # "write"
  BY DEF Safe, TypeOK, Task
<1>2. KeyInv' /\ tasks' \in [Tasks -> Task]
  BY <1>1, TaskOnly DEF MissKey, Goto
<1>. QED BY <1>2 DEF MissKey, Safe, TypeOK, Decryptable

LEMMA CreateKeyInv == ASSUME Safe, NEW t \in Tasks, CreateKey(t) PROVE Safe'
<1>. USE TokensAssumption
<1>1. CASE file = None
  <2>. DEFINE q == [tasks[t] EXCEPT !.making = "write"]
  <2>1. /\ file' = "empty" /\ tasks' = [tasks EXCEPT ![t] = q]
        /\ UNCHANGED <<cache, row, issued, turn, due>>
    BY <1>1 DEF CreateKey, Goto
  <2>2. q \in Task /\ q.key = tasks[t].key /\ q.making = "write"
    BY DEF Safe, TypeOK, Task
  <2>3. \A p \in Processes : cache[p] = None
    BY <1>1 DEF Safe, KeyInv
  <2>4. \A s \in Tasks : tasks[s].key = None /\ tasks[s].making # "write"
    BY <1>1 DEF Safe, KeyInv
  <2>5. row # None => row.key = None
    BY <1>1 DEF Safe, Decryptable
  <2>6. TypeOK'
    BY <2>1, <2>2 DEF Safe, TypeOK
  <2>7. KeyInv'
    BY <2>1, <2>2, <2>3, <2>4 DEF Safe, TypeOK, KeyInv
  <2>. QED BY <2>1, <2>5, <2>6, <2>7 DEF Safe, Decryptable
<1>2. CASE file # None
  BY <1>2, KeyFailsInv DEF CreateKey
<1>. QED BY <1>1, <1>2

LEMMA WriteKeyInv == ASSUME Safe, NEW t \in Tasks, WriteKey(t) PROVE Safe'
<1>. USE TokensAssumption
<1>. DEFINE q == [tasks[t] EXCEPT !.making = "no"]
            p == ProcessOf[t]
<1>1. /\ file' = p /\ cache' = [cache EXCEPT ![p] = p] /\ tasks' = [tasks EXCEPT ![t] = q]
      /\ UNCHANGED <<row, issued, turn, due>>
  BY DEF WriteKey, Goto
<1>2. p \in Processes /\ file = "empty" /\ tasks[t].making = "write"
  BY DEF WriteKey, Safe, KeyInv
<1>3. q \in Task /\ q.key = tasks[t].key /\ q.making = "no"
  BY DEF Safe, TypeOK, Task
<1>4. \A o \in Processes : cache[o] = None
  BY <1>2 DEF Safe, KeyInv, TypeOK
<1>5. \A s \in Tasks : tasks[s].key = None
  BY <1>2 DEF Safe, KeyInv, TypeOK, Task
<1>6. \A s \in Tasks : tasks[s].making = "write" => s = t
  BY <1>2 DEF Safe, KeyInv
<1>7. row # None => row.key = None
  BY <1>2 DEF Safe, Decryptable, TypeOK, Row
<1>8. TypeOK'
  BY <1>1, <1>2, <1>3 DEF Safe, TypeOK
<1>9. KeyInv'
  BY <1>1, <1>2, <1>3, <1>4, <1>5, <1>6 DEF Safe, TypeOK, KeyInv
<1>. QED BY <1>1, <1>7, <1>8, <1>9 DEF Safe, Decryptable

LEMMA LoadInv == ASSUME Safe, NEW t \in Tasks, Load(t) PROVE Safe'
<1>. USE TokensAssumption
<1>. DEFINE q == [Idle EXCEPT !.at = "decrypt", !.token = row.token, !.key = row.key]
<1>1. tasks' = [tasks EXCEPT ![t] = q] /\ UNCHANGED <<file, cache, row, issued, turn, due>>
  BY DEF Load, Goto
<1>2. row \in Row /\ row.key \in {None, file}
  BY DEF Load, Safe, TypeOK, Decryptable
<1>3. q \in Task /\ q.making = "no" /\ q.key = row.key
  BY <1>2 DEF Idle, Task, Step, Row
<1>. QED BY <1>1, <1>2, <1>3 DEF Safe, TypeOK, KeyInv, Decryptable

LEMMA AtStep == ASSUME Safe, NEW t \in Tasks, NEW step \in Step
                PROVE  LET q == [tasks[t] EXCEPT !.at = step] IN
                       q \in Task /\ q.key = tasks[t].key /\ q.making = tasks[t].making
BY DEF Safe, TypeOK, Task

\* A step of one task that leaves the files, the keys and the lock alone.
LEMMA Moves ==
  ASSUME Safe, NEW t \in Tasks, NEW step \in Step, Continue(t, step), UNCHANGED <<file, cache>>
  PROVE  KeyInv' /\ tasks' \in [Tasks -> Task]
<1>. DEFINE q == [tasks[t] EXCEPT !.at = step]
<1>1. q \in Task /\ q.key = tasks[t].key /\ q.making = tasks[t].making
  BY AtStep
<1>. QED BY <1>1 DEF Continue, Goto, Safe, TypeOK, KeyInv

LEMMA LoadedMoves == ASSUME Safe, NEW t \in Tasks, Loaded(t), UNCHANGED <<file, cache>>
                     PROVE  KeyInv' /\ tasks' \in [Tasks -> Task] /\ turn' \in Seq(CarSet)
<1>1. KeyInv' /\ tasks' \in [Tasks -> Task]
  BY Moves DEF Loaded, Step
<1>. QED BY <1>1, TokensAssumption DEF Loaded, Safe, TypeOK

LEMMA DecryptInv == ASSUME Safe, NEW t \in Tasks, Decrypt(t) PROVE Safe'
<1>1. UNCHANGED <<file, cache, row, issued, due>>
  BY DEF Decrypt
<1>2. KeyInv' /\ tasks' \in [Tasks -> Task] /\ turn' \in Seq(CarSet)
  <2>1. CASE Continue(t, "migrate") /\ UNCHANGED turn
    BY <1>1, <2>1, Moves DEF Step, Safe, TypeOK
  <2>2. CASE Loaded(t)
    BY <1>1, <2>2, LoadedMoves
  <2>3. CASE Goto(t, Idle) /\ UNCHANGED turn
    BY <1>1, <2>3, IdleTask, TaskOnly DEF Goto, Safe, TypeOK
  <2>. QED BY <2>1, <2>2, <2>3 DEF Decrypt
<1>. QED BY <1>1, <1>2 DEF Safe, TypeOK, Decryptable

\* The row is written under the key in memory, which is that in the file.
LEMMA WriteRowSafe ==
  ASSUME Safe, NEW t \in Tasks, tasks[t].at \in {"migrate", "store"}, tasks[t].token # None,
         WriteRow(t), UNCHANGED file
  PROVE  row' \in Row /\ Decryptable'
<1>1. Key(t) \in Processes /\ file = Key(t)
  BY TokensAssumption DEF WriteRow, Key, Safe, KeyInv, TypeOK
<1>2. tasks[t].token \in Token
  BY DEF Safe, TypeOK, Task
<1>. QED BY <1>1, <1>2 DEF WriteRow, Row, Decryptable

LEMMA MigrateInv == ASSUME IInv, NEW t \in Tasks, Migrate(t) PROVE Safe'
<1>1. /\ At(t, "migrate") /\ WriteRow(t) /\ Loaded(t) /\ UNCHANGED <<file, cache, issued, due>>
  BY DEF Migrate
<1>2. tasks[t].at = "migrate" /\ tasks[t].token # None
  BY <1>1 DEF At, IInv, HasToken
<1>3. row' \in Row /\ Decryptable'
  BY <1>1, <1>2, WriteRowSafe DEF IInv
<1>4. KeyInv' /\ tasks' \in [Tasks -> Task] /\ turn' \in Seq(CarSet)
  BY <1>1, LoadedMoves DEF IInv
<1>. QED BY <1>1, <1>3, <1>4 DEF IInv, Safe, TypeOK

LEMMA StoreInv == ASSUME IInv, NEW t \in Tasks, Store(t) PROVE Safe'
<1>1. /\ At(t, "store") /\ WriteRow(t) /\ UNCHANGED <<file, cache, issued, turn, due>>
      /\ Goto(t, Idle) \/ Continue(t, "use")
  BY DEF Store
<1>2. tasks[t].at = "store" /\ tasks[t].token # None
  BY <1>1 DEF At, IInv, HasToken
<1>3. row' \in Row /\ Decryptable'
  BY <1>1, <1>2, WriteRowSafe DEF IInv
<1>4. KeyInv' /\ tasks' \in [Tasks -> Task]
  <2>1. CASE Goto(t, Idle)
    BY <1>1, <2>1, IdleTask, TaskOnly DEF Goto, IInv
  <2>2. CASE Continue(t, "use")
    BY <1>1, <2>2, Moves DEF Step, IInv
  <2>. QED BY <1>1, <2>1, <2>2
<1>. QED BY <1>1, <1>3, <1>4 DEF IInv, Safe, TypeOK

-----------------------------------------------------------------------------
\* A new token is a token.
LEMMA Issued == ASSUME Safe, Issue PROVE issued' \in Token
BY TokensAssumption DEF Issue, Safe, TypeOK, Token

LEMMA RefreshInv == ASSUME Safe, NEW t \in Tasks, Refresh(t) PROVE Safe'
<1>. DEFINE q == [tasks[t] EXCEPT !.token = issued',
                                  !.at = IF At(t, "fresh") THEN "store" ELSE "use"]
<1>1. issued' \in Token /\ issued' \in 0..MaxTokens /\ UNCHANGED <<file, cache, row, turn, due>>
  BY Issued DEF Refresh, Token
<1>2. q \in Task /\ q.key = tasks[t].key /\ q.making = tasks[t].making
  BY <1>1 DEF Safe, TypeOK, Task, Step
<1>3. KeyInv' /\ tasks' \in [Tasks -> Task]
  <2>1. CASE Goto(t, q)
    BY <1>1, <1>2, <2>1 DEF Goto, Safe, TypeOK, KeyInv
  <2>2. CASE Goto(t, Idle)
    BY <1>1, <2>2, IdleTask, TaskOnly DEF Goto
  <2>3. CASE UNCHANGED tasks
    BY <1>1, <2>3 DEF Safe, TypeOK, KeyInv
  <2>. QED BY <2>1, <2>2, <2>3 DEF Refresh
<1>. QED BY <1>1, <1>3 DEF Safe, TypeOK, Decryptable

LEMMA LoginInv == ASSUME Safe, NEW t \in Tasks, Login(t) PROVE Safe'
<1>. DEFINE q == [Idle EXCEPT !.at = "store", !.token = issued']
<1>1. issued' \in Token /\ issued' \in 0..MaxTokens /\ UNCHANGED <<file, cache, row, turn, due>>
  BY Issued DEF Login, Token
<1>2. q \in Task /\ q.key = None /\ q.making = "no"
  BY <1>1 DEF Idle, Task, Step
<1>3. KeyInv' /\ tasks' \in [Tasks -> Task]
  BY <1>1, <1>2, TaskOnly DEF Login, Goto
<1>. QED BY <1>1, <1>3 DEF Safe, TypeOK, Decryptable

LEMMA StillFreshInv == ASSUME Safe, NEW t \in Tasks, StillFresh(t) PROVE Safe'
<1>1. KeyInv' /\ tasks' \in [Tasks -> Task]
  BY Moves DEF StillFresh, Step
<1>. QED BY <1>1 DEF StillFresh, Safe, TypeOK, Decryptable

LEMMA EndsInv == ASSUME Safe, NEW t \in Tasks, Ends(t) PROVE Safe'
<1>1. KeyInv' /\ tasks' \in [Tasks -> Task]
  BY IdleTask, TaskOnly DEF Ends, Goto
<1>. QED BY <1>1 DEF Ends, Safe, TypeOK, Decryptable

\* The steps of the round and of time touch neither the files nor a key.
LEMMA RoundInv == ASSUME Safe, Round \/ NoTokens \/ (\E c \in DOMAIN due : Wakes(c)) PROVE Safe'
<1>. USE TokensAssumption
<1>1. CASE NotDue
  <2>1. turn' \in Seq(CarSet)
    BY <1>1 DEF NotDue, Safe, TypeOK
  <2>. QED BY <1>1, <2>1 DEF NotDue, Safe, TypeOK, KeyInv, Decryptable
<1>2. CASE PollEnds
  <2>1. turn' \in Seq(CarSet) /\ due' \in [CarSet -> BOOLEAN]
    BY <1>2 DEF PollEnds, Safe, TypeOK
  <2>2. KeyInv' /\ tasks' \in [Tasks -> Task]
    BY <1>2, Moves DEF PollEnds, Step
  <2>. QED BY <1>2, <2>1, <2>2 DEF PollEnds, Safe, TypeOK, Decryptable
<1>3. CASE RoundEnds
  <2>1. KeyInv' /\ tasks' \in [Tasks -> Task]
    BY <1>3, IdleTask, TaskOnly DEF RoundEnds, Goto
  <2>. QED BY <1>3, <2>1 DEF RoundEnds, Safe, TypeOK, Decryptable
<1>4. CASE NoTokens
  BY <1>4 DEF NoTokens, Safe, TypeOK, KeyInv, Decryptable
<1>5. CASE \E c \in DOMAIN due : Wakes(c)
  BY <1>5 DEF Wakes, Safe, TypeOK, KeyInv, Decryptable
<1>. QED BY <1>1, <1>2, <1>3, <1>4, <1>5 DEF Round

LEMMA CrashInv == ASSUME Safe, NEW p \in Processes, Crash(p) PROVE Safe'
<1>1. tasks' \in [Tasks -> Task] /\ \A t \in Tasks : tasks'[t] \in {Idle, tasks[t]}
  BY IdleTask DEF Crash, Safe, TypeOK
<1>2. \A o \in Processes : cache'[o] \in {None, cache[o]}
  BY DEF Crash, Safe, TypeOK
<1>3. KeyInv'
  BY <1>1, <1>2, IdleTask DEF Crash, Safe, KeyInv
<1>4. turn' \in Seq(CarSet) /\ due' \in [CarSet -> BOOLEAN]
      /\ cache' \in [Processes -> Processes \cup {None}]
  BY DEF Crash, Safe, TypeOK
<1>. QED BY <1>1, <1>3, <1>4 DEF Crash, Safe, TypeOK, Decryptable

-----------------------------------------------------------------------------
\* A step of one task to q keeps HasToken when q has a token or is idle.
LEMMA TokenOnly ==
  ASSUME Safe, HasToken, NEW t \in Tasks, NEW q, tasks' = [tasks EXCEPT ![t] = q],
         q.at # "idle" => q.token # None
  PROVE  HasToken'
BY DEF Safe, TypeOK, HasToken

LEMMA MovesToken ==
  ASSUME IInv, NEW t \in Tasks, NEW step, Continue(t, step), ~At(t, "idle") PROVE HasToken'
<1>. DEFINE q == [tasks[t] EXCEPT !.at = step]
<1>1. tasks' = [tasks EXCEPT ![t] = q] /\ q.token = tasks[t].token
  BY DEF Continue, Goto, IInv, Safe, TypeOK, Task
<1>2. tasks[t].token # None
  BY DEF At, IInv, HasToken
<1>. QED BY <1>1, <1>2, TokenOnly DEF IInv

LEMMA IdlesToken == ASSUME IInv, NEW t \in Tasks, Goto(t, Idle) PROVE HasToken'
BY TokenOnly DEF Goto, IInv, Idle

LEMMA StillToken == ASSUME IInv, UNCHANGED tasks PROVE HasToken'
BY DEF IInv, HasToken

LEMMA KeyStepToken ==
  ASSUME IInv, NEW t \in Tasks, ReadKey(t) \/ MissKey(t) \/ CreateKey(t) \/ WriteKey(t)
  PROVE  HasToken'
<1>1. ASSUME NEW m, Goto(t, [tasks[t] EXCEPT !.making = m]) PROVE HasToken'
  <2>. DEFINE q == [tasks[t] EXCEPT !.making = m]
  <2>1. tasks' = [tasks EXCEPT ![t] = q] /\ q.at = tasks[t].at /\ q.token = tasks[t].token
    BY <1>1 DEF Goto, IInv, Safe, TypeOK, Task
  <2>. QED BY <2>1, TokenOnly DEF IInv, HasToken
<1>. DEFINE stays == [tasks[t] EXCEPT !.at = "use", !.making = "no"]
<1>6. ASSUME KeyFails(t) PROVE HasToken'
  <2>1. CASE t = Logger /\ At(t, "store")
    <3>1. tasks' = [tasks EXCEPT ![t] = stays] /\ tasks[t].at = "store"
      BY <1>6, <2>1 DEF KeyFails, Goto, At
    <3>2. stays.token = tasks[t].token
      BY DEF IInv, Safe, TypeOK, Task
    <3>. QED BY <3>1, <3>2, TokenOnly DEF IInv, HasToken
  <2>2. CASE ~(t = Logger /\ At(t, "store"))
    BY <1>6, <2>2, IdlesToken DEF KeyFails
  <2>. QED BY <2>1, <2>2
<1>2. CASE ReadKey(t)
  BY <1>2, <1>6, StillToken DEF ReadKey
<1>3. CASE MissKey(t)
  BY <1>3, <1>1 DEF MissKey
<1>4. CASE CreateKey(t)
  BY <1>4, <1>1, <1>6 DEF CreateKey
<1>5. CASE WriteKey(t)
  BY <1>5, <1>1 DEF WriteKey
<1>. QED BY <1>2, <1>3, <1>4, <1>5

LEMMA TaskStepToken == ASSUME IInv, NEW t \in Tasks, TaskStep(t) PROVE HasToken'
<1>1. CASE ReadKey(t) \/ MissKey(t) \/ CreateKey(t) \/ WriteKey(t)
  BY <1>1, KeyStepToken
<1>2. CASE Load(t)
  <2>. DEFINE q == [Idle EXCEPT !.at = "decrypt", !.token = row.token, !.key = row.key]
  <2>1. tasks' = [tasks EXCEPT ![t] = q] /\ row \in Row
    BY <1>2 DEF Load, Goto, IInv, Safe, TypeOK
  <2>2. q.token # None
    BY <2>1, TokensAssumption DEF Idle, Row, Token
  <2>. QED BY <2>1, <2>2, TokenOnly DEF IInv
<1>3. CASE Decrypt(t)
  <2>1. ~At(t, "idle")
    BY <1>3 DEF Decrypt, At
  <2>. QED BY <1>3, <2>1, MovesToken, IdlesToken DEF Decrypt, Loaded
<1>4. CASE Migrate(t)
  <2>1. ~At(t, "idle")
    BY <1>4 DEF Migrate, At
  <2>. QED BY <1>4, <2>1, MovesToken DEF Migrate, Loaded
<1>5. CASE Store(t)
  <2>1. ~At(t, "idle")
    BY <1>5 DEF Store, At
  <2>. QED BY <1>5, <2>1, MovesToken DEF Store
<1>. QED BY <1>1, <1>2, <1>3, <1>4, <1>5 DEF TaskStep

LEMMA CallToken ==
  ASSUME IInv, NEW t \in Tasks, Refresh(t) \/ StillFresh(t) \/ Ends(t) \/ Login(t)
  PROVE  HasToken'
<1>1. CASE Refresh(t)
  <2>. DEFINE q == [tasks[t] EXCEPT !.token = issued',
                                    !.at = IF At(t, "fresh") THEN "store" ELSE "use"]
  <2>1. issued' # None
    BY <1>1, Issued, TokensAssumption DEF Refresh, IInv, Token
  <2>2. q.token = issued'
    BY DEF IInv, Safe, TypeOK, Task
  <2>3. CASE Goto(t, q)
    BY <2>1, <2>2, <2>3, TokenOnly DEF Goto, IInv
  <2>. QED BY <1>1, <2>3, IdlesToken, StillToken DEF Refresh
<1>2. CASE StillFresh(t)
  <2>1. ~At(t, "idle")
    BY <1>2 DEF StillFresh, At
  <2>. QED BY <1>2, <2>1, MovesToken DEF StillFresh
<1>3. CASE Ends(t)
  BY <1>3, IdlesToken DEF Ends
<1>4. CASE Login(t)
  <2>. DEFINE q == [Idle EXCEPT !.at = "store", !.token = issued']
  <2>1. issued' # None /\ tasks' = [tasks EXCEPT ![t] = q]
    BY <1>4, Issued, TokensAssumption DEF Login, Goto, IInv, Token
  <2>2. q.token = issued'
    BY DEF Idle
  <2>. QED BY <2>1, <2>2, TokenOnly DEF IInv
<1>. QED BY <1>1, <1>2, <1>3, <1>4

LEMMA NextToken == ASSUME IInv, Next PROVE HasToken'
<1>. USE TokensAssumption
<1>1. ASSUME NEW t \in Tasks, TaskStep(t) PROVE HasToken'
  BY <1>1, TaskStepToken
<1>2. ASSUME NEW t \in Tasks, Refresh(t) \/ StillFresh(t) \/ Ends(t) \/ Login(t) PROVE HasToken'
  BY <1>2, CallToken
<1>3. CASE PollEnds
  <2>1. Logger \in Tasks /\ ~At(Logger, "idle")
    BY <1>3 DEF PollEnds, At
  <2>. QED BY <1>3, <2>1, MovesToken DEF PollEnds
<1>6. CASE RoundEnds
  BY <1>6, IdlesToken DEF RoundEnds
<1>4. CASE NotDue \/ NoTokens \/ (\E c \in DOMAIN due : Wakes(c))
  BY <1>4, StillToken DEF NotDue, NoTokens, Wakes
<1>5. ASSUME NEW p \in Processes, Crash(p) PROVE HasToken'
  BY <1>5 DEF Crash, IInv, HasToken, Idle
<1>. QED BY <1>1, <1>2, <1>3, <1>4, <1>5, <1>6 DEF Next, Round

LEMMA NextSafe == ASSUME IInv, Next PROVE Safe'
<1>1. ASSUME NEW t \in Tasks, TaskStep(t) PROVE Safe'
  BY <1>1, ReadKeyInv, MissKeyInv, CreateKeyInv, WriteKeyInv, LoadInv, DecryptInv, MigrateInv,
     StoreInv DEF TaskStep, IInv
<1>2. ASSUME NEW t \in Tasks, Refresh(t) \/ StillFresh(t) \/ Ends(t) \/ Login(t) PROVE Safe'
  BY <1>2, RefreshInv, StillFreshInv, EndsInv, LoginInv DEF IInv
<1>3. CASE Round \/ NoTokens \/ (\E c \in DOMAIN due : Wakes(c))
  BY <1>3, RoundInv DEF IInv
<1>4. ASSUME NEW p \in Processes, Crash(p) PROVE Safe'
  BY <1>4, CrashInv DEF IInv
<1>. QED BY <1>1, <1>2, <1>3, <1>4 DEF Next

LEMMA Inductive == IInv /\ [Next]_vars => IInv'
<1>1. ASSUME IInv, Next PROVE IInv'
  BY <1>1, NextSafe, NextToken DEF IInv
<1>2. ASSUME IInv, UNCHANGED vars PROVE IInv'
  BY <1>2 DEF IInv, Safe, HasToken, TypeOK, KeyInv, Decryptable, vars
<1>. QED BY <1>1, <1>2

LEMMA Invariance == Spec => []IInv
<1>1. Init => IInv
  BY InitInv DEF Init, Idle, IInv, HasToken
<1>. QED BY <1>1, Inductive, PTL DEF Spec

\* Every variable keeps its type, for any number of processes, tasks and cars.
THEOREM TokensTypeCorrect == Spec => []TypeOK
<1>1. IInv => TypeOK
  BY DEF IInv, Safe
<1>. QED BY <1>1, Invariance, PTL

\* What store_tokens and load_tokens write is under the key that is in
\* oauth.key, whichever processes make the key or stop while they do.
THEOREM StoredCanBeRead == Spec => []Decryptable
<1>1. IInv => Decryptable
  BY DEF IInv, Safe
<1>. QED BY <1>1, Invariance, PTL

\* Two processes that have a key in memory have the same one.
THEOREM OneKey ==
  Spec => [](\A p, q \in Processes : cache[p] # None /\ cache[q] # None => cache[p] = cache[q])
<1>1. IInv => \A p, q \in Processes : cache[p] # None /\ cache[q] # None => cache[p] = cache[q]
  BY DEF IInv, Safe, KeyInv
<1>. QED BY <1>1, Invariance, PTL
=============================================================================
