------------------------------- MODULE Tokens -------------------------------
(***************************************************************************)
(* The tokens of Tesla's Owner API: the row of oauth_tokens, the key it is *)
(* encrypted with (src/token_crypto.rs), and the tasks that load, rotate   *)
(* and store it: the logger with its cars, the invoices task, and the      *)
(* commands login, refresh, import-tokens and sync-invoices.  Tasks of one *)
(* process share the key in memory; processes share the files only.  A     *)
(* token is numbered in the order in which Tesla issued it.  What Tesla    *)
(* accepts, and the keys given by the environment, are left out.           *)
(***************************************************************************)
EXTENDS Naturals, Sequences

CONSTANTS
  None,
  Processes,      \* operating-system processes, and the keys they may make
  Tasks,
  ProcessOf,      \* the process of each task
  Logger,         \* the task that is logger::run
  Commands,       \* the tasks that are commands, which may log in
  Cars,           \* the cars of load_cars, in its order
  Legacy,         \* whether there may be a row of a version that stored plain text
  MaxTokens       \* bound on the tokens issued

VARIABLES
  file,      \* oauth.key: None, "empty" or the key in it
  cache,     \* KEY_CACHE of each process
  row,       \* the row of oauth_tokens, or None
  issued,    \* tokens issued by Tesla so far
  tasks,     \* where each task is and the token it holds
  turn,      \* the cars that the logger has yet to look at in this round
  due        \* cars whose next_poll has passed

vars == <<file, cache, row, issued, tasks, turn, due>>

Token == 1..MaxTokens
\* key is None in a row of an older version, in plain text.
Row   == [token : Token, key : Processes \cup {None}]
Step  == {"idle", "decrypt", "migrate", "fresh", "store", "use"}
\* key is that of the row that was read; making says how far the creation of
\* the key file is for this task, which holds the lock of KEY_CACHE meanwhile.
Task  == [at : Step, token : Token \cup {None}, key : Processes \cup {None},
          making : {"no", "create", "write"}]
Idle  == [at |-> "idle", token |-> None, key |-> None, making |-> "no"]

CarSet == {Cars[i] : i \in DOMAIN Cars}

ASSUME TokensAssumption ==
  /\ None \notin Processes \cup Nat /\ "empty" \notin Processes \cup {None}
  /\ ProcessOf \in [Tasks -> Processes]
  /\ Logger \in Tasks
  /\ Commands \subseteq Tasks \ {Logger}
  /\ Cars \in Seq(CarSet)
  /\ MaxTokens \in Nat \ {0}

TypeOK ==
  /\ file \in Processes \cup {None, "empty"}
  /\ cache \in [Processes -> Processes \cup {None}]
  /\ row \in Row \cup {None}
  /\ issued \in 0..MaxTokens
  /\ tasks \in [Tasks -> Task]
  /\ turn \in Seq(CarSet)
  /\ due \in [CarSet -> BOOLEAN]

Init ==
  /\ file = None
  /\ cache = [p \in Processes |-> None]
  /\ \E legacy \in Legacy : IF legacy THEN row = [token |-> 1, key |-> None] /\ issued = 1
                                      ELSE row = None /\ issued = 0
  /\ tasks = [t \in Tasks |-> Idle]
  /\ turn = <<>>
  /\ due = [c \in CarSet |-> TRUE]

-----------------------------------------------------------------------------
At(t, step) == tasks[t].at = step
Goto(t, task) == tasks' = [tasks EXCEPT ![t] = task]
Continue(t, step) == Goto(t, [tasks[t] EXCEPT !.at = step])

-----------------------------------------------------------------------------
(* encryption_key, for a task that is about to decrypt or to encrypt. *)
Key(t) == cache[ProcessOf[t]]
NeedsKey(t) == \/ At(t, "decrypt") /\ tasks[t].key # None
               \/ At(t, "migrate") \/ At(t, "store")
\* The lock of KEY_CACHE is free for t.
MayResolve(t) == /\ NeedsKey(t) /\ Key(t) = None /\ tasks[t].making = "no"
                 /\ \A s \in Tasks : ProcessOf[s] = ProcessOf[t] => tasks[s].making = "no"

\* The error ends what the task does, but poll_due ignores that of store_tokens.
KeyFails(t) == /\ Goto(t, IF t = Logger /\ At(t, "store")
                          THEN [tasks[t] EXCEPT !.at = "use", !.making = "no"] ELSE Idle)
               /\ UNCHANGED <<file, cache, row, issued, turn, due>>

ReadKey(t) ==
  /\ MayResolve(t)
  /\ file # None
  /\ \/ file = "empty" /\ KeyFails(t)
     \/ /\ file # "empty"
        /\ cache' = [cache EXCEPT ![ProcessOf[t]] = file]
        /\ UNCHANGED <<file, row, issued, tasks, turn, due>>

\* path.exists() is false.
MissKey(t) ==
  /\ MayResolve(t)
  /\ file = None
  /\ Goto(t, [tasks[t] EXCEPT !.making = "create"])
  /\ UNCHANGED <<file, cache, row, issued, turn, due>>

\* Mutant: File::create instead of create_new.
CreateKey_truncates(t) ==
  /\ tasks[t].making = "create"
  /\ file' = "empty"
  /\ Goto(t, [tasks[t] EXCEPT !.making = "write"])
  /\ UNCHANGED <<cache, row, issued, turn, due>>

\* create_new fails when another process was faster.
CreateKey(t) ==
  /\ tasks[t].making = "create"
  /\ IF file = None
     THEN /\ file' = "empty"
          /\ Goto(t, [tasks[t] EXCEPT !.making = "write"])
          /\ UNCHANGED <<cache, row, issued, turn, due>>
     ELSE KeyFails(t)

WriteKey(t) ==
  /\ tasks[t].making = "write"
  /\ file' = ProcessOf[t]
  /\ cache' = [cache EXCEPT ![ProcessOf[t]] = ProcessOf[t]]
  /\ Goto(t, [tasks[t] EXCEPT !.making = "no"])
  /\ UNCHANGED <<row, issued, turn, due>>

-----------------------------------------------------------------------------
(* load_tokens and store_tokens. *)

Load(t) ==
  /\ At(t, "idle")
  /\ row # None
  /\ Goto(t, [Idle EXCEPT !.at = "decrypt", !.token = row.token, !.key = row.key])
  /\ UNCHANGED <<file, cache, row, issued, turn, due>>

\* What a task does with the tokens it has loaded.
Loaded(t) == /\ Continue(t, IF t = Logger THEN "use" ELSE "fresh")
             /\ turn' = IF t = Logger THEN Cars ELSE turn

Decrypt(t) ==
  /\ At(t, "decrypt")
  /\ \/ tasks[t].key = None /\ Continue(t, "migrate") /\ UNCHANGED turn
     \/ tasks[t].key # None /\ Key(t) = tasks[t].key /\ Loaded(t)
     \/ /\ tasks[t].key # None /\ Key(t) \notin {None, tasks[t].key}
        /\ Goto(t, Idle) /\ UNCHANGED turn
  /\ UNCHANGED <<file, cache, row, issued, due>>

WriteRow(t) ==
  /\ Key(t) # None
  /\ row' = [token |-> tasks[t].token, key |-> Key(t)]

\* load_tokens encrypts a row that was in plain text.
Migrate(t) ==
  /\ At(t, "migrate")
  /\ WriteRow(t)
  /\ Loaded(t)
  /\ UNCHANGED <<file, cache, issued, due>>

Store(t) ==
  /\ At(t, "store")
  /\ WriteRow(t)
  /\ Continue(t, "use")
  /\ UNCHANGED <<file, cache, issued, turn, due>>

-----------------------------------------------------------------------------
(* Calls to Tesla: ensure_fresh and force_refresh may rotate the token. *)
Issue == issued < MaxTokens /\ issued' = issued + 1

\* force_refresh, also after a 401; the reply may be lost on its way.
Refresh(t) ==
  /\ At(t, "fresh") \/ At(t, "use")
  /\ Issue
  /\ \/ Goto(t, [tasks[t] EXCEPT !.token = issued',
                                 !.at = IF At(t, "fresh") THEN "store" ELSE "use"])
     \/ IF At(t, "fresh") THEN Goto(t, Idle) ELSE UNCHANGED tasks
  /\ UNCHANGED <<file, cache, row, turn, due>>

\* ensure_fresh has nothing to do: sync_once_opts stores what it loaded.
StillFresh(t) ==
  /\ At(t, "fresh")
  /\ Continue(t, "store")
  /\ UNCHANGED <<file, cache, row, issued, turn, due>>

\* The refresh is refused, or the calls that follow the store have ended.
Ends(t) ==
  /\ t # Logger
  /\ At(t, "fresh") \/ At(t, "use")
  /\ Goto(t, Idle)
  /\ UNCHANGED <<file, cache, row, issued, turn, due>>

\* login and import-tokens store tokens that the user brings.
Login(t) ==
  /\ t \in Commands
  /\ At(t, "idle")
  /\ Issue
  /\ Goto(t, [Idle EXCEPT !.at = "store", !.token = issued'])
  /\ UNCHANGED <<file, cache, row, turn, due>>

-----------------------------------------------------------------------------
(* The round of the logger. *)

\* poll_due passes over a car whose next_poll lies ahead.
NotDue ==
  /\ At(Logger, "use") /\ turn # <<>> /\ ~due[Head(turn)]
  /\ turn' = Tail(turn)
  /\ UNCHANGED <<file, cache, row, issued, tasks, due>>

\* Mutant: the error of one car ends the round.
PollEnds_returns_error ==
  /\ At(Logger, "use") /\ turn # <<>> /\ due[Head(turn)]
  /\ \/ turn' = Tail(turn) /\ due' = [due EXCEPT ![Head(turn)] = FALSE] /\ Continue(Logger, "store")
     \/ turn' = <<>> /\ UNCHANGED due /\ Goto(Logger, Idle)
  /\ UNCHANGED <<file, cache, row, issued>>

\* poll_car has returned, with or without an error, and the tokens are stored.
PollEnds ==
  /\ At(Logger, "use") /\ turn # <<>> /\ due[Head(turn)]
  /\ turn' = Tail(turn)
  /\ due' = [due EXCEPT ![Head(turn)] = FALSE]
  /\ Continue(Logger, "store")
  /\ UNCHANGED <<file, cache, row, issued>>

RoundEnds ==
  /\ At(Logger, "use") /\ turn = <<>>
  /\ Goto(Logger, Idle)
  /\ UNCHANGED <<file, cache, row, issued, turn, due>>

\* run without tokens: tracked.clear()
NoTokens ==
  /\ At(Logger, "idle")
  /\ row = None
  /\ due' = [c \in DOMAIN due |-> TRUE]
  /\ UNCHANGED <<file, cache, row, issued, tasks, turn>>

\* next_poll of the car passes.
Wakes(c) ==
  /\ ~due[c]
  /\ due' = [due EXCEPT ![c] = TRUE]
  /\ UNCHANGED <<file, cache, row, issued, tasks, turn>>

-----------------------------------------------------------------------------
\* A process stops at any point, and may be started again.
Crash(p) ==
  /\ cache' = [cache EXCEPT ![p] = None]
  /\ tasks' = [t \in Tasks |-> IF ProcessOf[t] = p THEN Idle ELSE tasks[t]]
  /\ due' = IF p = ProcessOf[Logger] THEN [c \in DOMAIN due |-> TRUE] ELSE due
  /\ turn' = IF p = ProcessOf[Logger] THEN <<>> ELSE turn
  /\ UNCHANGED <<file, row, issued>>

TaskStep(t) == ReadKey(t) \/ MissKey(t) \/ CreateKey(t) \/ WriteKey(t) \/ Load(t)
               \/ Decrypt(t) \/ Migrate(t) \/ Store(t)
Round == NotDue \/ PollEnds \/ RoundEnds

Next ==
  \/ \E t \in Tasks : TaskStep(t) \/ Refresh(t) \/ StillFresh(t) \/ Ends(t) \/ Login(t)
  \/ Round \/ NoTokens
  \/ \E c \in DOMAIN due : Wakes(c)
  \/ \E p \in Processes : Crash(p)

\* The loop of the logger runs on, its polls end, a task that has the lock of
\* the key or waits for it goes on, and time passes.
Fairness ==
  /\ WF_vars(TaskStep(Logger)) /\ WF_vars(Round)
  /\ \A t \in Tasks : WF_vars(tasks[t].making # "no" /\ TaskStep(t))
  /\ \A c \in CarSet : WF_vars(Wakes(c))

Spec == Init /\ [][Next]_vars /\ Fairness

-----------------------------------------------------------------------------
(* Properties. *)

\* Whatever is stored can be read: processes that make the key at once, or stop
\* while they do, never leave a row under a key that is not the one in the file.
Decryptable == row # None => row.key \in {None, file}

\* Once the row and the key are there and the process of the logger keeps
\* running, every car is polled again and again, whatever the polls of the others
\* end with and whoever writes the row.
Usable == row # None /\ file \in Processes /\ Decryptable
EveryCarPolled ==
  <>[]Usable /\ <>[][~Crash(ProcessOf[Logger])]_vars =>
    \A c \in CarSet :
      []<>(At(Logger, "use") /\ turn # <<>> /\ Head(turn) = c /\ due[c])
=============================================================================
