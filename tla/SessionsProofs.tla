--------------------------- MODULE SessionsProofs ---------------------------
(***************************************************************************)
(* Proofs about Sessions.  At any moment a car has one session open at     *)
(* most, so that what the logger still has to do is the rest of the list   *)
(* of its reading, with at most one statement in front of it that closes   *)
(* that session.  The length of the rest says how far the reading is.      *)
(***************************************************************************)
EXTENDS Sessions, SequenceTheorems, FiniteSetTheorems, WellFoundedInduction, TLAPS

Statement == [op : Ops, ids : SUBSET Id]

\* A statement that closes a session comes in front of the list.
Closers == {"close_drive", "delete_drive", "complete_charge"}
Closing == todo # <<>> /\ Head(todo).op \in Closers
Rest    == IF Closing THEN Tail(todo) ELSE todo
Left    == Len(Rest)

Suffix(s, list) == /\ Len(s) <= Len(list)
                   /\ \A i \in 1..Len(s) : s[i] = list[Len(list) - Len(s) + i]

\* After a restart, a failure or a stream, sessions are only closed.
Repairs == \A i \in 1..Left : Rest[i] \in {Run("close_open_drives"), Run("complete_open_charges")}

Control ==
  /\ \A a \in Activity : kind = a => Suffix(Rest, Statements(a))
  /\ kind = None => Repairs
  /\ stream => todo = <<>> /\ kind = None

\* What is closed is the open session.
Closes ==
  Closing =>
    \/ Head(todo).op = "close_drive"     /\ \E d \in OpenDrives : Head(todo).ids = {d}
    \/ Head(todo).op = "delete_drive"    /\ \E d \in OpenDrives : Head(todo).ids = {d} /\ Attached(d) = {}
    \/ Head(todo).op = "complete_charge" /\ \E c \in OpenCharges : Head(todo).ids = {c}

Alone ==
  /\ OpenDrives = {} \/ OpenCharges = {}
  /\ \A d, e \in OpenDrives : d = e
  /\ \A c, e \in OpenCharges : c = e

\* How far the reading is, and what it has brought about.
Driving ==
  kind = "Driving" =>
    /\ Closing => Left \in {3, 4}
    /\ Left <= 4 => Closing \/ OpenCharges = {}
    /\ Left <= 3 => OpenCharges = {}
    /\ Left \in 1..3 /\ ~Closing => \A d \in OpenDrives : ~StaleDrive(d)
    /\ Left <= 1 => OpenDrives # {}
Charging ==
  kind = "Charging" =>
    /\ Closing => Left \in {2, 3}
    /\ Left <= 3 => Closing \/ OpenDrives = {}
    /\ Left <= 2 => OpenDrives = {}
    /\ Left \in 1..2 /\ ~Closing => \A c \in OpenCharges : ~StaleCharge(c)
    /\ Left <= 1 => OpenCharges # {}
Idle ==
  kind = "Idle" =>
    /\ Closing => Left \in {0, 1}
    /\ Left <= 1 => Closing \/ OpenDrives = {}
    /\ Left = 0 => OpenDrives = {} /\ (Closing \/ OpenCharges = {})

\* Rows are written in the order of time, and there are finitely many of them.
Dated ==
  /\ \A p, q \in DOMAIN positions : p <= q => positions[p].date <= positions[q].date
  /\ \E n \in Nat : DOMAIN drives \subseteq 0..n
  /\ \E n \in Nat : DOMAIN processes \subseteq 0..n
  /\ \A c \in DOMAIN processes : /\ processes[c].charges \subseteq 0..now
                                 /\ processes[c].start_date <= now
                                 /\ \A t \in processes[c].charges : processes[c].start_date <= t

IInv == /\ TypeOK /\ Dated /\ Control /\ Closes /\ Alone
        /\ Driving /\ Charging /\ Idle /\ ChargesApart

-----------------------------------------------------------------------------
(* What holds as long as pos_id names the row that was just written. *)

\* When a driving reading is written its point is on the open drive: it is, after a
\* persist_snapshot that returned its id.
PointOnDrive ==
  todo = <<>> /\ kind = "Driving" /\ ~stream
    => positions[Len(positions)].drive \in OpenDrives

\* Sessions that have ended do not overlap in time: a drive that takes the point
\* of an earlier one begins inside it.
NoOverlap == \A a \in Spans, b \in Spans : a # b => a[4] <= b[3] \/ b[4] <= a[3]

\* persist_snapshot returns the id of the row it inserted.
RowNamed == Running("persist_snapshot") /\ positions' # positions => pos' = Len(positions')

Named ==
  /\ pos \in {0, Len(positions)}
  /\ todo = <<>> => pos = 0
  /\ pos # 0 => positions[pos].date = now
  /\ kind = "Driving" /\ Left \in 1..2 => pos # 0 /\ positions[pos].drive = None

Ended == {drives[d].end_date : d \in DOMAIN drives \ OpenDrives}
         \cup {processes[c].end_date : c \in DOMAIN processes \ OpenCharges}

\* The open session is later than those that have ended.
Later ==
  /\ \A d \in DOMAIN drives \ OpenDrives :
       drives[d].start_date <= drives[d].end_date /\ drives[d].end_date <= now
  /\ \A c \in DOMAIN processes \ OpenCharges :
       processes[c].start_date <= processes[c].end_date /\ processes[c].end_date <= now
  /\ \A e \in Ended :
       /\ \A d \in OpenDrives : \A p \in Attached(d) : e <= positions[p].date
       /\ \A c \in OpenCharges : e <= processes[c].start_date

RInv == Named /\ Later /\ NoOverlap /\ PointOnDrive

-----------------------------------------------------------------------------
(* The least and the largest of a bounded set of numbers. *)

LEMMA Least ==
  ASSUME NEW S, S \subseteq Nat, S # {}
  PROVE  \E x \in S : \A y \in S : x <= y
<1>1. IsWellFoundedOn(OpToRel(<, Nat), Nat)
  BY NatLessThanWellFounded
<1>2. PICK x \in S : \A y \in S : ~(<<y, x>> \in OpToRel(<, Nat))
  BY <1>1, WFMin
<1>3. ASSUME NEW y \in S PROVE x <= y
  <2>1. x \in Nat /\ y \in Nat
    OBVIOUS
  <2>2. ~(<<y, x>> \in OpToRel(<, Nat))
    BY <1>2
  <2>3. ~(y < x)
    BY <2>1, <2>2 DEF OpToRel
  <2>. QED BY <2>1, <2>3
<1>. QED BY <1>3

LEMMA Largest ==
  ASSUME NEW n \in Nat, NEW S, S \subseteq 0..n, S # {}
  PROVE  \E x \in S : \A y \in S : y <= x
<1>. DEFINE T == {n - x : x \in S}
<1>1. T \subseteq Nat /\ T # {}
  <2>1. ASSUME NEW x \in S PROVE n - x \in Nat
    <3>1. x \in 0..n
      OBVIOUS
    <3>. QED BY <3>1
  <2>. QED BY <2>1
<1>2. PICK t \in T : \A u \in T : t <= u
  <2>. HIDE DEF T
  <2>. QED BY <1>1, Least
<1>3. PICK x \in S : t = n - x
  OBVIOUS
<1>4. ASSUME NEW y \in S PROVE y <= x
  <2>1. n - x <= n - y
    BY <1>2, <1>3
  <2>2. x \in 0..n /\ y \in 0..n
    OBVIOUS
  <2>. QED BY <2>1, <2>2
<1>. QED BY <1>4

LEMMA NewestOf ==
  ASSUME NEW n \in Nat, NEW S, S \subseteq 0..n, S # {}
  PROVE  Newest(S) \in S /\ \A y \in S : y <= Newest(S)
<1>1. \E x \in S : \A y \in S : y <= x
  BY Largest
<1>. QED BY <1>1 DEF Newest

-----------------------------------------------------------------------------
(* The list of statements. *)

LEMMA SuffixTail ==
  ASSUME NEW S, NEW s \in Seq(S), s # <<>>, NEW list \in Seq(S), Suffix(s, list)
  PROVE  Suffix(Tail(s), list) /\ Len(Tail(s)) = Len(s) - 1 /\ Tail(s) \in Seq(S)
<1>1. /\ Tail(s) \in Seq(S) /\ Len(Tail(s)) = Len(s) - 1 /\ Len(s) \in Nat /\ Len(list) \in Nat
      /\ \A i \in 1..Len(Tail(s)) : Tail(s)[i] = s[i + 1]
  BY HeadTailProperties, LenProperties
<1>2. ASSUME NEW i \in 1..Len(Tail(s)) PROVE Tail(s)[i] = list[Len(list) - Len(Tail(s)) + i]
  <2>1. i + 1 \in 1..Len(s) /\ Len(list) - Len(s) + (i + 1) = Len(list) - Len(Tail(s)) + i
    BY <1>1
  <2>. QED BY <1>1, <2>1 DEF Suffix
<1>. QED BY <1>1, <1>2 DEF Suffix

LEMMA RunType == ASSUME NEW op \in Ops PROVE Run(op) \in Statement /\ Run(op).op = op
  BY DEF Run, Stmt, Statement

LEMMA DrivingList ==
  /\ Statements("Driving") \in Seq(Statement) /\ Len(Statements("Driving")) = 5
  /\ Statements("Driving")[1] = Run("complete_open_charges")
  /\ Statements("Driving")[2] = Run("close_stale_sessions")
  /\ Statements("Driving")[3] = Run("persist_snapshot")
  /\ Statements("Driving")[4] = Run("open_drive")
  /\ Statements("Driving")[5] = Run("attach_to_drive")
<1>1. Statements("Driving") = DrivingTick
  BY DEF Statements
<1>2. Len(DrivingTick) = 5 /\ DrivingTick \in Seq(Statement)
  <2>. HIDE DEF Statement
  <2>. QED BY RunType DEF DrivingTick, Ops
<1>3. /\ DrivingTick[1] = Run("complete_open_charges")
      /\ DrivingTick[2] = Run("close_stale_sessions")
      /\ DrivingTick[3] = Run("persist_snapshot")
      /\ DrivingTick[4] = Run("open_drive")
      /\ DrivingTick[5] = Run("attach_to_drive")
  BY DEF DrivingTick
<1>. QED BY <1>1, <1>2, <1>3

LEMMA ChargingList ==
  /\ Statements("Charging") \in Seq(Statement) /\ Len(Statements("Charging")) = 6
  /\ Statements("Charging")[1] = Run("persist_snapshot")
  /\ Statements("Charging")[2] = Run("attach_recent_position")
  /\ Statements("Charging")[3] = Run("close_open_drives")
  /\ Statements("Charging")[4] = Run("close_stale_sessions")
  /\ Statements("Charging")[5] = Run("open_charge")
  /\ Statements("Charging")[6] = Run("insert_charge")
<1>1. Statements("Charging") = ChargingTick
  BY DEF Statements
<1>2. Len(ChargingTick) = 6 /\ ChargingTick \in Seq(Statement)
  <2>. HIDE DEF Statement
  <2>. QED BY RunType DEF ChargingTick, Ops
<1>3. /\ ChargingTick[1] = Run("persist_snapshot")
      /\ ChargingTick[2] = Run("attach_recent_position")
      /\ ChargingTick[3] = Run("close_open_drives")
      /\ ChargingTick[4] = Run("close_stale_sessions")
      /\ ChargingTick[5] = Run("open_charge")
      /\ ChargingTick[6] = Run("insert_charge")
  BY DEF ChargingTick
<1>. QED BY <1>1, <1>2, <1>3

LEMMA IdleList ==
  /\ Statements("Idle") \in Seq(Statement) /\ Len(Statements("Idle")) = 4
  /\ Statements("Idle")[1] = Run("persist_snapshot")
  /\ Statements("Idle")[2] = Run("attach_recent_position")
  /\ Statements("Idle")[3] = Run("close_open_drives")
  /\ Statements("Idle")[4] = Run("complete_open_charges")
<1>1. Statements("Idle") = IdleTick
  BY DEF Statements
<1>2. Len(IdleTick) = 4 /\ IdleTick \in Seq(Statement)
  <2>. HIDE DEF Statement
  <2>. QED BY RunType DEF IdleTick, Ops
<1>3. /\ IdleTick[1] = Run("persist_snapshot")
      /\ IdleTick[2] = Run("attach_recent_position")
      /\ IdleTick[3] = Run("close_open_drives")
      /\ IdleTick[4] = Run("complete_open_charges")
  BY DEF IdleTick
<1>. QED BY <1>1, <1>2, <1>3

LEMMA OpsApart ==
  /\ \A a \in Activity : /\ Statements(a) \in Seq(Statement)
                         /\ \A i \in 1..Len(Statements(a)) : Statements(a)[i].op \notin Closers
  /\ \A s \in {Run("close_open_drives"), Run("complete_open_charges")} :
       s \in Statement /\ s.op \in {"close_open_drives", "complete_open_charges"} /\ s.op \notin Closers
<1>1. \A op \in Ops : Run(op).op = op /\ Run(op) \in Statement
  BY RunType
<1>2. CASE TRUE
  <2>1. \A i \in 1..5 : Statements("Driving")[i].op \notin Closers
    BY <1>1, DrivingList DEF Closers, Ops
  <2>2. \A i \in 1..6 : Statements("Charging")[i].op \notin Closers
    BY <1>1, ChargingList DEF Closers, Ops
  <2>3. \A i \in 1..4 : Statements("Idle")[i].op \notin Closers
    BY <1>1, IdleList DEF Closers, Ops
  <2>4. \A a \in Activity : /\ Statements(a) \in Seq(Statement)
                            /\ \A i \in 1..Len(Statements(a)) : Statements(a)[i].op \notin Closers
    <3>1. SUFFICES ASSUME NEW a \in {"Driving", "Charging", "Idle"}
                   PROVE  /\ Statements(a) \in Seq(Statement)
                          /\ \A i \in 1..Len(Statements(a)) : Statements(a)[i].op \notin Closers
      BY DEF Activity
    <3>2. CASE a = "Driving"
      BY <2>1, <3>2, DrivingList
    <3>3. CASE a = "Charging"
      BY <2>2, <3>3, ChargingList
    <3>4. CASE a = "Idle"
      BY <2>3, <3>4, IdleList
    <3>. QED BY <3>2, <3>3, <3>4
  <2>5. \A op \in {"close_open_drives", "complete_open_charges"} : op \in Ops /\ op \notin Closers
    BY DEF Closers, Ops
  <2>. QED BY <1>1, <2>4, <2>5
<1>. QED BY <1>2

LEMMA RestType ==
  ASSUME TypeOK
  PROVE  /\ Rest \in Seq(Statement) /\ Left \in Nat
         /\ Left = 0 <=> Rest = <<>>
         /\ ~Closing => Rest = todo
         /\ todo = <<>> => ~Closing /\ Left = 0
         /\ todo # <<>> /\ ~Closing => Left # 0 /\ Head(todo) = Rest[1] /\ Rest # <<>>
<1>1. todo \in Seq(Statement)
  BY DEF TypeOK, Statement
<1>2. Rest \in Seq(Statement)
  BY <1>1, HeadTailProperties DEF Rest, Closing
<1>3. Left \in Nat /\ (Left = 0 <=> Rest = <<>>)
  BY <1>2, EmptySeq, LenProperties DEF Left
<1>. QED BY <1>1, <1>2, <1>3 DEF Rest, Closing

\* The length of the rest says which statement is next.
LEMMA Turn ==
  ASSUME TypeOK, Control, todo # <<>>, ~Closing
  PROVE  /\ kind = "Driving" =>
              \/ Left = 5 /\ Running("complete_open_charges")
              \/ Left = 4 /\ Running("close_stale_sessions")
              \/ Left = 3 /\ Running("persist_snapshot")
              \/ Left = 2 /\ Running("open_drive")
              \/ Left = 1 /\ Running("attach_to_drive")
         /\ kind = "Charging" =>
              \/ Left = 6 /\ Running("persist_snapshot")
              \/ Left = 5 /\ Running("attach_recent_position")
              \/ Left = 4 /\ Running("close_open_drives")
              \/ Left = 3 /\ Running("close_stale_sessions")
              \/ Left = 2 /\ Running("open_charge")
              \/ Left = 1 /\ Running("insert_charge")
         /\ kind = "Idle" =>
              \/ Left = 4 /\ Running("persist_snapshot")
              \/ Left = 3 /\ Running("attach_recent_position")
              \/ Left = 2 /\ Running("close_open_drives")
              \/ Left = 1 /\ Running("complete_open_charges")
         /\ kind = None => Running("close_open_drives") \/ Running("complete_open_charges")
<1>1. Left \in Nat /\ Left # 0 /\ Head(todo) = Rest[1] /\ 1 \in 1..Left
  BY RestType
<1>2. \A op \in Ops : Run(op).op = op
  BY RunType
<1>3. ASSUME NEW a \in Activity, kind = a
      PROVE  Left <= Len(Statements(a)) /\ Head(todo) = Statements(a)[Len(Statements(a)) - Left + 1]
  BY <1>1, <1>3 DEF Control, Suffix, Left
<1>4. CASE kind = "Driving"
  <2>1. /\ Left <= Len(Statements("Driving"))
        /\ Head(todo) = Statements("Driving")[Len(Statements("Driving")) - Left + 1]
    BY <1>3, <1>4 DEF Activity
  <2>2. Left \in 1..5 /\ 5 - Left + 1 = 6 - Left
    <3>1. Left <= 5
      BY <2>1, DrivingList
    <3>2. Left \in Nat \ {0}
      BY <1>1
    <3>. QED BY <3>1, <3>2
  <2>3. Head(todo) = Statements("Driving")[6 - Left]
    BY <2>1, <2>2, DrivingList
  <2>4. \/ Left = 5 /\ Head(todo) = Run("complete_open_charges")
        \/ Left = 4 /\ Head(todo) = Run("close_stale_sessions")
        \/ Left = 3 /\ Head(todo) = Run("persist_snapshot")
        \/ Left = 2 /\ Head(todo) = Run("open_drive")
        \/ Left = 1 /\ Head(todo) = Run("attach_to_drive")
    BY <2>2, <2>3, DrivingList
  <2>5. \A op \in {"complete_open_charges", "close_stale_sessions", "persist_snapshot", "open_drive", "attach_to_drive"} :
          Run(op).op = op
    BY <1>2 DEF Ops
  <2>. QED BY <1>4, <2>4, <2>5, SessionsAssumption DEF Running
<1>5. CASE kind = "Charging"
  <2>1. /\ Left <= Len(Statements("Charging"))
        /\ Head(todo) = Statements("Charging")[Len(Statements("Charging")) - Left + 1]
    BY <1>3, <1>5 DEF Activity
  <2>2. Left \in 1..6 /\ 6 - Left + 1 = 7 - Left
    <3>1. Left <= 6
      BY <2>1, ChargingList
    <3>2. Left \in Nat \ {0}
      BY <1>1
    <3>. QED BY <3>1, <3>2
  <2>3. Head(todo) = Statements("Charging")[7 - Left]
    BY <2>1, <2>2, ChargingList
  <2>4. \/ Left = 6 /\ Head(todo) = Run("persist_snapshot")
        \/ Left = 5 /\ Head(todo) = Run("attach_recent_position")
        \/ Left = 4 /\ Head(todo) = Run("close_open_drives")
        \/ Left = 3 /\ Head(todo) = Run("close_stale_sessions")
        \/ Left = 2 /\ Head(todo) = Run("open_charge")
        \/ Left = 1 /\ Head(todo) = Run("insert_charge")
    BY <2>2, <2>3, ChargingList
  <2>5. \A op \in {"persist_snapshot", "attach_recent_position", "close_open_drives", "close_stale_sessions", "open_charge", "insert_charge"} :
          Run(op).op = op
    BY <1>2 DEF Ops
  <2>. QED BY <1>5, <2>4, <2>5, SessionsAssumption DEF Running
<1>6. CASE kind = "Idle"
  <2>1. /\ Left <= Len(Statements("Idle"))
        /\ Head(todo) = Statements("Idle")[Len(Statements("Idle")) - Left + 1]
    BY <1>3, <1>6 DEF Activity
  <2>2. Left \in 1..4 /\ 4 - Left + 1 = 5 - Left
    <3>1. Left <= 4
      BY <2>1, IdleList
    <3>2. Left \in Nat \ {0}
      BY <1>1
    <3>. QED BY <3>1, <3>2
  <2>3. Head(todo) = Statements("Idle")[5 - Left]
    BY <2>1, <2>2, IdleList
  <2>. QED BY <1>2, <1>6, <2>2, <2>3, IdleList, SessionsAssumption DEF Running, Ops
<1>7. CASE kind = None
  <2>1. Head(todo).op \in {"close_open_drives", "complete_open_charges"}
    BY <1>1, <1>7, OpsApart DEF Control, Repairs
  <2>. QED BY <1>7, <2>1, SessionsAssumption DEF Running
<1>. QED BY <1>4, <1>5, <1>6, <1>7

LEMMA Cons ==
  ASSUME NEW S, NEW x \in S, NEW t \in Seq(S)
  PROVE  /\ <<x>> \o t \in Seq(S) /\ <<x>> \o t # <<>>
         /\ Head(<<x>> \o t) = x /\ Tail(<<x>> \o t) = t
<1>. DEFINE s == <<x>> \o t
<1>1. <<x>> \in Seq(S) /\ Len(<<x>>) = 1 /\ <<x>>[1] = x /\ Len(t) \in Nat
  BY LenProperties
<1>2. /\ s \in Seq(S) /\ Len(s) = 1 + Len(t)
      /\ \A i \in 1..Len(s) : s[i] = IF i <= 1 THEN <<x>>[i] ELSE t[i - 1]
  BY <1>1, ConcatProperties
<1>3. s # <<>> /\ s[1] = x
  BY <1>1, <1>2, EmptySeq
<1>. HIDE DEF s
<1>4. Tail(s) \in Seq(S) /\ Len(Tail(s)) = Len(t) /\ \A i \in 1..Len(Tail(s)) : Tail(s)[i] = s[i + 1]
  BY <1>1, <1>2, <1>3, HeadTailProperties
<1>5. \A i \in 1..Len(t) : Tail(s)[i] = t[i]
  BY <1>1, <1>2, <1>4
<1>6. Tail(s) = t
  BY <1>4, <1>5, SeqEqual
<1>7. Head(s) = x
  BY <1>2, <1>3
<1>. QED BY <1>2, <1>3, <1>6, <1>7 DEF s

\* A statement is done, and a closing one may come in its place.
LEMMA Onward ==
  ASSUME TypeOK, Control, todo # <<>>, UNCHANGED <<kind, stream>>,
         NEW front, \/ front = <<>>
                    \/ \E op \in Closers, ids \in SUBSET Id : front = <<Stmt(op, ids)>>,
         todo' = front \o Tail(todo)
  PROVE  /\ todo' \in Seq(Statement) /\ Control'
         /\ Rest' = Tail(todo) /\ Left' = IF Closing THEN Left ELSE Left - 1
         /\ Closing' <=> front # <<>>
         /\ front # <<>> => Head(todo)' = front[1]
<1>. DEFINE T == Tail(todo)
<1>1. /\ todo \in Seq(Statement) /\ T \in Seq(Statement)
      /\ Rest \in Seq(Statement) /\ Left \in Nat
      /\ T = IF Closing THEN Rest ELSE Tail(Rest)
      /\ ~Closing => Rest # <<>>
  BY RestType, HeadTailProperties DEF TypeOK, Statement, Rest
<1>2. /\ Len(T) = IF Closing THEN Left ELSE Left - 1
      /\ \A a \in Activity : kind = a => Suffix(T, Statements(a))
      /\ Len(T) \in Nat
  BY <1>1, SuffixTail, OpsApart, HeadTailProperties, LenProperties DEF Control, Left
<1>3. kind = None => \A i \in 1..Len(T) : T[i] \in {Run("close_open_drives"), Run("complete_open_charges")}
  <2>1. CASE Closing
    BY <1>1, <2>1 DEF Control, Repairs, Left
  <2>2. CASE ~Closing
    <3>1. \A i \in 1..Len(T) : T[i] = Rest[i + 1] /\ i + 1 \in 1..Left
      <4>1. \A i \in 1..Len(Tail(Rest)) : Tail(Rest)[i] = Rest[i + 1]
        BY <1>1, <2>2, HeadTailProperties
      <4>2. T = Tail(Rest) /\ Len(T) = Left - 1
        BY <1>1, <1>2, <2>2
      <4>. HIDE DEF T
      <4>. QED BY <1>1, <4>1, <4>2
    <3>2. kind = None => \A i \in 1..Left : Rest[i] \in {Run("close_open_drives"), Run("complete_open_charges")}
      BY DEF Control, Repairs
    <3>. QED BY <3>1, <3>2
  <2>. QED BY <2>1, <2>2
<1>4. T # <<>> => Head(T).op \notin Closers
  <2>1. SUFFICES ASSUME T # <<>> PROVE T[1].op \notin Closers
    OBVIOUS
  <2>2. Len(T) # 0 /\ 1 \in 1..Len(T)
    BY <1>1, <1>2, <2>1, EmptySeq
  <2>3. CASE kind = None
    BY <1>3, <2>2, <2>3, OpsApart
  <2>4. ASSUME NEW a \in Activity, kind = a PROVE T[1].op \notin Closers
    <3>1. Len(Statements(a)) \in Nat
      BY OpsApart, LenProperties
    <3>2. Suffix(T, Statements(a))
      BY <1>2, <2>4
    <3>3. /\ T[1] = Statements(a)[Len(Statements(a)) - Len(T) + 1]
          /\ Len(Statements(a)) - Len(T) + 1 \in 1..Len(Statements(a))
      <4>. HIDE DEF T
      <4>1. 1 \in 1..Len(T) /\ Len(T) <= Len(Statements(a))
        BY <1>2, <2>2, <3>2 DEF Suffix
      <4>2. T[1] = Statements(a)[Len(Statements(a)) - Len(T) + 1]
        BY <4>1, <3>2 DEF Suffix
      <4>. QED BY <1>2, <3>1, <4>1, <4>2
    <3>4. Statements(a)[Len(Statements(a)) - Len(T) + 1].op \notin Closers
      BY <3>3, OpsApart
    <3>. QED BY <3>3, <3>4
  <2>. QED BY <2>3, <2>4 DEF TypeOK
<1>. HIDE DEF T
<1>5. /\ todo' \in Seq(Statement) /\ Rest' = T /\ (Closing' <=> front # <<>>)
      /\ front # <<>> => Head(todo)' = front[1]
  <2>1. CASE front = <<>>
    <3>1. todo' = T
      BY <1>1, <2>1, ConcatEmptySeq DEF T
    <3>2. ~Closing'
      BY <1>4, <3>1 DEF Closing
    <3>. QED BY <1>1, <2>1, <3>1, <3>2 DEF Rest
  <2>2. CASE \E op \in Closers, ids \in SUBSET Id : front = <<Stmt(op, ids)>>
    <3>1. PICK op \in Closers, ids \in SUBSET Id : front = <<Stmt(op, ids)>>
      BY <2>2
    <3>2. Stmt(op, ids) \in Statement /\ Stmt(op, ids).op = op
      BY DEF Stmt, Statement, Closers, Ops
    <3>3. todo' = <<Stmt(op, ids)>> \o T
      BY <3>1 DEF T
    <3>4. todo' \in Seq(Statement) /\ todo' # <<>> /\ Head(todo') = Stmt(op, ids) /\ Tail(todo') = T
      <4>1. T \in Seq(Statement)
        BY <1>1
      <4>2. ASSUME NEW x \in Statement, NEW u, u = <<x>> \o T
            PROVE  u \in Seq(Statement) /\ u # <<>> /\ Head(u) = x /\ Tail(u) = T
        BY <4>1, <4>2, Cons, Zenon
      <4>. QED BY <3>2, <3>3, <4>2
    <3>5. Closing'
      BY <3>2, <3>4 DEF Closing
    <3>. QED BY <3>1, <3>4, <3>5 DEF Rest
  <2>. QED BY <2>1, <2>2
<1>6. Left' = Len(T)
  BY <1>5 DEF Left
<1>7. Control'
  <2>1. \A a \in Activity : kind' = a => Suffix(Rest', Statements(a))
    BY <1>2, <1>5
  <2>2. kind' = None => Repairs'
    BY <1>3, <1>5, <1>6 DEF Repairs
  <2>3. ~stream'
    BY DEF Control
  <2>. QED BY <2>1, <2>2, <2>3 DEF Control
<1>. QED BY <1>2, <1>5, <1>6, <1>7 DEF T

-----------------------------------------------------------------------------
(* The tables. *)

LEMMA PositionsType ==
  ASSUME TypeOK
  PROVE  /\ Len(positions) \in Nat /\ DOMAIN positions = 1..Len(positions)
         /\ \A p \in DOMAIN positions : p \in Nat /\ positions[p] \in Point /\ positions[p].date \in 0..now
         /\ now \in Nat
<1>1. positions \in Seq(Point) /\ now \in Nat
  BY DEF TypeOK, Date
<1>2. Len(positions) \in Nat /\ DOMAIN positions = 1..Len(positions)
  BY <1>1, LenProperties
<1>3. \A p \in DOMAIN positions : p \in Nat /\ positions[p] \in Point
  BY <1>1, <1>2, ElementOfSeq
<1>4. \A p \in DOMAIN positions : positions[p].date \in Nat /\ positions[p].date <= now
  BY <1>3 DEF Point, Date, TypeOK
<1>. QED BY <1>1, <1>2, <1>3, <1>4

LEMMA FirstLast ==
  ASSUME TypeOK, Dated, NEW S, S \subseteq DOMAIN positions, S # {}
  PROVE  /\ FirstOf(S) \in S /\ LastOf(S) \in S
         /\ \A q \in S : /\ positions[FirstOf(S)].date <= positions[q].date
                         /\ positions[q].date <= positions[LastOf(S)].date
<1>1. /\ Len(positions) \in Nat /\ S \subseteq Nat /\ S \subseteq 0..Len(positions)
      /\ \A p \in S : positions[p].date \in Nat /\ p \in DOMAIN positions
  BY PositionsType
<1>2. \A p, q \in S : p <= q => positions[p].date <= positions[q].date
  BY DEF Dated
<1>3. \A p, q \in S : p <= q => Before(p, q)
  BY <1>1, <1>2 DEF Before
<1>4. \E p \in S : \A q \in S : Before(p, q)
  BY <1>1, <1>3, Least
<1>5. \E p \in S : \A q \in S : Before(q, p)
  BY <1>1, <1>3, Largest
<1>6. FirstOf(S) \in S /\ \A q \in S : Before(FirstOf(S), q)
  BY <1>4 DEF FirstOf
<1>7. LastOf(S) \in S /\ \A q \in S : Before(q, LastOf(S))
  BY <1>5 DEF LastOf
<1>8. \A p, q \in S : Before(p, q) => positions[p].date <= positions[q].date
  BY <1>1 DEF Before
<1>. QED BY <1>6, <1>7, <1>8

LEMMA FreshId ==
  ASSUME NEW table, DOMAIN table \subseteq Id, NEW n \in Nat, DOMAIN table \subseteq 0..n
  PROVE  /\ NextId(table) \in Id /\ NextId(table) \notin DOMAIN table
         /\ \E m \in Nat : DOMAIN table \cup {NextId(table)} \subseteq 0..m
<1>1. CASE DOMAIN table = {}
  BY <1>1 DEF NextId, Id
<1>2. CASE DOMAIN table # {}
  <2>1. Newest(DOMAIN table) \in DOMAIN table /\ \A i \in DOMAIN table : i <= Newest(DOMAIN table)
    BY <1>2, NewestOf
  <2>2. NextId(table) = Newest(DOMAIN table) + 1
    BY <1>2 DEF NextId
  <2>3. Newest(DOMAIN table) \in Nat \ {0}
    BY <2>1 DEF Id
  <2>4. NextId(table) \in Nat \ {0} /\ NextId(table) \notin DOMAIN table
    BY <2>1, <2>2, <2>3
  <2>5. DOMAIN table \cup {NextId(table)} \subseteq 0..NextId(table)
    BY <2>1, <2>2, <2>3 DEF Id
  <2>. QED BY <2>4, <2>5 DEF Id
<1>. QED BY <1>1, <1>2

LEMMA DriveOpened ==
  ASSUME TypeOK, Dated, NEW row, drives' = With(drives, NextId(drives), row)
  PROVE  \E id \in Id : /\ id \notin DOMAIN drives /\ DOMAIN drives' = DOMAIN drives \cup {id}
                        /\ drives'[id] = row /\ \E m \in Nat : DOMAIN drives' \subseteq 0..m
                        /\ \A i \in DOMAIN drives : drives'[i] = drives[i]
<1>1. DOMAIN drives \subseteq Id
  BY DEF TypeOK
<1>2. PICK n \in Nat : DOMAIN drives \subseteq 0..n
  BY DEF Dated
<1>. QED BY <1>1, <1>2, FreshId DEF With

LEMMA ChargeOpened ==
  ASSUME TypeOK, Dated, NEW row, processes' = With(processes, NextId(processes), row)
  PROVE  \E id \in Id : /\ id \notin DOMAIN processes /\ DOMAIN processes' = DOMAIN processes \cup {id}
                        /\ processes'[id] = row /\ \E m \in Nat : DOMAIN processes' \subseteq 0..m
                        /\ \A i \in DOMAIN processes : processes'[i] = processes[i]
<1>1. DOMAIN processes \subseteq Id
  BY DEF TypeOK
<1>2. PICK n \in Nat : DOMAIN processes \subseteq 0..n
  BY DEF Dated
<1>. QED BY <1>1, <1>2, FreshId DEF With

\* The tables stay, time may pass.
LEMMA Quiet ==
  ASSUME IInv, UNCHANGED <<positions, drives, processes>>, now' \in Nat, now <= now', odometer' \in Nat,
         hourly' \in Nat, kind' \in Activity \cup {None}, todo' \in Seq(Statement), pos' \in Nat,
         stream' \in BOOLEAN, saw_driving' \in BOOLEAN
  PROVE  /\ TypeOK' /\ Dated' /\ Alone' /\ ChargesApart'
         /\ OpenDrives' = OpenDrives /\ OpenCharges' = OpenCharges
         /\ \A d : Attached(d)' = Attached(d)
         /\ now' = now => /\ \A d : StaleDrive(d)' = StaleDrive(d)
                          /\ \A c : StaleCharge(c)' = StaleCharge(c)
<1>1. TypeOK'
  <2>1. /\ positions' \in Seq(Point)
        /\ DOMAIN drives' \subseteq Id /\ \A d \in DOMAIN drives' : drives'[d] \in Drive
        /\ DOMAIN processes' \subseteq Id /\ \A c \in DOMAIN processes' : processes'[c] \in Process
    BY DEF IInv, TypeOK
  <2>2. \A p \in DOMAIN positions' : /\ positions'[p].date <= now'
                                     /\ positions'[p].drive \in DOMAIN drives' \cup {None}
    <3>1. \A p \in DOMAIN positions : positions[p].date \in Nat /\ positions[p].date <= now /\ now \in Nat
      BY PositionsType DEF IInv
    <3>. QED BY <3>1 DEF IInv, TypeOK
  <2>. QED BY <2>1, <2>2 DEF TypeOK, Date, Statement
<1>2. Dated'
  <2>1. /\ now \in Nat
        /\ \A c \in DOMAIN processes : /\ processes[c].charges \subseteq 0..now
                                       /\ processes[c].start_date \in Nat /\ processes[c].start_date <= now
    BY DEF IInv, Dated, TypeOK, Date, Process
  <2>. QED BY <2>1 DEF IInv, Dated
<1>3. OpenDrives' = OpenDrives /\ OpenCharges' = OpenCharges
  BY DEF OpenDrives, OpenCharges
<1>4. Alone' /\ ChargesApart'
  BY <1>3 DEF IInv, Alone, ChargesApart
<1>5. \A d : Attached(d)' = Attached(d)
  BY DEF Attached
<1>6. ASSUME now' = now
      PROVE  /\ \A d : StaleDrive(d)' = StaleDrive(d)
             /\ \A c : StaleCharge(c)' = StaleCharge(c)
  BY <1>5, <1>6 DEF StaleDrive, StaleCharge, Recent
<1>. QED BY <1>1, <1>2, <1>3, <1>4, <1>5, <1>6

LEMMA Begun ==
  ASSUME NEW activity \in Activity, todo' = Statements(activity)
  PROVE  /\ ~Closing' /\ Rest' = Statements(activity) /\ Left' = Len(Statements(activity))
         /\ activity = "Driving" => Left' = 5
<1>1. Len(Statements(activity)) \in Nat \ {0} /\ (activity = "Driving" => Len(Statements(activity)) = 5)
  BY DrivingList, ChargingList, IdleList DEF Activity
<1>2. Head(Statements(activity)).op \notin Closers
  <2>1. 1 \in 1..Len(Statements(activity))
    BY <1>1
  <2>2. Statements(activity)[1].op \notin Closers
    BY <2>1, OpsApart
  <2>. QED BY <2>2
<1>. QED BY <1>1, <1>2 DEF Closing, Rest, Left

LEMMA IngestInv == ASSUME IInv, NEW activity \in Activity, Ingest(activity) PROVE IInv'
<1>1. /\ todo = <<>> /\ ~stream /\ kind' = activity /\ todo' = Statements(activity)
      /\ UNCHANGED <<now, odometer, positions, drives, processes, hourly, pos, stream, saw_driving>>
  BY DEF Ingest, tables
<1>2. Statements(activity) \in Seq(Statement) /\ Len(Statements(activity)) \in Nat \ {0}
  BY DrivingList, ChargingList, IdleList DEF Activity
<1>3. ~Closing' /\ Rest' = Statements(activity) /\ Left' = Len(Statements(activity))
  BY <1>1, Begun
<1>4. Control'
  <2>1. Suffix(Statements(activity), Statements(activity))
    BY <1>2 DEF Suffix
  <2>2. activity # None
    BY SessionsAssumption DEF Activity
  <2>. QED BY <1>1, <1>3, <2>1, <2>2 DEF Control
<1>5. /\ TypeOK' /\ Dated' /\ Alone' /\ ChargesApart'
  <2>1. /\ now' \in Nat /\ now <= now' /\ odometer' \in Nat /\ hourly' \in Nat /\ pos' \in Nat
        /\ stream' \in BOOLEAN /\ saw_driving' \in BOOLEAN
    BY <1>1 DEF IInv, TypeOK, Date
  <2>. QED BY <1>1, <1>2, <2>1, Quiet
<1>6. Closes' /\ Driving' /\ Charging' /\ Idle'
  <2>1. /\ kind' = "Driving" => Left' = 5
        /\ kind' = "Charging" => Left' = 6
        /\ kind' = "Idle" => Left' = 4
    BY <1>1, <1>3, DrivingList, ChargingList, IdleList
  <2>2. Closes'
    BY <1>3 DEF Closes
  <2>3. Driving'
    <3>1. SUFFICES ASSUME kind' = "Driving" PROVE Left' = 5 => Driving'
      BY <2>1 DEF Driving
    <3>. QED BY <1>3 DEF Driving
  <2>4. Charging'
    <3>1. SUFFICES ASSUME kind' = "Charging" PROVE Left' = 6 => Charging'
      BY <2>1 DEF Charging
    <3>. QED BY <1>3 DEF Charging
  <2>5. Idle'
    <3>1. SUFFICES ASSUME kind' = "Idle" PROVE Left' = 4 => Idle'
      BY <2>1 DEF Idle
    <3>. QED BY <1>3 DEF Idle
  <2>. QED BY <2>2, <2>3, <2>4, <2>5
<1>. QED BY <1>4, <1>5, <1>6 DEF IInv

\* The list is dropped, and no reading is under way.
LEMMA Dropped ==
  ASSUME kind' = None, stream' => todo' = <<>>, todo' \in {<<>>, Repair, <<Run("close_open_drives")>>}
  PROVE  todo' \in Seq(Statement) /\ Control' /\ Closes' /\ Driving' /\ Charging' /\ Idle'
<1>1. /\ todo' \in Seq(Statement) /\ Len(todo') \in 0..2
      /\ \A i \in 1..Len(todo') : todo'[i] \in {Run("close_open_drives"), Run("complete_open_charges")}
  <2>1. Run("close_open_drives") \in Statement /\ Run("complete_open_charges") \in Statement
    BY RunType DEF Ops
  <2>2. CASE todo' = <<>>
    BY <2>2
  <2>3. CASE todo' = <<Run("close_open_drives")>>
    BY <2>1, <2>3
  <2>4. CASE todo' = Repair
    <3>1. todo' = <<Run("close_open_drives"), Run("complete_open_charges")>>
      BY <2>4 DEF Repair
    <3>2. Len(todo') = 2
      BY <3>1
    <3>3. todo' \in Seq(Statement)
      BY <2>1, <3>1
    <3>4. todo'[1] = Run("close_open_drives") /\ todo'[2] = Run("complete_open_charges")
      BY <3>1
    <3>. QED BY <3>2, <3>3, <3>4
  <2>. QED BY <2>2, <2>3, <2>4
<1>2. ~Closing' /\ Rest' = todo' /\ Left' = Len(todo')
  <2>1. todo' # <<>> => Head(todo').op \notin Closers
    <3>1. todo' # <<>> => todo'[1] \in {Run("close_open_drives"), Run("complete_open_charges")}
      BY DEF Repair
    <3>. QED BY <3>1, OpsApart
  <2>. QED BY <2>1 DEF Closing, Rest, Left
<1>3. Control'
  <2>1. \A a \in Activity : kind' # a
    BY SessionsAssumption DEF Activity
  <2>. QED BY <1>1, <1>2, <2>1 DEF Control, Repairs
<1>4. Closes' /\ Driving' /\ Charging' /\ Idle'
  BY <1>2, SessionsAssumption DEF Closes, Driving, Charging, Idle
<1>. QED BY <1>1, <1>3, <1>4

LEMMA DropsInv == ASSUME IInv, StreamOpens \/ StreamEnds \/ Fails \/ Restart PROVE IInv'
<1>1. now' = now /\ UNCHANGED <<positions, drives, processes, odometer>> /\ now \in Nat
  BY DEF StreamOpens, StreamEnds, Fails, Restart, tables, IInv, TypeOK, Date
<1>2. hourly' \in Nat /\ pos' \in Nat
  BY DEF StreamOpens, StreamEnds, Fails, Restart, tables, IInv, TypeOK
<1>3. stream' \in BOOLEAN /\ saw_driving' \in BOOLEAN
  BY Zenon DEF StreamOpens, StreamEnds, Fails, Restart, IInv, TypeOK
<1>4. kind' = None /\ todo' \in {<<>>, Repair, <<Run("close_open_drives")>>} /\ (stream' => todo' = <<>>)
  BY DEF StreamOpens, StreamEnds, Fails, Restart, tables, IInv, Control
<1>5. /\ todo' \in Seq(Statement)
      /\ Control' /\ Closes' /\ Driving' /\ Charging' /\ Idle'
  BY <1>4, Dropped
<1>6. TypeOK' /\ Dated' /\ Alone' /\ ChargesApart'
  BY <1>1, <1>2, <1>3, <1>4, <1>5, Quiet DEF IInv, TypeOK
<1>. QED BY <1>5, <1>6 DEF IInv

LEMMA TickInv == ASSUME IInv, Tick PROVE IInv'
<1>1. /\ todo = <<>> /\ now' = now + 1 /\ now \in Nat /\ odometer' \in {odometer, odometer + 1}
      /\ UNCHANGED <<positions, drives, processes, hourly, kind, todo, pos, stream, saw_driving>>
  BY DEF Tick, tables, IInv, TypeOK, Date
<1>2. /\ TypeOK' /\ Dated' /\ Alone' /\ ChargesApart'
      /\ OpenDrives' = OpenDrives /\ OpenCharges' = OpenCharges
  <2>1. /\ hourly' \in Nat /\ pos' \in Nat /\ kind' \in Activity \cup {None} /\ todo' \in Seq(Statement)
        /\ stream' \in BOOLEAN /\ saw_driving' \in BOOLEAN
    BY <1>1 DEF IInv, TypeOK, Statement
  <2>2. now' \in Nat /\ now <= now' /\ odometer' \in Nat
    BY <1>1 DEF IInv, TypeOK
  <2>. QED BY <1>1, <2>1, <2>2, Quiet
<1>3. ~Closing /\ Left = 0 /\ Closing' = Closing /\ Rest' = Rest /\ Left' = Left
  BY <1>1, RestType DEF IInv, Closing, Rest, Left
<1>4. Control' /\ Closes'
  BY <1>1, <1>3 DEF IInv, Control, Repairs, Closes
<1>5. Driving' /\ Charging' /\ Idle'
  BY <1>1, <1>2, <1>3 DEF IInv, Driving, Charging, Idle
<1>. QED BY <1>2, <1>4, <1>5 DEF IInv

-----------------------------------------------------------------------------
(* What a statement does to the positions. *)

LEMMA Appended ==
  ASSUME TypeOK, Dated, NEW point \in Point, point.date = now, point.drive \in DOMAIN drives \cup {None},
         positions' = Append(positions, point), UNCHANGED <<now, drives>>
  PROVE  /\ positions' \in Seq(Point) /\ Len(positions') = Len(positions) + 1
         /\ DOMAIN positions' = DOMAIN positions \cup {Len(positions) + 1}
         /\ Len(positions) + 1 \notin DOMAIN positions
         /\ \A p \in DOMAIN positions : positions'[p] = positions[p]
         /\ positions'[Len(positions) + 1] = point
         /\ \A p \in DOMAIN positions' : /\ positions'[p].date <= now'
                                         /\ positions'[p].drive \in DOMAIN drives' \cup {None}
         /\ \A p, q \in DOMAIN positions' : p <= q => positions'[p].date <= positions'[q].date
         /\ \A d : Attached(d)' = Attached(d) \cup {p \in {Len(positions) + 1} : point.drive = d}
<1>1. positions \in Seq(Point)
  BY DEF TypeOK
<1>2. /\ positions' \in Seq(Point) /\ Len(positions') = Len(positions) + 1
      /\ \A p \in 1..Len(positions) : positions'[p] = positions[p]
      /\ positions'[Len(positions) + 1] = point
  BY <1>1, AppendProperties
<1>3. Len(positions) \in Nat /\ DOMAIN positions = 1..Len(positions)
  BY PositionsType
<1>4. DOMAIN positions' = 1..Len(positions')
  BY <1>2, LenProperties
<1>5. DOMAIN positions' = DOMAIN positions \cup {Len(positions) + 1} /\ Len(positions) + 1 \notin DOMAIN positions
  BY <1>2, <1>3, <1>4
<1>6. \A p \in DOMAIN positions : positions[p].date \in 0..now /\ p <= Len(positions) /\ p \in Nat
  BY <1>3, PositionsType
<1>7. now \in Nat
  BY PositionsType
<1>8. \A p \in DOMAIN positions' : /\ positions'[p].date <= now'
                                   /\ positions'[p].drive \in DOMAIN drives' \cup {None}
  BY <1>2, <1>3, <1>5, <1>6, <1>7 DEF TypeOK
<1>9. ASSUME NEW p \in DOMAIN positions', NEW q \in DOMAIN positions', p <= q
      PROVE  positions'[p].date <= positions'[q].date
  <2>1. CASE q \in DOMAIN positions
    <3>1. p \in DOMAIN positions
      BY <1>3, <1>5, <1>6, <1>9, <2>1
    <3>. QED BY <1>2, <1>3, <1>9, <2>1, <3>1 DEF Dated
  <2>2. CASE q = Len(positions) + 1
    <3>1. positions'[q].date = now
      BY <1>2, <2>2
    <3>. QED BY <1>8, <3>1
  <2>. QED BY <1>5, <2>1, <2>2
<1>10. \A d : Attached(d)' = Attached(d) \cup {p \in {Len(positions) + 1} : point.drive = d}
  BY <1>2, <1>3, <1>5 DEF Attached
<1>. QED BY <1>2, <1>3, <1>5, <1>8, <1>9, <1>10

LEMMA Moved ==
  ASSUME TypeOK, Dated, NEW S, NEW d \in DOMAIN drives \cup {None},
         positions' = SetDrive(S, d), UNCHANGED <<now, drives>>
  PROVE  /\ positions' \in Seq(Point) /\ Len(positions') = Len(positions)
         /\ DOMAIN positions' = DOMAIN positions
         /\ \A p \in DOMAIN positions :
              /\ positions'[p].date = positions[p].date /\ positions'[p].range = positions[p].range
              /\ positions'[p].drive = IF p \in S THEN d ELSE positions[p].drive
         /\ \A p \in DOMAIN positions' : /\ positions'[p].date <= now'
                                         /\ positions'[p].drive \in DOMAIN drives' \cup {None}
         /\ \A p, q \in DOMAIN positions' : p <= q => positions'[p].date <= positions'[q].date
         /\ \A e : Attached(e)' = IF e = d THEN Attached(e) \cup (S \cap DOMAIN positions)
                                           ELSE Attached(e) \ S
<1>1. Len(positions) \in Nat /\ DOMAIN positions = 1..Len(positions) /\ positions \in Seq(Point)
      /\ \A p \in DOMAIN positions : positions[p] \in Point
  BY PositionsType DEF TypeOK
<1>2. d \in Id \cup {None}
  BY DEF TypeOK
<1>3. /\ DOMAIN positions' = DOMAIN positions
      /\ \A p \in DOMAIN positions :
           /\ positions'[p] = IF p \in S THEN [positions[p] EXCEPT !.drive = d] ELSE positions[p]
           /\ positions'[p] \in Point
  BY <1>1, <1>2 DEF SetDrive, Point
<1>4. \A p \in DOMAIN positions :
        /\ positions'[p].date = positions[p].date /\ positions'[p].range = positions[p].range
        /\ positions'[p].drive = IF p \in S THEN d ELSE positions[p].drive
  BY <1>1, <1>3 DEF Point
<1>5. positions' \in Seq(Point) /\ Len(positions') = Len(positions)
  <2>1. positions' \in [1..Len(positions) -> Point]
    <3>1. positions' = [p \in DOMAIN positions |-> positions'[p]]
      BY DEF SetDrive
    <3>. QED BY <1>1, <1>3, <3>1
  <2>. QED BY <1>1, <2>1
<1>6. \A p \in DOMAIN positions' : /\ positions'[p].date <= now'
                                   /\ positions'[p].drive \in DOMAIN drives' \cup {None}
  BY <1>3, <1>4 DEF TypeOK
<1>7. \A p, q \in DOMAIN positions' : p <= q => positions'[p].date <= positions'[q].date
  BY <1>3, <1>4 DEF Dated
<1>8. \A e : Attached(e)' = IF e = d THEN Attached(e) \cup (S \cap DOMAIN positions)
                                     ELSE Attached(e) \ S
  BY <1>3, <1>4 DEF Attached
<1>. QED BY <1>3, <1>4, <1>5, <1>6, <1>7, <1>8

\* The dates of a drive's points decide whether it is stale.
LEMMA SameStale ==
  ASSUME NEW d, UNCHANGED now, drives'[d].start_date = drives[d].start_date, Attached(d)' = Attached(d),
         \A p \in Attached(d) : positions'[p].date = positions[p].date
  PROVE  StaleDrive(d)' = StaleDrive(d)
<1>1. {positions'[p].date : p \in Attached(d)'} = {positions[p].date : p \in Attached(d)}
  OBVIOUS
<1>2. CASE Attached(d) = {}
  BY <1>2 DEF StaleDrive, Recent
<1>3. CASE Attached(d) # {}
  BY <1>1, <1>3 DEF StaleDrive, Recent
<1>. QED BY <1>2, <1>3

LEMMA TheDrive ==
  ASSUME Alone, NEW d \in OpenDrives
  PROVE  LatestDrive = d /\ OpenDrives = {d} /\ OpenCharges = {}
<1>1. OpenDrives = {d} /\ OpenCharges = {}
  BY DEF Alone
<1>. QED BY <1>1 DEF LatestDrive

LEMMA TheCharge ==
  ASSUME Alone, NEW c \in OpenCharges
  PROVE  LatestCharge = c /\ OpenCharges = {c} /\ OpenDrives = {}
<1>1. OpenCharges = {c} /\ OpenDrives = {}
  BY DEF Alone
<1>. QED BY <1>1 DEF LatestCharge

-----------------------------------------------------------------------------
(* The statements. *)

\* A statement of the list that closes nothing leads to the next one.
LEMMA Passed ==
  ASSUME TypeOK, Control, NEW op \in Ops \ Closers, Running(op), Then(<<>>)
  PROVE  /\ ~Closing /\ todo # <<>> /\ Left \in Nat
         /\ todo' \in Seq(Statement) /\ Control' /\ ~Closing' /\ Left' = Left - 1
         /\ UNCHANGED <<now, odometer, kind, stream, saw_driving>>
<1>1. ~Closing /\ todo # <<>>
  BY DEF Running, Closing
<1>2. UNCHANGED <<kind, stream, now, odometer, saw_driving>> /\ todo' = <<>> \o Tail(todo)
  BY DEF Then
<1>3. todo' \in Seq(Statement) /\ Control' /\ ~Closing' /\ Left' = Left - 1
  BY <1>1, <1>2, Onward
<1>. QED BY <1>1, <1>2, <1>3, RestType

LEMMA KeepingType == ASSUME TypeOK, Keeping PROVE pos' \in Nat
  BY DEF Keeping, TypeOK

LEMMA PersistSnapshotInv ==
  ASSUME IInv, NEW range \in Ranges, PersistSnapshot(range)
  PROVE  IInv'
<1>. DEFINE point == [date |-> now, odometer |-> odometer, range |-> range, drive |-> None]
<1>1. /\ Running("persist_snapshot") /\ Then(<<>>) /\ positions' = Append(positions, point)
      /\ UNCHANGED <<drives, processes>>
  BY DEF PersistSnapshot
<1>2. /\ ~Closing /\ todo # <<>> /\ Left \in Nat
      /\ todo' \in Seq(Statement) /\ Control' /\ ~Closing' /\ Left' = Left - 1
      /\ UNCHANGED <<now, odometer, kind, stream, saw_driving>>
  BY <1>1, Passed DEF IInv, Ops, Closers
<1>3. /\ kind = "Driving" => Left = 3
      /\ kind = "Charging" => Left = 6
      /\ kind = "Idle" => Left = 4
      /\ kind # None
  BY <1>1, <1>2, Turn DEF IInv, Running
<1>4. point \in Point /\ point.date = now /\ point.drive = None
  BY SessionsAssumption DEF Point, IInv, TypeOK
<1>. HIDE DEF point
<1>5. /\ positions' \in Seq(Point) /\ Len(positions') \in Nat
      /\ \A p \in DOMAIN positions' : /\ positions'[p].date <= now'
                                      /\ positions'[p].drive \in DOMAIN drives' \cup {None}
      /\ \A p, q \in DOMAIN positions' : p <= q => positions'[p].date <= positions'[q].date
      /\ \A p \in DOMAIN positions : positions'[p] = positions[p]
      /\ \A d : d # None => Attached(d)' = Attached(d)
  <2>1. /\ positions' \in Seq(Point)
        /\ \A p \in DOMAIN positions' : /\ positions'[p].date <= now'
                                        /\ positions'[p].drive \in DOMAIN drives' \cup {None}
        /\ \A p, q \in DOMAIN positions' : p <= q => positions'[p].date <= positions'[q].date
        /\ \A p \in DOMAIN positions : positions'[p] = positions[p]
        /\ \A d : Attached(d)' = Attached(d) \cup {p \in {Len(positions) + 1} : point.drive = d}
    BY <1>1, <1>2, <1>4, Appended DEF IInv
  <2>2. Len(positions') \in Nat
    BY <2>1, LenProperties
  <2>. QED BY <1>4, <2>1, <2>2
<1>6. TypeOK'
  <2>1. hourly' \in Nat /\ pos' \in Nat
    BY <1>5 DEF PersistSnapshot, IInv, TypeOK
  <2>. QED BY <1>1, <1>2, <1>5, <2>1 DEF IInv, TypeOK, Statement
<1>7. Dated'
  BY <1>1, <1>2, <1>5 DEF IInv, Dated
<1>8. OpenDrives' = OpenDrives /\ OpenCharges' = OpenCharges
  BY <1>1 DEF OpenDrives, OpenCharges
<1>9. Alone' /\ ChargesApart' /\ Closes'
  BY <1>1, <1>2, <1>8 DEF IInv, Alone, ChargesApart, Closes
<1>10. Driving'
  <2>1. \A d \in OpenDrives : StaleDrive(d)' = StaleDrive(d)
    <3>1. \A d \in OpenDrives : d # None
      BY SessionsAssumption DEF OpenDrives, IInv, TypeOK, Id
    <3>. QED BY <1>1, <1>2, <1>5, <3>1, SameStale DEF Attached
  <2>. QED BY <1>2, <1>3, <1>8, <2>1 DEF IInv, Driving
<1>11. Charging' /\ Idle'
  BY <1>2, <1>3 DEF Charging, Idle
<1>. QED BY <1>2, <1>6, <1>7, <1>9, <1>10, <1>11 DEF IInv

\* The positions stay, or some of them change their drive.
LEMMA AttachInv ==
  ASSUME IInv, NEW op \in {"attach_to_drive", "attach_recent_position"}, Running(op), Then(<<>>), Keeping,
         \/ positions' = positions
         \/ \E S : positions' = SetDrive(S, LatestDrive) /\ LatestDrive \in DOMAIN drives,
         UNCHANGED <<drives, processes, hourly>>
  PROVE  IInv'
<1>1. /\ ~Closing /\ todo # <<>> /\ Left \in Nat
      /\ todo' \in Seq(Statement) /\ Control' /\ ~Closing' /\ Left' = Left - 1
      /\ UNCHANGED <<now, odometer, kind, stream, saw_driving>>
  BY Passed DEF IInv, Ops, Closers
<1>2. /\ kind = "Driving" => Left = 1
      /\ kind = "Charging" => Left = 5
      /\ kind = "Idle" => Left = 3
      /\ kind # None
  BY <1>1, Turn DEF IInv, Running
<1>3. /\ positions' \in Seq(Point)
      /\ \A p \in DOMAIN positions' : /\ positions'[p].date <= now'
                                      /\ positions'[p].drive \in DOMAIN drives' \cup {None}
      /\ \A p, q \in DOMAIN positions' : p <= q => positions'[p].date <= positions'[q].date
  <2>1. CASE positions' = positions
    BY <1>1, <2>1 DEF IInv, TypeOK, Dated
  <2>2. ASSUME NEW S, positions' = SetDrive(S, LatestDrive), LatestDrive \in DOMAIN drives
        PROVE  <1>3!:
    BY <1>1, <2>2, Moved DEF IInv
  <2>. QED BY <2>1, <2>2
<1>4. TypeOK'
  BY <1>1, <1>3, KeepingType DEF IInv, TypeOK, Statement
<1>5. Dated'
  BY <1>1, <1>3 DEF IInv, Dated
<1>6. OpenDrives' = OpenDrives /\ OpenCharges' = OpenCharges
  BY DEF OpenDrives, OpenCharges
<1>7. Alone' /\ ChargesApart' /\ Closes'
  BY <1>1, <1>6 DEF IInv, Alone, ChargesApart, Closes
<1>8. Driving' /\ Charging' /\ Idle'
  BY <1>1, <1>2, <1>6 DEF IInv, Driving, Charging, Idle
<1>. QED BY <1>1, <1>4, <1>5, <1>7, <1>8 DEF IInv

LEMMA AttachToDriveInv == ASSUME IInv, AttachToDrive PROVE IInv'
<1>1. /\ Running("attach_to_drive") /\ Then(<<>>) /\ Keeping /\ positions' = SetDrive({pos}, LatestDrive)
      /\ UNCHANGED <<drives, processes, hourly>>
  BY DEF AttachToDrive
<1>2. kind = "Driving" /\ Left = 1 /\ ~Closing
  <2>1. ~Closing /\ todo # <<>>
    BY <1>1 DEF Running, Closing, Closers
  <2>. QED BY <1>1, <2>1, Turn DEF IInv, Running, TypeOK, Activity
<1>3. LatestDrive \in DOMAIN drives
  <2>1. OpenDrives # {}
    BY <1>2 DEF IInv, Driving
  <2>. QED BY <2>1, TheDrive DEF IInv, OpenDrives
<1>. QED BY <1>1, <1>3, AttachInv

LEMMA AttachRecentInv == ASSUME IInv, AttachRecentPosition PROVE IInv'
<1>1. /\ Running("attach_recent_position") /\ Then(<<>>) /\ Keeping
      /\ UNCHANGED <<drives, processes, hourly>>
  BY DEF AttachRecentPosition
<1>2. CASE OpenDrives = {}
  BY <1>1, <1>2, AttachInv DEF AttachRecentPosition
<1>3. CASE OpenDrives # {}
  <2>1. LatestDrive \in DOMAIN drives
    BY <1>3, TheDrive DEF IInv, OpenDrives
  <2>2. positions' = positions \/ \E S : positions' = SetDrive(S, LatestDrive)
    BY DEF AttachRecentPosition
  <2>. QED BY <1>1, <2>1, <2>2, AttachInv
<1>. QED BY <1>2, <1>3

LEMMA OpenDriveInv == ASSUME IInv, OpenDrive PROVE IInv'
<1>. DEFINE row == [start_date |-> now, end_date |-> None]
<1>1. /\ Running("open_drive") /\ Then(<<>>) /\ Keeping
      /\ UNCHANGED <<positions, processes, hourly>>
      /\ \/ OpenDrives # {} /\ UNCHANGED drives
         \/ OpenDrives = {} /\ drives' = With(drives, NextId(drives), row)
  BY DEF OpenDrive
<1>2. /\ ~Closing /\ todo # <<>> /\ Left \in Nat
      /\ todo' \in Seq(Statement) /\ Control' /\ ~Closing' /\ Left' = Left - 1
      /\ UNCHANGED <<now, odometer, kind, stream, saw_driving>>
  BY <1>1, Passed DEF IInv, Ops, Closers
<1>3. kind = "Driving" /\ Left = 2
  BY <1>1, <1>2, Turn DEF IInv, Running, TypeOK, Activity
<1>4. OpenCharges' = OpenCharges /\ OpenCharges = {} /\ \A d : Attached(d)' = Attached(d)
  BY <1>1, <1>2, <1>3 DEF IInv, Driving, OpenCharges, Attached
<1>5. pos' \in Nat /\ now \in Nat
  BY <1>1, KeepingType DEF IInv, TypeOK, Date
<1>6. Control' /\ Closes' /\ Charging' /\ Idle' /\ ChargesApart'
  BY <1>1, <1>2, <1>3 DEF IInv, Closes, Charging, Idle, ChargesApart
<1>7. CASE OpenDrives # {} /\ UNCHANGED drives
  <2>1. OpenDrives' = OpenDrives
    BY <1>7 DEF OpenDrives
  <2>2. TypeOK' /\ Dated'
    BY <1>1, <1>2, <1>5, <1>7 DEF IInv, TypeOK, Dated, Statement
  <2>3. Alone'
    BY <1>4, <2>1 DEF IInv, Alone
  <2>4. \A d : StaleDrive(d)' = StaleDrive(d)
    BY <1>1, <1>2, <1>4, <1>7, SameStale
  <2>5. Driving'
    BY <1>2, <1>3, <1>4, <1>7, <2>1, <2>4 DEF IInv, Driving
  <2>. QED BY <1>6, <2>2, <2>3, <2>5 DEF IInv
<1>8. CASE OpenDrives = {} /\ drives' = With(drives, NextId(drives), row)
  <2>1. PICK id \in Id : /\ id \notin DOMAIN drives /\ DOMAIN drives' = DOMAIN drives \cup {id} /\ drives'[id] = row
                         /\ \E m \in Nat : DOMAIN drives' \subseteq 0..m
                         /\ \A i \in DOMAIN drives : drives'[i] = drives[i]
    <3>1. TypeOK /\ Dated
      BY DEF IInv
    <3>. QED BY <1>8, <3>1, DriveOpened
  <2>2. drives'[id] \in Drive /\ drives'[id].end_date = None /\ drives'[id].start_date = now
    BY <1>5, <2>1 DEF Drive, Date
  <2>. HIDE DEF row
  <2>3. OpenDrives' = {id}
    BY <1>8, <2>1, <2>2 DEF OpenDrives
  <2>4. TypeOK'
    BY <1>1, <1>2, <1>5, <2>1, <2>2 DEF IInv, TypeOK, Statement
  <2>5. Dated'
    BY <1>1, <1>2, <2>1 DEF IInv, Dated
  <2>6. Alone'
    BY <1>4, <2>3 DEF Alone
  <2>7. Attached(id)' = {}
    <3>1. id # None
      BY <2>1, SessionsAssumption DEF Id
    <3>. QED BY <1>1, <2>1, <3>1 DEF Attached, IInv, TypeOK
  <2>8. ~StaleDrive(id)'
    BY <1>2, <1>5, <2>1, <2>2, <2>7, SessionsAssumption DEF StaleDrive, Recent
  <2>9. Driving'
    BY <1>2, <1>3, <1>4, <2>3, <2>8 DEF Driving
  <2>. QED BY <1>6, <2>4, <2>5, <2>6, <2>9 DEF IInv
<1>. QED BY <1>1, <1>7, <1>8

LEMMA OpenChargeInv == ASSUME IInv, OpenCharge PROVE IInv'
<1>. DEFINE row == [start_date |-> now, end_date |-> None, charges |-> {}]
<1>1. /\ Running("open_charge") /\ Then(<<>>) /\ Keeping
      /\ UNCHANGED <<positions, drives, hourly>>
      /\ \/ OpenCharges # {} /\ UNCHANGED processes
         \/ OpenCharges = {} /\ processes' = With(processes, NextId(processes), row)
  BY DEF OpenCharge
<1>2. /\ ~Closing /\ todo # <<>> /\ Left \in Nat
      /\ todo' \in Seq(Statement) /\ Control' /\ ~Closing' /\ Left' = Left - 1
      /\ UNCHANGED <<now, odometer, kind, stream, saw_driving>>
  BY <1>1, Passed DEF IInv, Ops, Closers
<1>3. kind = "Charging" /\ Left = 2
  BY <1>1, <1>2, Turn DEF IInv, Running, TypeOK, Activity
<1>4. OpenDrives' = OpenDrives /\ OpenDrives = {}
  BY <1>1, <1>2, <1>3 DEF IInv, Charging, OpenDrives
<1>5. pos' \in Nat /\ now \in Nat
  BY <1>1, KeepingType DEF IInv, TypeOK, Date
<1>6. Control' /\ Closes' /\ Driving' /\ Idle'
  BY <1>1, <1>2, <1>3 DEF IInv, Closes, Driving, Idle
<1>7. CASE OpenCharges # {} /\ UNCHANGED processes
  <2>1. OpenCharges' = OpenCharges /\ \A c : StaleCharge(c)' = StaleCharge(c)
    BY <1>2, <1>7 DEF OpenCharges, StaleCharge, Recent
  <2>2. TypeOK' /\ Dated'
    BY <1>1, <1>2, <1>5, <1>7 DEF IInv, TypeOK, Dated, Statement
  <2>3. Alone' /\ ChargesApart'
    BY <1>4, <1>7, <2>1 DEF IInv, Alone, ChargesApart
  <2>5. Charging'
    BY <1>2, <1>3, <1>4, <1>7, <2>1 DEF IInv, Charging
  <2>. QED BY <1>6, <2>2, <2>3, <2>5 DEF IInv
<1>8. CASE OpenCharges = {} /\ processes' = With(processes, NextId(processes), row)
  <2>1. PICK id \in Id : /\ id \notin DOMAIN processes /\ DOMAIN processes' = DOMAIN processes \cup {id} /\ processes'[id] = row
                         /\ \E m \in Nat : DOMAIN processes' \subseteq 0..m
                         /\ \A i \in DOMAIN processes : processes'[i] = processes[i]
    <3>1. TypeOK /\ Dated
      BY DEF IInv
    <3>. QED BY <1>8, <3>1, ChargeOpened
  <2>2. /\ processes'[id] \in Process /\ processes'[id].end_date = None
        /\ processes'[id].start_date = now /\ processes'[id].charges = {}
    BY <1>5, <2>1 DEF Process, Date
  <2>. HIDE DEF row
  <2>3. OpenCharges' = {id}
    BY <1>8, <2>1, <2>2 DEF OpenCharges
  <2>4. TypeOK'
    BY <1>1, <1>2, <1>5, <2>1, <2>2 DEF IInv, TypeOK, Statement
  <2>5. Dated'
    <3>1. \A c \in DOMAIN processes' : /\ processes'[c].charges \subseteq 0..now
                                      /\ processes'[c].start_date <= now
                                      /\ \A t \in processes'[c].charges : processes'[c].start_date <= t
      BY <1>5, <2>1, <2>2 DEF IInv, Dated
    <3>. QED BY <1>1, <1>2, <2>1, <3>1 DEF IInv, Dated
  <2>6. Alone'
    BY <1>4, <2>3 DEF Alone
  <2>7. ~StaleCharge(id)'
    BY <1>2, <1>5, <2>1, <2>2, SessionsAssumption DEF StaleCharge, Recent
  <2>8. Charging'
    BY <1>2, <1>3, <1>4, <2>3, <2>7 DEF Charging
  <2>9. ChargesApart'
    BY <2>1, <2>2 DEF IInv, ChargesApart, Unbroken
  <2>. QED BY <1>6, <2>4, <2>5, <2>6, <2>8, <2>9 DEF IInv
<1>. QED BY <1>1, <1>7, <1>8

\* A reading within the gap continues the readings of a charge.
LEMMA Continued ==
  ASSUME NEW t \in Nat, NEW dates, dates \subseteq 0..t, Unbroken(dates),
         dates = {} \/ t - Newest(dates) <= Gap
  PROVE  Unbroken(dates \cup {t})
<1>1. Newest(dates \cup {t}) = t
  <2>1. dates \cup {t} \subseteq 0..t /\ dates \cup {t} # {}
    OBVIOUS
  <2>2. Newest(dates \cup {t}) \in 0..t /\ t <= Newest(dates \cup {t})
    BY <2>1, NewestOf
  <2>. QED BY <2>2
<1>2. ASSUME NEW u \in dates PROVE u = t \/ \E w \in dates \cup {t} : w > u /\ w - u <= Gap
  <2>1. CASE u = Newest(dates)
    <3>1. u \in 0..t
      OBVIOUS
    <3>2. t - u <= Gap
      BY <2>1
    <3>. QED BY <3>1, <3>2
  <2>2. CASE u # Newest(dates)
    BY <2>2 DEF Unbroken
  <2>. QED BY <2>1, <2>2
<1>. QED BY <1>1, <1>2 DEF Unbroken

LEMMA InsertChargeInv == ASSUME IInv, InsertCharge PROVE IInv'
<1>1. /\ Running("insert_charge") /\ Then(<<>>) /\ Keeping
      /\ UNCHANGED <<positions, drives, hourly>>
      /\ processes' = [processes EXCEPT ![LatestCharge].charges = @ \cup {now}]
  BY DEF InsertCharge
<1>2. /\ ~Closing /\ todo # <<>> /\ Left \in Nat
      /\ todo' \in Seq(Statement) /\ Control' /\ ~Closing' /\ Left' = Left - 1
      /\ UNCHANGED <<now, odometer, kind, stream, saw_driving>>
  BY <1>1, Passed DEF IInv, Ops, Closers
<1>3. kind = "Charging" /\ Left = 1
  BY <1>1, <1>2, Turn DEF IInv, Running, TypeOK, Activity
<1>4. PICK c \in OpenCharges : ~StaleCharge(c)
  BY <1>2, <1>3 DEF IInv, Charging
<1>5. LatestCharge = c /\ OpenCharges = {c} /\ OpenDrives = {}
  BY TheCharge DEF IInv
<1>6. /\ c \in DOMAIN processes /\ processes[c] \in Process /\ now \in Nat
      /\ processes[c].charges \subseteq 0..now /\ Unbroken(processes[c].charges)
  BY DEF IInv, OpenCharges, TypeOK, Dated, ChargesApart, Date
<1>7. /\ DOMAIN processes' = DOMAIN processes
      /\ \A e \in DOMAIN processes \ {c} : processes'[e] = processes[e]
      /\ processes'[c] = [processes[c] EXCEPT !.charges = @ \cup {now}]
  BY <1>1, <1>5, <1>6
<1>8. /\ processes'[c].charges = processes[c].charges \cup {now} /\ processes'[c] \in Process
      /\ processes'[c].end_date = processes[c].end_date
      /\ processes'[c].start_date = processes[c].start_date
  BY <1>6, <1>7 DEF Process, Date
<1>9. OpenCharges' = OpenCharges /\ OpenDrives' = OpenDrives
  BY <1>1, <1>6, <1>7, <1>8 DEF OpenCharges, OpenDrives
<1>10. TypeOK'
  BY <1>1, <1>2, <1>7, <1>8, KeepingType DEF IInv, TypeOK, Statement
<1>11. Dated'
  BY <1>1, <1>2, <1>6, <1>7, <1>8 DEF IInv, Dated
<1>12. ChargesApart'
  <2>1. processes[c].charges = {} \/ now - Newest(processes[c].charges) <= Gap
    <3>1. SUFFICES ASSUME processes[c].charges # {} PROVE now - Newest(processes[c].charges) <= Gap
      OBVIOUS
    <3>2. Newest(processes[c].charges) >= now - Gap
      BY <1>4, <3>1 DEF StaleCharge, Recent
    <3>3. Newest(processes[c].charges) \in 0..now
      BY <1>6, <3>1, NewestOf
    <3>. QED BY <1>6, <3>2, <3>3, SessionsAssumption
  <2>2. Unbroken(processes'[c].charges)
    BY <1>6, <1>8, <2>1, Continued
  <2>. QED BY <1>7, <2>2 DEF IInv, ChargesApart
<1>13. Alone' /\ Closes'
  BY <1>2, <1>9 DEF IInv, Alone, Closes
<1>14. Driving' /\ Charging' /\ Idle'
  BY <1>2, <1>3, <1>5, <1>9 DEF Driving, Charging, Idle
<1>. QED BY <1>2, <1>10, <1>11, <1>12, <1>13, <1>14 DEF IInv

-----------------------------------------------------------------------------
(* Sessions are closed. *)

LEMMA EachOf ==
  ASSUME NEW op, NEW ids
  PROVE  Each(op, ids) = IF ids = {} THEN <<>> ELSE <<Stmt(op, ids)>>
  BY DEF Each

\* What the rows that are to be closed put in front of the list.
LEMMA Selected ==
  ASSUME IInv, SelectSessions
  PROVE  /\ \E op \in {"close_open_drives", "complete_open_charges", "close_stale_sessions"} : Running(op)
         /\ UNCHANGED <<positions, drives, processes, hourly, now, odometer, kind, stream, saw_driving>> /\ Keeping
         /\ \E front : /\ todo' = front \o Tail(todo)
                       /\ \/ /\ front = <<>>
                             /\ Running("close_open_drives") => OpenDrives = {}
                             /\ Running("complete_open_charges") => OpenCharges = {}
                             /\ Running("close_stale_sessions") =>
                                  /\ \A d \in OpenDrives : ~StaleDrive(d)
                                  /\ \A c \in OpenCharges : ~StaleCharge(c)
                          \/ \E d \in OpenDrives : front = <<Stmt("close_drive", {d})>>
                          \/ \E c \in OpenCharges : front = <<Stmt("complete_charge", {c})>>
<1>1. /\ UNCHANGED <<positions, drives, processes, hourly>> /\ Keeping
      /\ \E op \in {"close_open_drives", "complete_open_charges", "close_stale_sessions"} : Running(op)
  BY DEF SelectSessions, tables
<1>2. UNCHANGED <<now, odometer, kind, stream, saw_driving>>
  BY DEF SelectSessions, Then
<1>. DEFINE SD == {d \in OpenDrives : StaleDrive(d)}
            SC == {c \in OpenCharges : StaleCharge(c)}
<1>3. \A S \in SUBSET OpenDrives : S = {} \/ \E d \in OpenDrives : S = {d}
  BY DEF IInv, Alone
<1>4. \A S \in SUBSET OpenCharges : S = {} \/ \E c \in OpenCharges : S = {c}
  BY DEF IInv, Alone
<1>5. CASE Running("close_open_drives") /\ Then(Each("close_drive", OpenDrives))
  <2>1. todo' = Each("close_drive", OpenDrives) \o Tail(todo)
    BY <1>5 DEF Then
  <2>2. ~Running("complete_open_charges") /\ ~Running("close_stale_sessions")
    BY <1>5 DEF Running
  <2>3. OpenDrives = {} \/ \E d \in OpenDrives : OpenDrives = {d}
    BY <1>3
  <2>. QED BY <1>1, <1>2, <2>1, <2>2, <2>3, EachOf
<1>6. CASE Running("complete_open_charges") /\ Then(Each("complete_charge", OpenCharges))
  <2>1. todo' = Each("complete_charge", OpenCharges) \o Tail(todo)
    BY <1>6 DEF Then
  <2>2. ~Running("close_open_drives") /\ ~Running("close_stale_sessions")
    BY <1>6 DEF Running
  <2>3. OpenCharges = {} \/ \E c \in OpenCharges : OpenCharges = {c}
    BY <1>4
  <2>. QED BY <1>1, <1>2, <2>1, <2>2, <2>3, EachOf
<1>7. CASE Running("close_stale_sessions") /\ Then(Each("close_drive", SD) \o Each("complete_charge", SC))
  <2>1. todo' = (Each("close_drive", SD) \o Each("complete_charge", SC)) \o Tail(todo)
    BY <1>7 DEF Then
  <2>2. ~Running("close_open_drives") /\ ~Running("complete_open_charges")
    BY <1>7 DEF Running
  <2>3. /\ SD = {} \/ \E d \in OpenDrives : SD = {d}
        /\ SC = {} \/ \E c \in OpenCharges : SC = {c}
        /\ SD = {} \/ SC = {}
    <3>1. SD = {} \/ SC = {}
      BY DEF IInv, Alone
    <3>. QED BY <1>3, <1>4, <3>1
  <2>4. /\ SD = {} => \A d \in OpenDrives : ~StaleDrive(d)
        /\ SC = {} => \A c \in OpenCharges : ~StaleCharge(c)
    OBVIOUS
  <2>. HIDE DEF SD, SC
  <2>5. CASE SD = {} /\ SC = {}
    <3>1. Each("close_drive", SD) \o Each("complete_charge", SC) = <<>>
      BY <2>5, EachOf, ConcatEmptySeq, EmptySeq
    <3>. QED BY <1>1, <1>2, <2>1, <2>2, <2>4, <2>5, <3>1
  <2>6. ASSUME NEW d \in OpenDrives, SD = {d}, SC = {}
        PROVE  Each("close_drive", SD) \o Each("complete_charge", SC) = <<Stmt("close_drive", {d})>>
    <3>1. Each("close_drive", SD) = <<Stmt("close_drive", {d})>> /\ Each("complete_charge", SC) = <<>>
      BY <2>6, EachOf
    <3>2. <<Stmt("close_drive", {d})>> \in Seq({Stmt("close_drive", {d})})
      OBVIOUS
    <3>. QED BY <3>1, <3>2, ConcatEmptySeq
  <2>7. ASSUME NEW c \in OpenCharges, SC = {c}, SD = {}
        PROVE  Each("close_drive", SD) \o Each("complete_charge", SC) = <<Stmt("complete_charge", {c})>>
    <3>1. Each("complete_charge", SC) = <<Stmt("complete_charge", {c})>> /\ Each("close_drive", SD) = <<>>
      BY <2>7, EachOf
    <3>2. <<Stmt("complete_charge", {c})>> \in Seq({Stmt("complete_charge", {c})})
      OBVIOUS
    <3>. QED BY <3>1, <3>2, ConcatEmptySeq
  <2>8. CASE SD # {}
    BY <1>1, <1>2, <2>1, <2>3, <2>6, <2>8
  <2>9. CASE SC # {}
    BY <1>1, <1>2, <2>1, <2>3, <2>7, <2>9
  <2>. QED BY <2>5, <2>8, <2>9
<1>. QED BY <1>5, <1>6, <1>7 DEF SelectSessions

LEMMA SelectSessionsInv == ASSUME IInv, SelectSessions PROVE IInv'
<1>1. /\ \E op \in {"close_open_drives", "complete_open_charges", "close_stale_sessions"} : Running(op)
      /\ UNCHANGED <<positions, drives, processes, hourly, now, odometer, kind, stream, saw_driving>> /\ Keeping
  BY Selected
<1>2. PICK front :
        /\ todo' = front \o Tail(todo)
        /\ \/ /\ front = <<>>
              /\ Running("close_open_drives") => OpenDrives = {}
              /\ Running("complete_open_charges") => OpenCharges = {}
              /\ Running("close_stale_sessions") =>
                   /\ \A d \in OpenDrives : ~StaleDrive(d)
                   /\ \A c \in OpenCharges : ~StaleCharge(c)
           \/ \E d \in OpenDrives : front = <<Stmt("close_drive", {d})>>
           \/ \E c \in OpenCharges : front = <<Stmt("complete_charge", {c})>>
  BY Selected
<1>3. ~Closing /\ todo # <<>> /\ Left \in Nat
  BY <1>1, RestType DEF IInv, Running, Closing, Closers
<1>4. /\ \A d \in OpenDrives : {d} \in SUBSET Id
      /\ \A c \in OpenCharges : {c} \in SUBSET Id
  BY DEF IInv, TypeOK, OpenDrives, OpenCharges
<1>5. front = <<>> \/ \E op \in Closers, ids \in SUBSET Id : front = <<Stmt(op, ids)>>
  BY <1>2, <1>4 DEF Closers
<1>6. /\ todo' \in Seq(Statement) /\ Control' /\ Left' = Left - 1
      /\ Closing' <=> front # <<>>
      /\ front # <<>> => Head(todo)' = front[1]
  BY <1>1, <1>2, <1>3, <1>5, Onward DEF IInv
<1>7. /\ TypeOK' /\ Dated' /\ Alone' /\ ChargesApart'
      /\ OpenDrives' = OpenDrives /\ OpenCharges' = OpenCharges
      /\ \A d : StaleDrive(d)' = StaleDrive(d)
      /\ \A c : StaleCharge(c)' = StaleCharge(c)
  <2>1. /\ now' \in Nat /\ now <= now' /\ odometer' \in Nat /\ hourly' \in Nat /\ pos' \in Nat
        /\ kind' \in Activity \cup {None} /\ stream' \in BOOLEAN /\ saw_driving' \in BOOLEAN
    BY <1>1, KeepingType DEF IInv, TypeOK, Date
  <2>. QED BY <1>1, <1>6, <2>1, Quiet
<1>8. Closes'
  <2>1. CASE front = <<>>
    BY <1>6, <2>1 DEF Closes
  <2>2. CASE \E d \in OpenDrives : front = <<Stmt("close_drive", {d})>>
    BY <1>6, <1>7, <2>2 DEF Closes, Stmt
  <2>3. CASE \E c \in OpenCharges : front = <<Stmt("complete_charge", {c})>>
    BY <1>6, <1>7, <2>3 DEF Closes, Stmt
  <2>. QED BY <1>2, <2>1, <2>2, <2>3
<1>9. /\ kind = "Driving" => \/ Left = 5 /\ Running("complete_open_charges")
                             \/ Left = 4 /\ Running("close_stale_sessions")
      /\ kind = "Charging" => \/ Left = 4 /\ Running("close_open_drives")
                              \/ Left = 3 /\ Running("close_stale_sessions")
      /\ kind = "Idle" => \/ Left = 2 /\ Running("close_open_drives")
                          \/ Left = 1 /\ Running("complete_open_charges")
  BY <1>1, <1>3, Turn DEF IInv, Running
<1>9a. \/ Closing'
       \/ /\ Running("close_open_drives") => OpenDrives' = {}
          /\ Running("complete_open_charges") => OpenCharges' = {}
          /\ Running("close_stale_sessions") => /\ \A d \in OpenDrives' : ~StaleDrive(d)'
                                               /\ \A c \in OpenCharges' : ~StaleCharge(c)'
  <2>1. CASE front = <<>>
    <3>1. /\ Running("close_open_drives") => OpenDrives = {}
          /\ Running("complete_open_charges") => OpenCharges = {}
          /\ Running("close_stale_sessions") => /\ \A d \in OpenDrives : ~StaleDrive(d)
                                               /\ \A c \in OpenCharges : ~StaleCharge(c)
      <4>1. \A r : <<r>> # <<>>
        OBVIOUS
      <4>. QED BY <1>2, <2>1, <4>1, Zenon
    <3>. QED BY <1>7, <3>1
  <2>2. CASE front # <<>>
    BY <1>6, <2>2
  <2>. QED BY <2>1, <2>2
<1>10. Driving'
  <2>1. CASE kind = "Driving" /\ Left = 5
    <3>1. Left' = 4 /\ (Closing' \/ OpenCharges' = {})
      BY <1>6, <1>9, <1>9a, <2>1
    <3>. QED BY <3>1 DEF Driving
  <2>2. CASE kind = "Driving" /\ Left = 4
    <3>1. Left' = 3 /\ OpenCharges' = {}
      BY <1>3, <1>6, <1>7, <2>2 DEF IInv, Driving
    <3>2. Closing' \/ \A d \in OpenDrives' : ~StaleDrive(d)'
      BY <1>6, <1>9, <1>9a, <2>2
    <3>. QED BY <3>1, <3>2 DEF Driving
  <2>3. CASE kind # "Driving"
    BY <1>1, <2>3 DEF Driving
  <2>. QED BY <1>9, <2>1, <2>2, <2>3
<1>11. Charging'
  <2>1. CASE kind = "Charging" /\ Left = 4
    <3>1. Left' = 3 /\ (Closing' \/ OpenDrives' = {})
      BY <1>6, <1>9, <1>9a, <2>1
    <3>. QED BY <3>1 DEF Charging
  <2>2. CASE kind = "Charging" /\ Left = 3
    <3>1. Left' = 2 /\ OpenDrives' = {}
      BY <1>3, <1>6, <1>7, <2>2 DEF IInv, Charging
    <3>2. Closing' \/ \A c \in OpenCharges' : ~StaleCharge(c)'
      BY <1>6, <1>9, <1>9a, <2>2
    <3>. QED BY <3>1, <3>2 DEF Charging
  <2>3. CASE kind # "Charging"
    BY <1>1, <2>3 DEF Charging
  <2>. QED BY <1>9, <2>1, <2>2, <2>3
<1>12. Idle'
  <2>1. CASE kind = "Idle" /\ Left = 2
    <3>1. Left' = 1 /\ (Closing' \/ OpenDrives' = {})
      BY <1>6, <1>9, <1>9a, <2>1
    <3>. QED BY <3>1 DEF Idle
  <2>2. CASE kind = "Idle" /\ Left = 1
    <3>1. Left' = 0 /\ OpenDrives' = {}
      BY <1>3, <1>6, <1>7, <2>2 DEF IInv, Idle
    <3>2. Closing' \/ OpenCharges' = {}
      BY <1>6, <1>9, <1>9a, <2>2
    <3>. QED BY <3>1, <3>2 DEF Idle
  <2>3. CASE kind # "Idle"
    BY <1>1, <2>3 DEF Idle
  <2>. QED BY <1>9, <2>1, <2>2, <2>3
<1>. QED BY <1>6, <1>7, <1>8, <1>10, <1>11, <1>12 DEF IInv

\* Once the open session is closed, the list goes on with none open.
LEMMA Shut ==
  ASSUME IInv, Closing, ~Closing', Left' = Left, kind' = kind, OpenDrives' = {}, OpenCharges' = {}
  PROVE  Closes' /\ Alone' /\ Driving' /\ Charging' /\ Idle'
<1>1. Closes' /\ Alone'
  BY DEF Closes, Alone
<1>2. /\ kind = "Driving" => Left \in {3, 4}
      /\ kind = "Charging" => Left \in {2, 3}
      /\ kind = "Idle" => Left \in {0, 1}
  BY DEF IInv, Driving, Charging, Idle
<1>3. Driving'
  BY <1>2 DEF Driving
<1>4. Charging'
  BY <1>2 DEF Charging
<1>5. Idle'
  BY <1>2 DEF Idle
<1>. QED BY <1>1, <1>3, <1>4, <1>5

\* A statement that closes a session, and that nothing follows.
LEMMA Closed ==
  ASSUME IInv, NEW op \in Closers, Running(op), Then(<<>>)
  PROVE  /\ Closing /\ ~Closing' /\ Left' = Left /\ todo' \in Seq(Statement) /\ Control'
         /\ UNCHANGED <<now, odometer, kind, stream, saw_driving>>
<1>1. Closing /\ todo # <<>>
  BY DEF Running, Closing
<1>2. UNCHANGED <<now, odometer, kind, stream, saw_driving>> /\ todo' = <<>> \o Tail(todo)
  BY DEF Then
<1>. QED BY <1>1, <1>2, Onward DEF IInv

\* A drive leaves the table, or becomes one that has ended.
LEMMA DriveEnds ==
  ASSUME IInv, Closing, ~Closing', Left' = Left, todo' \in Seq(Statement), Control',
         UNCHANGED <<now, odometer, kind, stream, saw_driving, positions, processes, hourly>>, Keeping,
         NEW d \in OpenDrives,
         \/ drives' = Without(drives, d) /\ Attached(d) = {}
         \/ \E row \in Drive : row.end_date # None /\ drives' = [drives EXCEPT ![d] = row]
  PROVE  IInv'
<1>1. OpenDrives = {d} /\ OpenCharges = {} /\ d \in DOMAIN drives
  BY TheDrive DEF IInv, OpenDrives
<1>2. /\ DOMAIN drives' \subseteq DOMAIN drives
      /\ \A i \in DOMAIN drives' \ {d} : drives'[i] = drives[i]
      /\ d \in DOMAIN drives' => drives'[d] \in Drive /\ drives'[d].end_date # None
      /\ \A p \in DOMAIN positions : positions[p].drive \in DOMAIN drives' \cup {None}
  <2>1. CASE drives' = Without(drives, d) /\ Attached(d) = {}
    <3>1. DOMAIN drives' = DOMAIN drives \ {d} /\ \A i \in DOMAIN drives' : drives'[i] = drives[i]
      BY <2>1 DEF Without
    <3>. QED BY <2>1, <3>1 DEF Attached, IInv, TypeOK
  <2>2. ASSUME NEW row \in Drive, row.end_date # None, drives' = [drives EXCEPT ![d] = row]
        PROVE  <1>2!:
    BY <1>1, <2>2 DEF IInv, TypeOK
  <2>. QED BY <2>1, <2>2
<1>3. OpenDrives' = {} /\ OpenCharges' = {}
  <2>1. \A i \in DOMAIN drives \ {d} : drives[i].end_date # None
    BY <1>1 DEF OpenDrives
  <2>2. OpenDrives' = {}
    BY <1>2, <2>1 DEF OpenDrives
  <2>. QED BY <1>1, <2>2 DEF OpenCharges
<1>4. TypeOK'
  BY <1>2, KeepingType DEF IInv, TypeOK, Statement
<1>5. Dated'
  BY <1>2 DEF IInv, Dated
<1>6. ChargesApart'
  BY DEF IInv, ChargesApart
<1>. QED BY <1>3, <1>4, <1>5, <1>6, Shut DEF IInv

LEMMA DeleteDriveInv == ASSUME IInv, DeleteDrive PROVE IInv'
<1>1. /\ Running("delete_drive") /\ Then(<<>>) /\ Keeping /\ UNCHANGED <<positions, processes, hourly>>
      /\ \E d \in Head(todo).ids : drives' = Without(drives, d)
  BY DEF DeleteDrive
<1>2. /\ Closing /\ ~Closing' /\ Left' = Left /\ todo' \in Seq(Statement) /\ Control'
      /\ UNCHANGED <<now, odometer, kind, stream, saw_driving>>
  BY <1>1, Closed DEF Closers
<1>3. PICK d \in OpenDrives : Head(todo).ids = {d} /\ Attached(d) = {}
  BY <1>1, <1>2 DEF IInv, Closes, Running
<1>4. drives' = Without(drives, d)
  BY <1>1, <1>3
<1>. QED BY <1>1, <1>2, <1>3, <1>4, DriveEnds

LEMMA CompleteChargeInv == ASSUME IInv, CompleteCharge PROVE IInv'
<1>1. PICK c \in OpenCharges : Running("complete_charge") /\ Head(todo).ids = {c}
  BY DEF IInv, Closes, Closing, CompleteCharge, Running, Closers
<1>2. /\ Then(<<>>) /\ Keeping /\ UNCHANGED <<positions, drives, hourly>>
      /\ processes' = IF processes[c].charges = {} THEN Without(processes, c)
                      ELSE [processes EXCEPT ![c].end_date = Newest(processes[c].charges)]
  <2>1. Each("complete_charge", {c} \ {c}) = <<>>
    BY DEF Each
  <2>. QED BY <1>1, <2>1 DEF CompleteCharge
<1>3. /\ Closing /\ ~Closing' /\ Left' = Left /\ todo' \in Seq(Statement) /\ Control'
      /\ UNCHANGED <<now, odometer, kind, stream, saw_driving>>
  BY <1>1, <1>2, Closed DEF Closers
<1>4. OpenCharges = {c} /\ OpenDrives = {} /\ c \in DOMAIN processes
      /\ processes[c] \in Process /\ processes[c].charges \subseteq 0..now /\ now \in Nat
  BY TheCharge DEF IInv, OpenCharges, TypeOK, Dated, Date
<1>5. /\ DOMAIN processes' \subseteq DOMAIN processes
      /\ \A i \in DOMAIN processes' \ {c} : processes'[i] = processes[i]
      /\ c \in DOMAIN processes' => /\ processes'[c] \in Process /\ processes'[c].end_date # None
                                    /\ processes'[c].charges = processes[c].charges
                                    /\ processes'[c].start_date = processes[c].start_date
  <2>1. CASE processes[c].charges = {}
    BY <1>2, <2>1 DEF Without
  <2>2. CASE processes[c].charges # {}
    <3>1. Newest(processes[c].charges) \in Nat
      BY <1>4, <2>2, NewestOf
    <3>2. processes'[c] = [processes[c] EXCEPT !.end_date = Newest(processes[c].charges)]
      BY <1>2, <1>4, <2>2
    <3>. HIDE DEF Newest
    <3>3. /\ processes'[c] \in Process /\ processes'[c].end_date # None
          /\ processes'[c].charges = processes[c].charges
          /\ processes'[c].start_date = processes[c].start_date
      BY <1>4, <3>1, <3>2, SessionsAssumption DEF Process, Date
    <3>. QED BY <1>2, <2>2, <3>3
  <2>. QED BY <2>1, <2>2
<1>6. OpenCharges' = {} /\ OpenDrives' = {}
  <2>1. \A i \in DOMAIN processes \ {c} : processes[i].end_date # None
    BY <1>4 DEF OpenCharges
  <2>2. OpenCharges' = {}
    BY <1>5, <2>1 DEF OpenCharges
  <2>. QED BY <1>2, <1>4, <2>2 DEF OpenDrives
<1>7. TypeOK'
  BY <1>2, <1>3, <1>5, KeepingType DEF IInv, TypeOK, Statement
<1>8. Dated' /\ ChargesApart'
  BY <1>2, <1>3, <1>5 DEF IInv, Dated, ChargesApart
<1>. QED BY <1>3, <1>6, <1>7, <1>8, Shut DEF IInv

LEMMA CloseDriveInv == ASSUME IInv, CloseDrive PROVE IInv'
<1>1. PICK d \in OpenDrives : Running("close_drive") /\ Head(todo).ids = {d}
  BY DEF IInv, Closes, Closing, CloseDrive, Running, Closers
<1>2. Keeping /\ UNCHANGED <<processes, hourly>>
  BY DEF CloseDrive
<1>3. \/ /\ TooShort(d) /\ positions' = SetDrive(Attached(d), None)
         /\ Then(<<Stmt("delete_drive", {d})>> \o <<>>) /\ UNCHANGED drives
      \/ /\ ~TooShort(d) /\ Then(<<>>) /\ UNCHANGED positions
         /\ drives' = [drives EXCEPT ![d] = [start_date |-> positions[FirstOf(Attached(d))].date,
                                             end_date   |-> positions[LastOf(Attached(d))].date]]
  <2>1. Each("close_drive", {d} \ {d}) = <<>>
    BY DEF Each
  <2>. QED BY <1>1, <2>1 DEF CloseDrive
<1>4. Closing /\ todo # <<>> /\ d \in Id /\ d # None /\ d \in DOMAIN drives
  BY <1>1, SessionsAssumption DEF Running, Closing, Closers, OpenDrives, IInv, TypeOK, Id
<1>5. CASE /\ TooShort(d) /\ positions' = SetDrive(Attached(d), None)
           /\ Then(<<Stmt("delete_drive", {d})>> \o <<>>) /\ UNCHANGED drives
  <2>1. UNCHANGED <<now, odometer, kind, stream, saw_driving>>
    BY <1>5 DEF Then
  <2>2. PICK front : front = <<Stmt("delete_drive", {d})>> /\ todo' = front \o Tail(todo)
    <3>1. <<Stmt("delete_drive", {d})>> \in Seq({Stmt("delete_drive", {d})})
      OBVIOUS
    <3>. QED BY <1>5, <3>1, ConcatEmptySeq DEF Then
  <2>3. "delete_drive" \in Closers /\ {d} \in SUBSET Id
    BY <1>4 DEF Closers
  <2>4. /\ todo' \in Seq(Statement) /\ Control' /\ Left' = Left /\ Closing'
        /\ Head(todo)' = Stmt("delete_drive", {d})
    <3>1. \E op \in Closers, ids \in SUBSET Id : front = <<Stmt(op, ids)>>
      BY <2>2, <2>3
    <3>2. front # <<>> /\ front[1] = Stmt("delete_drive", {d})
      BY <2>2
    <3>3. /\ todo' \in Seq(Statement) /\ Control' /\ Left' = IF Closing THEN Left ELSE Left - 1
          /\ Closing' <=> front # <<>>
          /\ front # <<>> => Head(todo)' = front[1]
      BY <1>4, <2>1, <2>2, <3>1, Onward DEF IInv
    <3>. QED BY <1>4, <3>2, <3>3
  <2>5. /\ positions' \in Seq(Point) /\ DOMAIN positions' = DOMAIN positions
        /\ \A p \in DOMAIN positions' : /\ positions'[p].date <= now'
                                        /\ positions'[p].drive \in DOMAIN drives' \cup {None}
        /\ \A p, q \in DOMAIN positions' : p <= q => positions'[p].date <= positions'[q].date
        /\ \A e : e # None => Attached(e)' = Attached(e) \ Attached(d)
    BY <1>5, <2>1, Moved DEF IInv
  <2>6. OpenDrives' = OpenDrives /\ OpenCharges' = OpenCharges
    BY <1>2, <1>5 DEF OpenDrives, OpenCharges
  <2>7. TypeOK'
    BY <1>2, <1>5, <2>1, <2>4, <2>5, KeepingType DEF IInv, TypeOK, Statement
  <2>8. Dated'
    BY <1>2, <1>5, <2>1, <2>5 DEF IInv, Dated
  <2>9. Alone' /\ ChargesApart'
    BY <1>2, <2>6 DEF IInv, Alone, ChargesApart
  <2>10. Closes'
    <3>1. PICK e \in OpenDrives : e = d
      OBVIOUS
    <3>2. Attached(e)' = {}
      BY <1>4, <2>5, <3>1
    <3>3. Head(todo)'.op = "delete_drive" /\ Head(todo)'.ids = {e}
      BY <2>4, <3>1 DEF Stmt
    <3>. QED BY <2>6, <3>2, <3>3 DEF Closes
  <2>11. Driving' /\ Charging' /\ Idle'
    BY <1>4, <2>1, <2>4, <2>6 DEF IInv, Driving, Charging, Idle
  <2>. QED BY <2>4, <2>7, <2>8, <2>9, <2>10, <2>11 DEF IInv
<1>6. CASE /\ ~TooShort(d) /\ Then(<<>>) /\ UNCHANGED positions
           /\ drives' = [drives EXCEPT ![d] = [start_date |-> positions[FirstOf(Attached(d))].date,
                                               end_date   |-> positions[LastOf(Attached(d))].date]]
  <2>1. /\ Closing /\ ~Closing' /\ Left' = Left /\ todo' \in Seq(Statement) /\ Control'
        /\ UNCHANGED <<now, odometer, kind, stream, saw_driving>>
    BY <1>1, <1>6, Closed DEF Closers
  <2>2. Attached(d) # {}
    <3>1. Cardinality({}) = 0
      BY FS_EmptySet
    <3>2. Attached(d) = {} => Cardinality(Attached(d)) < 2
      BY <3>1
    <3>. QED BY <1>6, <3>2 DEF TooShort
  <2>3. FirstOf(Attached(d)) \in DOMAIN positions /\ LastOf(Attached(d)) \in DOMAIN positions
    <3>1. Attached(d) \subseteq DOMAIN positions
      BY DEF Attached
    <3>. QED BY <2>2, <3>1, FirstLast DEF IInv
  <2>4. positions[FirstOf(Attached(d))].date \in Nat /\ positions[LastOf(Attached(d))].date \in Nat
    BY <2>3, PositionsType DEF IInv
  <2>5. \E row \in Drive : row.end_date # None /\ drives' = [drives EXCEPT ![d] = row]
    BY <1>6, <2>4, SessionsAssumption DEF Drive, Date
  <2>. QED BY <1>2, <1>6, <2>1, <2>5, DriveEnds
<1>. QED BY <1>3, <1>5, <1>6

-----------------------------------------------------------------------------
(* The stream. *)

LEMMA StreamRowInv == ASSUME IInv, NEW moving \in BOOLEAN, StreamRow(moving) PROVE IInv'
<1>1. /\ stream /\ todo = <<>> /\ kind = None
      /\ UNCHANGED <<now, odometer, drives, processes, hourly, kind, pos>>
  BY DEF StreamRow, IInv, Control
<1>2. stream' \in BOOLEAN /\ saw_driving' \in BOOLEAN /\ (stream' => todo' = todo)
      /\ (~stream' => todo' = <<Run("close_open_drives")>>)
  BY Zenon DEF StreamRow, IInv, TypeOK
<1>3. todo' \in Seq(Statement) /\ Control' /\ Closes' /\ Driving' /\ Charging' /\ Idle'
  <2>1. kind' = None /\ (stream' => todo' = <<>>) /\ todo' \in {<<>>, Repair, <<Run("close_open_drives")>>}
    BY <1>1, <1>2
  <2>. QED BY <2>1, Dropped
<1>4. PICK d : /\ d = IF OpenDrives = {} THEN None ELSE Newest(OpenDrives)
               /\ \/ positions' = Append(positions, [date |-> now, odometer |-> odometer,
                                                      range |-> FALSE, drive |-> d])
                  \/ positions' = positions
  BY DEF StreamRow
<1>5. d \in DOMAIN drives \cup {None} /\ d \in Id \cup {None}
  <2>1. OpenDrives # {} => Newest(OpenDrives) \in OpenDrives
    <3>1. PICK n \in Nat : DOMAIN drives \subseteq 0..n
      BY DEF IInv, Dated
    <3>2. OpenDrives \subseteq 0..n
      BY <3>1 DEF OpenDrives
    <3>. QED BY <3>2, NewestOf
  <2>2. OpenDrives \subseteq DOMAIN drives /\ DOMAIN drives \subseteq Id
    BY DEF OpenDrives, IInv, TypeOK
  <2>. QED BY <1>4, <2>1, <2>2
<1>6. /\ positions' \in Seq(Point)
      /\ \A p \in DOMAIN positions' : /\ positions'[p].date <= now'
                                      /\ positions'[p].drive \in DOMAIN drives' \cup {None}
      /\ \A p, q \in DOMAIN positions' : p <= q => positions'[p].date <= positions'[q].date
  <2>1. CASE positions' = positions
    BY <1>1, <2>1 DEF IInv, TypeOK, Dated
  <2>2. ASSUME NEW point, point = [date |-> now, odometer |-> odometer, range |-> FALSE, drive |-> d],
               positions' = Append(positions, point)
        PROVE  <1>6!:
    <3>1. point \in Point /\ point.date = now /\ point.drive = d
      BY <1>5, <2>2 DEF IInv, TypeOK, Point
    <3>. QED BY <1>1, <1>5, <2>2, <3>1, Appended DEF IInv
  <2>. QED BY <1>4, <2>1, <2>2
<1>7. OpenDrives' = OpenDrives /\ OpenCharges' = OpenCharges
  BY <1>1 DEF OpenDrives, OpenCharges
<1>8. Alone' /\ ChargesApart'
  BY <1>1, <1>7 DEF IInv, Alone, ChargesApart
<1>9. TypeOK'
  BY <1>1, <1>2, <1>3, <1>6 DEF IInv, TypeOK, Statement
<1>10. Dated'
  BY <1>1, <1>6 DEF IInv, Dated
<1>. QED BY <1>3, <1>8, <1>9, <1>10 DEF IInv

-----------------------------------------------------------------------------
LEMMA InitInv == ASSUME Init PROVE IInv
<1>1. /\ now \in Nat /\ odometer = 1 /\ hourly = 0 /\ kind = None /\ todo = Repair /\ pos = 0
      /\ stream = FALSE /\ saw_driving = FALSE
  BY SessionsAssumption DEF Init
<1>2. /\ Run("close_open_drives") \in Statement /\ Run("complete_open_charges") \in Statement
      /\ Run("close_open_drives").op = "close_open_drives"
  BY RunType DEF Ops
<1>3. /\ todo \in Seq(Statement) /\ todo # <<>> /\ Head(todo).op = "close_open_drives" /\ Len(todo) = 2
      /\ todo[1] = Run("close_open_drives") /\ todo[2] = Run("complete_open_charges")
  <2>. HIDE DEF Statement
  <2>. QED BY <1>1, <1>2 DEF Repair
<1>4. ~Closing /\ Rest = todo /\ Left = 2
  BY <1>3 DEF Closing, Closers, Rest, Left
<1>5. Control /\ Closes /\ Driving /\ Charging /\ Idle
  <2>1. \A a \in Activity : kind # a
    BY <1>1, SessionsAssumption DEF Activity
  <2>2. Repairs
    <3>1. \A i \in 1..2 : i = 1 \/ i = 2
      OBVIOUS
    <3>. QED BY <1>3, <1>4, <3>1 DEF Repairs
  <2>3. Control
    BY <1>1, <2>1, <2>2 DEF Control
  <2>4. Closes /\ Driving /\ Charging /\ Idle
    BY <1>4, <2>1 DEF Closes, Driving, Charging, Idle, Activity
  <2>. QED BY <2>3, <2>4
<1>6. \A d \in {1, None} : /\ Rows(d) \in Seq(Point) /\ DOMAIN Rows(d) = 1..2
                           /\ \A p \in 1..2 : Rows(d)[p].date = 0 /\ Rows(d)[p].drive = d
  <2>1. ASSUME NEW d \in {1, None}
        PROVE  /\ Rows(d) \in Seq(Point) /\ DOMAIN Rows(d) = 1..2
               /\ \A p \in 1..2 : Rows(d)[p].date = 0 /\ Rows(d)[p].drive = d
    <3>1. PICK a, b : /\ a = [date |-> 0, odometer |-> 0, range |-> FALSE, drive |-> d]
                      /\ b = [date |-> 0, odometer |-> 1, range |-> FALSE, drive |-> d]
      OBVIOUS
    <3>2. a \in Point /\ b \in Point /\ a.date = 0 /\ b.date = 0 /\ a.drive = d /\ b.drive = d
      BY <3>1 DEF Point, Date, Id
    <3>3. Rows(d) = <<a, b>>
      BY <3>1 DEF Rows
    <3>. HIDE DEF Rows
    <3>4. Rows(d) \in Seq(Point) /\ Len(Rows(d)) = 2 /\ Rows(d)[1] = a /\ Rows(d)[2] = b
      BY <3>2, <3>3
    <3>5. DOMAIN Rows(d) = 1..2
      BY <3>4, LenProperties
    <3>6. \A p \in 1..2 : p = 1 \/ p = 2
      OBVIOUS
    <3>. QED BY <3>2, <3>4, <3>5, <3>6
  <2>. QED BY <2>1
<1>7. /\ positions \in Seq(Point) /\ DOMAIN positions \subseteq 1..2
      /\ DOMAIN drives \subseteq {1} /\ DOMAIN processes \subseteq {1}
      /\ DOMAIN drives = {} \/ DOMAIN processes = {}
      /\ \A p \in DOMAIN positions : positions[p].date = 0 /\ positions[p].drive \in DOMAIN drives \cup {None}
      /\ \A d \in DOMAIN drives : drives[d] = [start_date |-> 0, end_date |-> None]
      /\ \A c \in DOMAIN processes : processes[c] = [start_date |-> 0, end_date |-> None, charges |-> {0}]
  <2>1. CASE positions = <<>> /\ drives = <<>> /\ processes = <<>>
    BY <2>1
  <2>2. CASE /\ positions = Rows(1) /\ processes = <<>>
             /\ drives = [d \in {1} |-> [start_date |-> 0, end_date |-> None]]
    <3>1. DOMAIN drives = {1} /\ drives[1] = [start_date |-> 0, end_date |-> None]
      BY <2>2
    <3>. QED BY <1>6, <2>2, <3>1
  <2>3. CASE /\ positions = Rows(None) /\ drives = <<>>
             /\ processes = [c \in {1} |-> [start_date |-> 0, end_date |-> None, charges |-> {0}]]
    <3>1. DOMAIN processes = {1} /\ processes[1] = [start_date |-> 0, end_date |-> None, charges |-> {0}]
      BY <2>3
    <3>. QED BY <1>6, <2>3, <3>1
  <2>. QED BY <2>1, <2>2, <2>3 DEF Init
<1>8. TypeOK
  <2>1. \A d \in DOMAIN drives : d \in Id /\ drives[d] \in Drive
    BY <1>7 DEF Id, Drive, Date
  <2>2. \A c \in DOMAIN processes : c \in Id /\ processes[c] \in Process
    BY <1>7 DEF Id, Process, Date
  <2>3. \A p \in DOMAIN positions : positions[p].date <= now
    BY <1>1, <1>7
  <2>. QED BY <1>1, <1>3, <1>7, <2>1, <2>2, <2>3 DEF TypeOK, Date, Statement
<1>9. Dated
  <2>1. DOMAIN drives \subseteq 0..1 /\ DOMAIN processes \subseteq 0..1
    BY <1>7
  <2>2. \A c \in DOMAIN processes : processes[c].charges \subseteq 0..now
    BY <1>1, <1>7
  <2>. QED BY <1>7, <2>1, <2>2 DEF Dated
<1>10. Alone
  BY <1>7 DEF Alone, OpenDrives, OpenCharges
<1>11. ChargesApart
  <2>1. \A c \in DOMAIN processes : processes[c].charges = {0}
    BY <1>7
  <2>2. Unbroken({0})
    BY DEF Unbroken, Newest
  <2>. QED BY <2>1, <2>2 DEF ChargesApart
<1>. QED BY <1>5, <1>8, <1>9, <1>10, <1>11 DEF IInv

LEMMA StepInv == ASSUME IInv, [Next]_vars PROVE IInv'
<1>1. CASE Next
  <2>1. ASSUME NEW activity \in Activity, Ingest(activity) PROVE IInv'
    BY <2>1, IngestInv
  <2>2. ASSUME NEW range \in Ranges, PersistSnapshot(range) PROVE IInv'
    BY <2>2, PersistSnapshotInv
  <2>3. CASE OpenDrive
    BY <2>3, OpenDriveInv
  <2>4. CASE AttachToDrive
    BY <2>4, AttachToDriveInv
  <2>5. CASE AttachRecentPosition
    BY <2>5, AttachRecentInv
  <2>6. CASE OpenCharge
    BY <2>6, OpenChargeInv
  <2>7. CASE InsertCharge
    BY <2>7, InsertChargeInv
  <2>8. CASE SelectSessions
    BY <2>8, SelectSessionsInv
  <2>9. CASE CloseDrive
    BY <2>9, CloseDriveInv
  <2>10. CASE DeleteDrive
    BY <2>10, DeleteDriveInv
  <2>11. CASE CompleteCharge
    BY <2>11, CompleteChargeInv
  <2>12. ASSUME NEW moving \in BOOLEAN, StreamRow(moving) PROVE IInv'
    BY <2>12, StreamRowInv
  <2>13. CASE StreamOpens \/ StreamEnds \/ Fails \/ Restart
    BY <2>13, DropsInv
  <2>14. CASE Tick
    BY <2>14, TickInv
  <2>. QED BY <1>1, <2>1, <2>2, <2>3, <2>4, <2>5, <2>6, <2>7, <2>8, <2>9, <2>10, <2>11, <2>12, <2>13, <2>14
           DEF Next
<1>2. CASE UNCHANGED vars
  <2>1. UNCHANGED <<now, odometer, positions, drives, processes, hourly, kind, todo, pos, stream, saw_driving>>
    BY <1>2 DEF vars, tables
  <2>2. /\ now' \in Nat /\ now <= now' /\ odometer' \in Nat /\ hourly' \in Nat /\ pos' \in Nat
        /\ kind' \in Activity \cup {None} /\ todo' \in Seq(Statement)
        /\ stream' \in BOOLEAN /\ saw_driving' \in BOOLEAN
    BY <2>1 DEF IInv, TypeOK, Date, Statement
  <2>3. /\ TypeOK' /\ Dated' /\ Alone' /\ ChargesApart'
        /\ OpenDrives' = OpenDrives /\ OpenCharges' = OpenCharges
        /\ \A d : Attached(d)' = Attached(d)
        /\ \A d : StaleDrive(d)' = StaleDrive(d)
        /\ \A c : StaleCharge(c)' = StaleCharge(c)
    BY <2>1, <2>2, Quiet
  <2>4. (Closing' <=> Closing) /\ Rest' = Rest /\ Left' = Left
    BY <2>1 DEF Closing, Rest, Left
  <2>5. Control' /\ Closes'
    BY <2>1, <2>3, <2>4 DEF IInv, Control, Repairs, Closes
  <2>6. Driving' /\ Charging' /\ Idle'
    BY <2>1, <2>3, <2>4 DEF IInv, Driving, Charging, Idle
  <2>. QED BY <2>3, <2>5, <2>6 DEF IInv
<1>. QED BY <1>1, <1>2

LEMMA Invariant == Spec => []IInv
<1>1. Init => IInv
  BY InitInv
<1>2. IInv /\ [Next]_vars => IInv'
  BY StepInv
<1>. QED BY <1>1, <1>2, PTL DEF Spec

-----------------------------------------------------------------------------
(* The theorems that hold of every reading. *)

\* What the logger keeps of a car has its type: in particular a point that
\* names a drive names one that exists, and no point is of a later time.
THEOREM SessionsTypeCorrect == Spec => []TypeOK
<1>1. IInv => TypeOK
  BY DEF IInv
<1>. QED BY <1>1, Invariant, PTL

LEMMA AloneCounted ==
  ASSUME Alone
  PROVE  /\ OpenDrives # {} => Cardinality(OpenDrives) = 1 /\ OpenCharges = {}
         /\ OpenCharges # {} => Cardinality(OpenCharges) = 1 /\ OpenDrives = {}
         /\ Cardinality({}) = 0
<1>1. OpenDrives # {} => (\E d : OpenDrives = {d}) /\ OpenCharges = {}
  BY DEF Alone
<1>2. OpenCharges # {} => (\E c : OpenCharges = {c}) /\ OpenDrives = {}
  BY DEF Alone
<1>. QED BY <1>1, <1>2, FS_EmptySet, FS_Singleton

\* When the last statement of a reading has run, the session that the reading
\* shows is the only one open, whatever was open before (src/logger.rs,
\* persist_drive_tick, persist_charge_tick, finish_idle).
THEOREM ReadingsSettle == Spec => []Settled
<1>1. IInv => Settled
  <2>1. SUFFICES ASSUME IInv, todo = <<>>, kind # None
                 PROVE  /\ Cardinality(OpenDrives) = IF kind = "Driving" THEN 1 ELSE 0
                        /\ Cardinality(OpenCharges) = IF kind = "Charging" THEN 1 ELSE 0
    BY DEF Settled
  <2>2. ~Closing /\ Left = 0
    BY <2>1, RestType DEF IInv
  <2>3. \/ kind = "Driving"  /\ OpenDrives # {} /\ OpenCharges = {}
        \/ kind = "Charging" /\ OpenCharges # {} /\ OpenDrives = {}
        \/ kind = "Idle"     /\ OpenDrives = {} /\ OpenCharges = {}
    BY <2>1, <2>2 DEF IInv, TypeOK, Activity, Driving, Charging, Idle
  <2>. QED BY <2>1, <2>3, AloneCounted DEF IInv
<1>. QED BY <1>1, Invariant, PTL

\* The readings of one charging process follow each other within the gap,
\* also when the process died or a statement failed on the way: an open charge
\* that is too old is completed before a reading is added (close_stale_sessions,
\* insert_charge).
THEOREM ChargesStayApart == Spec => []ChargesApart
<1>1. IInv => ChargesApart
  BY DEF IInv
<1>. QED BY <1>1, Invariant, PTL

\* attach_to_drive puts a reading on a drive with points only while the last of
\* them is within the gap.
THEOREM ReadingsJoin == Spec => ReadingsJoinRecent
<1>. DEFINE Joins == \A d \in OpenDrives :
                       Running("attach_to_drive") /\ Attached(d)' # Attached(d) /\ Attached(d) # {}
                         => Recent(Newest({positions[p].date : p \in Attached(d)}))
<1>1. IInv => Joins
  <2>1. SUFFICES ASSUME IInv, Running("attach_to_drive"), NEW d \in OpenDrives, Attached(d) # {}
                 PROVE  Recent(Newest({positions[p].date : p \in Attached(d)}))
    OBVIOUS
  <2>2. ~Closing /\ todo # <<>>
    BY <2>1 DEF Running, Closing, Closers
  <2>3. kind = "Driving" /\ Left = 1
    BY <2>1, <2>2, Turn DEF IInv, Running, TypeOK, Activity
  <2>4. ~StaleDrive(d)
    BY <2>1, <2>2, <2>3 DEF IInv, Driving
  <2>. QED BY <2>1, <2>4 DEF StaleDrive
<1>2. IInv => [Joins]_vars
  BY <1>1
<1>. HIDE DEF Joins
<1>3. Spec => [][Joins]_vars
  BY <1>2, Invariant, PTL
<1>. QED BY <1>3 DEF ReadingsJoinRecent, Joins

-----------------------------------------------------------------------------
(* Sessions in time. *)

\* A drive that has ended is left as it is.
Final == \A d \in DOMAIN drives \ OpenDrives :
           d \in DOMAIN drives' /\ drives'[d] = drives[d] /\ Attached(d)' = Attached(d)

LEMMA LastEnds ==
  ASSUME TypeOK, Later
  PROVE  /\ now \in Nat /\ Ended \subseteq 0..now
         /\ \A a \in Spans : a[4] \in Ended
<1>1. now \in Nat
  BY DEF TypeOK, Date
<1>2. ASSUME NEW d \in DOMAIN drives \ OpenDrives PROVE drives[d].end_date \in 0..now
  <2>1. drives[d] \in Drive /\ drives[d].end_date # None
    BY DEF TypeOK, OpenDrives
  <2>2. drives[d].end_date \in Nat
    BY <2>1 DEF Drive, Date
  <2>. QED BY <1>1, <2>2 DEF Later
<1>3. ASSUME NEW c \in DOMAIN processes \ OpenCharges PROVE processes[c].end_date \in 0..now
  <2>1. processes[c] \in Process /\ processes[c].end_date # None
    BY DEF TypeOK, OpenCharges
  <2>2. processes[c].end_date \in Nat
    BY <2>1 DEF Process, Date
  <2>. QED BY <1>1, <2>2 DEF Later
<1>4. \A a \in Spans : a[4] \in Ended
  BY DEF Spans, Ended
<1>. QED BY <1>1, <1>2, <1>3, <1>4 DEF Ended

\* No session ends; points and readings that are added are of now.
LEMMA Kept ==
  ASSUME TypeOK, TypeOK', Later, NoOverlap, now <= now',
         DOMAIN drives' \ OpenDrives' = DOMAIN drives \ OpenDrives,
         \A d \in DOMAIN drives \ OpenDrives : drives'[d] = drives[d],
         DOMAIN processes' \ OpenCharges' = DOMAIN processes \ OpenCharges,
         \A c \in DOMAIN processes \ OpenCharges : processes'[c] = processes[c],
         \A d \in OpenDrives' : \A p \in Attached(d)' :
           \/ positions'[p].date = now
           \/ d \in OpenDrives /\ p \in Attached(d) /\ positions'[p].date = positions[p].date,
         \A c \in OpenCharges' :
           \/ processes'[c].start_date = now
           \/ c \in OpenCharges /\ processes'[c].start_date = processes[c].start_date
  PROVE  Later' /\ NoOverlap'
<1>1. Ended' = Ended /\ Spans' = Spans
  <2>1. Ended' = Ended
    BY DEF Ended
  <2>2. Spans' = Spans
    BY DEF Spans
  <2>. QED BY <2>1, <2>2
<1>2. NoOverlap'
  BY <1>1 DEF NoOverlap
<1>3. /\ now \in Nat /\ now' \in Nat /\ Ended \subseteq 0..now
  BY LastEnds DEF TypeOK, Date
<1>4. /\ \A d \in DOMAIN drives' \ OpenDrives' :
           drives'[d].start_date <= drives'[d].end_date /\ drives'[d].end_date <= now'
      /\ \A c \in DOMAIN processes' \ OpenCharges' :
           processes'[c].start_date <= processes'[c].end_date /\ processes'[c].end_date <= now'
  <2>1. \A d \in DOMAIN drives \ OpenDrives : drives[d].end_date \in 0..now
    BY <1>3 DEF Ended
  <2>2. \A c \in DOMAIN processes \ OpenCharges : processes[c].end_date \in 0..now
    BY <1>3 DEF Ended
  <2>. QED BY <1>3, <2>1, <2>2 DEF Later
<1>5. ASSUME NEW e \in Ended
      PROVE  /\ \A d \in OpenDrives' : \A p \in Attached(d)' : e <= positions'[p].date
             /\ \A c \in OpenCharges' : e <= processes'[c].start_date
  <2>1. e <= now
    BY <1>3
  <2>. QED BY <2>1 DEF Later
<1>. QED BY <1>1, <1>2, <1>4, <1>5 DEF Later

\* One session ends, later than those that have ended before.
LEMMA NewSpan ==
  ASSUME TypeOK, Later, NoOverlap, NEW s,
         Spans' \subseteq Spans \cup {s}, \A e \in Ended : e <= s[3]
  PROVE  NoOverlap'
<1>1. \A a \in Spans : a[4] <= s[3]
  BY LastEnds
<1>. QED BY <1>1 DEF NoOverlap

\* The row that pos_id names stays the last one.
LEMMA SameName ==
  ASSUME TypeOK, Named, now' = now, Len(positions') = Len(positions), DOMAIN positions' = DOMAIN positions,
         \A p \in DOMAIN positions : positions'[p].date = positions[p].date,
         pos' \in {0, pos}, todo' = <<>> => pos' = 0,
         kind' = "Driving" /\ Left' \in 1..2 => pos' # 0 /\ positions'[pos].drive = None
  PROVE  Named'
<1>1. PICK n \in Nat : pos \in {0, n} /\ DOMAIN positions = 1..n
  BY PositionsType DEF Named
<1>2. pos # 0 => pos \in DOMAIN positions
  <2>1. pos # 0 => pos \in 1..n
    BY <1>1
  <2>. QED BY <1>1, <2>1
<1>. QED BY <1>2 DEF Named

LEMMA NoneLeft == todo' = <<>> => Left' = 0
  BY DEF Left, Rest, Closing

\* The tables stay.
LEMMA TablesKept ==
  ASSUME IInv, TypeOK', Later, NoOverlap, now <= now', UNCHANGED <<positions, drives, processes>>
  PROVE  Later' /\ NoOverlap' /\ Final
<1>1. OpenDrives' = OpenDrives /\ OpenCharges' = OpenCharges /\ \A d : Attached(d)' = Attached(d)
  BY DEF OpenDrives, OpenCharges, Attached
<1>2. Later' /\ NoOverlap'
  BY <1>1, Kept DEF IInv
<1>. QED BY <1>1, <1>2 DEF Final

LEMMA IngestKeeps ==
  ASSUME IInv, IInv', RInv, NEW activity \in Activity, Ingest(activity)
  PROVE  RInv' /\ Final
<1>1. /\ todo = <<>> /\ kind' = activity /\ todo' = Statements(activity) /\ now \in Nat
      /\ UNCHANGED <<now, odometer, positions, drives, processes, hourly, pos, stream, saw_driving>>
  BY DEF Ingest, tables, IInv, TypeOK, Date
<1>2. Later' /\ NoOverlap' /\ Final
  BY <1>1, TablesKept DEF IInv, RInv
<1>3. (activity = "Driving" => Left' = 5) /\ (activity = "Driving" => todo' # <<>>)
  BY <1>1, Begun, NoneLeft
<1>4. Named'
  <2>1. pos = 0
    BY <1>1 DEF RInv, Named
  <2>. QED BY <1>1, <1>3, <2>1, SameName DEF IInv, RInv
<1>5. PointOnDrive'
  BY <1>1, <1>3 DEF PointOnDrive
<1>. QED BY <1>2, <1>4, <1>5 DEF RInv

LEMMA DropsKeep ==
  ASSUME IInv, IInv', RInv, StreamOpens \/ StreamEnds \/ Fails \/ Restart
  PROVE  RInv' /\ Final
<1>1. now' = now /\ UNCHANGED <<positions, drives, processes>> /\ now \in Nat /\ kind' = None
  BY DEF StreamOpens, StreamEnds, Fails, Restart, tables, IInv, TypeOK, Date, Control
<1>2. kind' # "Driving"
  BY <1>1, SessionsAssumption
<1>3. pos' = 0
  BY DEF StreamOpens, StreamEnds, Fails, Restart, tables, IInv, Control, RInv, Named
<1>4. Later' /\ NoOverlap' /\ Final
  BY <1>1, TablesKept DEF IInv, RInv
<1>5. Named' /\ PointOnDrive'
  <2>1. Named'
    BY <1>1, <1>2, <1>3, SameName DEF IInv, RInv
  <2>. QED BY <1>2, <2>1 DEF PointOnDrive
<1>. QED BY <1>4, <1>5 DEF RInv

LEMMA TickKeeps ==
  ASSUME IInv, IInv', RInv, Tick
  PROVE  RInv' /\ Final
<1>1. /\ todo = <<>> /\ todo' = <<>> /\ now' = now + 1 /\ now \in Nat
      /\ UNCHANGED <<positions, drives, processes, kind, pos, stream>>
  BY DEF Tick, tables, IInv, TypeOK, Date
<1>2. now <= now'
  BY <1>1
<1>3. Later' /\ NoOverlap' /\ Final
  BY <1>1, <1>2, TablesKept DEF IInv, RInv
<1>4. Left' = 0 /\ pos = 0
  BY <1>1, NoneLeft DEF RInv, Named
<1>5. Named'
  BY <1>1, <1>4 DEF RInv, Named
<1>6. PointOnDrive'
  BY <1>1 DEF RInv, PointOnDrive, OpenDrives
<1>. QED BY <1>3, <1>5, <1>6 DEF RInv

LEMMA SelectKeeps ==
  ASSUME IInv, IInv', RInv, SelectSessions
  PROVE  RInv' /\ Final
<1>1. /\ \E op \in {"close_open_drives", "complete_open_charges", "close_stale_sessions"} : Running(op)
      /\ UNCHANGED <<positions, drives, processes, hourly, now, odometer, kind, stream, saw_driving>> /\ Keeping
  BY Selected
<1>2. PICK front : /\ todo' = front \o Tail(todo)
                   /\ \/ front = <<>>
                      \/ \E d \in OpenDrives : front = <<Stmt("close_drive", {d})>>
                      \/ \E c \in OpenCharges : front = <<Stmt("complete_charge", {c})>>
  BY Selected
<1>3. ~Closing /\ todo # <<>> /\ Left \in Nat
  BY <1>1, RestType DEF IInv, Running, Closing, Closers
<1>4. front = <<>> \/ \E op \in Closers, ids \in SUBSET Id : front = <<Stmt(op, ids)>>
  <2>1. /\ \A d \in OpenDrives : {d} \in SUBSET Id
        /\ \A c \in OpenCharges : {c} \in SUBSET Id
    BY DEF IInv, TypeOK, OpenDrives, OpenCharges
  <2>. QED BY <1>2, <2>1 DEF Closers
<1>5. Left' = Left - 1
  BY <1>1, <1>2, <1>3, <1>4, Onward DEF IInv
<1>6. kind = "Driving" => Left = 5 \/ Left = 4
  BY <1>1, <1>3, Turn DEF IInv, Running
<1>7. kind' = "Driving" => Left' \in {3, 4} /\ todo' # <<>>
  BY <1>1, <1>5, <1>6, NoneLeft
<1>8. Later' /\ NoOverlap' /\ Final
  <2>1. now \in Nat
    BY DEF IInv, TypeOK, Date
  <2>. QED BY <1>1, <2>1, TablesKept DEF IInv, RInv
<1>9. Named'
  <2>1. pos' \in {0, pos} /\ (todo' = <<>> => pos' = 0)
    BY <1>1 DEF Keeping
  <2>2. ~(kind' = "Driving" /\ Left' \in 1..2)
    BY <1>7
  <2>. QED BY <1>1, <2>1, <2>2, SameName DEF IInv, RInv
<1>10. PointOnDrive'
  BY <1>7 DEF PointOnDrive
<1>. QED BY <1>8, <1>9, <1>10 DEF RInv

\* No drive has the id None.
LEMMA DriveIds == ASSUME TypeOK PROVE \A d \in DOMAIN drives : d # None
  BY SessionsAssumption DEF TypeOK, Id

LEMMA PersistKeeps ==
  ASSUME IInv, IInv', RInv, NEW range \in Ranges, RowNamed, PersistSnapshot(range)
  PROVE  RInv' /\ Final
<1>1. PICK point : /\ point = [date |-> now, odometer |-> odometer, range |-> range, drive |-> None]
                   /\ positions' = Append(positions, point)
  BY DEF PersistSnapshot
<1>2. Running("persist_snapshot") /\ Then(<<>>) /\ UNCHANGED <<drives, processes>>
  BY DEF PersistSnapshot
<1>3. /\ ~Closing /\ todo # <<>> /\ Left' = Left - 1
      /\ UNCHANGED <<now, odometer, kind, stream, saw_driving>>
  BY <1>2, Passed DEF IInv, Ops, Closers
<1>4. Left \in {3, 6, 4}
  BY <1>2, <1>3, Turn DEF IInv, Running, TypeOK, Activity
<1>5. todo' # <<>>
  BY <1>3, <1>4, NoneLeft
<1>6. point \in Point /\ point.date = now /\ point.drive = None
  BY <1>1, SessionsAssumption DEF Point, IInv, TypeOK
<1>7. /\ DOMAIN positions' = DOMAIN positions \cup {Len(positions) + 1}
      /\ Len(positions') = Len(positions) + 1
      /\ \A p \in DOMAIN positions : positions'[p] = positions[p]
      /\ positions'[Len(positions) + 1] = point
      /\ \A d : Attached(d)' = Attached(d) \cup {p \in {Len(positions) + 1} : point.drive = d}
  BY <1>1, <1>2, <1>3, <1>6, Appended DEF IInv
<1>8. positions' # positions
  <2>1. Len(positions) \in Nat
    BY PositionsType DEF IInv
  <2>. QED BY <1>7, <2>1
<1>9. pos' = Len(positions')
  BY <1>2, <1>8 DEF RowNamed
<1>10. Named'
  BY <1>3, <1>5, <1>6, <1>7, <1>9 DEF Named
<1>11. \A d \in DOMAIN drives : Attached(d)' = Attached(d)
  <2>1. \A d \in DOMAIN drives : d # None
    BY DriveIds DEF IInv
  <2>. QED BY <1>6, <1>7, <2>1
<1>12. OpenDrives' = OpenDrives /\ OpenCharges' = OpenCharges
  BY <1>2 DEF OpenDrives, OpenCharges
<1>13. Final
  BY <1>2, <1>11 DEF Final
<1>14. Later' /\ NoOverlap'
  <2>1. \A d \in OpenDrives : \A p \in Attached(d) : positions'[p].date = positions[p].date
    BY <1>7 DEF Attached
  <2>2. OpenDrives \subseteq DOMAIN drives
    BY DEF OpenDrives
  <2>3. \A d \in OpenDrives' : \A p \in Attached(d)' :
          d \in OpenDrives /\ p \in Attached(d) /\ positions'[p].date = positions[p].date
    BY <1>11, <1>12, <2>1, <2>2
  <2>4. now' = now /\ now \in Nat
    BY <1>3 DEF IInv, TypeOK, Date
  <2>. QED BY <1>2, <1>12, <2>3, <2>4, Kept DEF IInv, RInv
<1>15. PointOnDrive'
  BY <1>5 DEF PointOnDrive
<1>. QED BY <1>10, <1>13, <1>14, <1>15 DEF RInv

\* The point that was just written may be put on the open drive.
LEMMA AttachKeeps ==
  ASSUME IInv, IInv', RInv, UNCHANGED <<now, drives, processes>>,
         NEW S \in SUBSET ({pos} \cap DOMAIN positions), \A p \in S : positions[p].drive = None,
         NEW d \in OpenDrives, positions' = SetDrive(S, d)
  PROVE  /\ Later' /\ NoOverlap' /\ Final
         /\ DOMAIN positions' = DOMAIN positions /\ Len(positions') = Len(positions)
         /\ \A p \in DOMAIN positions : /\ positions'[p].date = positions[p].date
                                        /\ p \in S => positions'[p].drive = d
<1>1. d \in DOMAIN drives /\ \A e \in DOMAIN drives : e # None
  BY DriveIds DEF OpenDrives, IInv
<1>2. /\ DOMAIN positions' = DOMAIN positions /\ Len(positions') = Len(positions)
      /\ \A p \in DOMAIN positions : /\ positions'[p].date = positions[p].date
                                     /\ positions'[p].drive = IF p \in S THEN d ELSE positions[p].drive
      /\ \A e : Attached(e)' = IF e = d THEN Attached(e) \cup (S \cap DOMAIN positions)
                                        ELSE Attached(e) \ S
  BY <1>1, Moved DEF IInv
<1>3. \A e \in DOMAIN drives : e # d => Attached(e)' = Attached(e)
  <2>1. \A e \in DOMAIN drives : Attached(e) \ S = Attached(e)
    BY <1>1 DEF Attached
  <2>. QED BY <1>2, <2>1
<1>4. OpenDrives' = OpenDrives /\ OpenCharges' = OpenCharges
  BY DEF OpenDrives, OpenCharges
<1>5. Final
  BY <1>3, <1>4 DEF Final
<1>6. \A p \in S : positions'[p].date = now
  <2>1. \A p \in S : p \in DOMAIN positions /\ p = pos /\ p # 0
    BY PositionsType DEF IInv
  <2>. QED BY <1>2, <2>1 DEF RInv, Named
<1>7. \A e \in OpenDrives' : \A p \in Attached(e)' :
        \/ positions'[p].date = now
        \/ e \in OpenDrives /\ p \in Attached(e) /\ positions'[p].date = positions[p].date
  <2>1. \A e : Attached(e) \subseteq DOMAIN positions
    BY DEF Attached
  <2>2. \A e \in OpenDrives : e \in DOMAIN drives
    BY DEF OpenDrives
  <2>. QED BY <1>2, <1>3, <1>4, <1>6, <2>1, <2>2
<1>8. Later' /\ NoOverlap'
  <2>1. now \in Nat
    BY DEF IInv, TypeOK, Date
  <2>. QED BY <1>4, <1>7, <2>1, Kept DEF IInv, RInv
<1>. QED BY <1>2, <1>5, <1>8

LEMMA AttachToDriveKeeps ==
  ASSUME IInv, IInv', RInv, AttachToDrive
  PROVE  RInv' /\ Final
<1>1. /\ Running("attach_to_drive") /\ Then(<<>>) /\ Keeping /\ positions' = SetDrive({pos}, LatestDrive)
      /\ UNCHANGED <<drives, processes, hourly>>
  BY DEF AttachToDrive
<1>2. /\ ~Closing /\ todo # <<>> /\ Left' = Left - 1
      /\ UNCHANGED <<now, odometer, kind, stream, saw_driving>>
  BY <1>1, Passed DEF IInv, Ops, Closers
<1>3. kind = "Driving" /\ Left = 1
  BY <1>1, <1>2, Turn DEF IInv, Running, TypeOK, Activity
<1>4. PICK d \in OpenDrives : LatestDrive = d
  <2>1. OpenDrives # {}
    BY <1>2, <1>3 DEF IInv, Driving
  <2>. QED BY <2>1, TheDrive DEF IInv
<1>5. pos = Len(positions) /\ pos \in DOMAIN positions /\ positions[pos].drive = None
  <2>1. pos # 0 /\ positions[pos].drive = None /\ pos \in {0, Len(positions)}
    BY <1>3 DEF RInv, Named
  <2>2. PICK n \in Nat : Len(positions) = n /\ DOMAIN positions = 1..n
    BY PositionsType DEF IInv
  <2>3. pos \in 1..n
    BY <2>1, <2>2
  <2>. QED BY <2>1, <2>2, <2>3
<1>6. /\ Later' /\ NoOverlap' /\ Final
      /\ DOMAIN positions' = DOMAIN positions /\ Len(positions') = Len(positions)
      /\ \A p \in DOMAIN positions : /\ positions'[p].date = positions[p].date
      /\ positions'[pos].drive = d
  <2>1. PICK S \in SUBSET ({pos} \cap DOMAIN positions) :
          pos \in S /\ (\A p \in S : positions[p].drive = None) /\ positions' = SetDrive(S, LatestDrive)
    BY <1>1, <1>5
  <2>2. positions' = SetDrive(S, d)
    BY <1>4, <2>1
  <2>3. UNCHANGED <<now, drives, processes>>
    BY <1>1, <1>2
  <2>4. \A p \in S : positions[p].drive = None
    BY <2>1
  <2>5. /\ Later' /\ NoOverlap' /\ Final
        /\ DOMAIN positions' = DOMAIN positions /\ Len(positions') = Len(positions)
        /\ \A p \in DOMAIN positions : /\ positions'[p].date = positions[p].date
                                       /\ p \in S => positions'[p].drive = d
    BY <2>2, <2>3, <2>4, AttachKeeps
  <2>. QED BY <1>5, <2>1, <2>5
<1>7. Named'
  <2>1. pos' \in {0, pos} /\ (todo' = <<>> => pos' = 0)
    BY <1>1 DEF Keeping
  <2>2. Left' = 0
    BY <1>2, <1>3
  <2>. QED BY <1>2, <1>6, <2>1, <2>2, SameName DEF IInv, RInv
<1>8. PointOnDrive'
  <2>1. OpenDrives' = OpenDrives
    BY <1>1 DEF OpenDrives
  <2>. QED BY <1>5, <1>6, <2>1 DEF PointOnDrive
<1>. QED BY <1>6, <1>7, <1>8 DEF RInv

LEMMA AttachRecentKeeps ==
  ASSUME IInv, IInv', RInv, AttachRecentPosition
  PROVE  RInv' /\ Final
<1>1. /\ Running("attach_recent_position") /\ Then(<<>>) /\ Keeping
      /\ UNCHANGED <<drives, processes, hourly>>
  BY DEF AttachRecentPosition
<1>2. /\ ~Closing /\ todo # <<>> /\ Left' = Left - 1
      /\ UNCHANGED <<now, odometer, kind, stream, saw_driving>>
  BY <1>1, Passed DEF IInv, Ops, Closers
<1>3. kind # "Driving"
  BY <1>1, <1>2, Turn DEF IInv, Running
<1>4. /\ Later' /\ NoOverlap' /\ Final
      /\ DOMAIN positions' = DOMAIN positions /\ Len(positions') = Len(positions)
      /\ \A p \in DOMAIN positions : /\ positions'[p].date = positions[p].date
  <2>1. CASE positions' = positions
    <3>1. Later' /\ NoOverlap' /\ Final
      <4>1. now \in Nat
        BY DEF IInv, TypeOK, Date
      <4>. QED BY <1>1, <1>2, <2>1, <4>1, TablesKept DEF IInv, RInv
    <3>. QED BY <2>1, <3>1
  <2>2. ASSUME NEW d \in OpenDrives,
               positions' = SetDrive({p \in {pos} \cap DOMAIN positions : positions[p].drive = None}, LatestDrive)
        PROVE  <1>4!:
    <3>1. PICK S \in SUBSET ({pos} \cap DOMAIN positions) :
            positions' = SetDrive(S, LatestDrive) /\ \A p \in S : positions[p].drive = None
      BY <2>2
    <3>2. LatestDrive = d
      BY TheDrive DEF IInv
    <3>3. positions' = SetDrive(S, d)
      BY <3>1, <3>2
    <3>. QED BY <1>1, <1>2, <3>1, <3>3, AttachKeeps
  <2>. QED BY <2>1, <2>2 DEF AttachRecentPosition
<1>5. Named'
  <2>1. pos' \in {0, pos} /\ (todo' = <<>> => pos' = 0)
    BY <1>1 DEF Keeping
  <2>. QED BY <1>2, <1>3, <1>4, <2>1, SameName DEF IInv, RInv
<1>6. PointOnDrive'
  BY <1>2, <1>3 DEF PointOnDrive
<1>. QED BY <1>4, <1>5, <1>6 DEF RInv

LEMMA OpenDriveKeeps ==
  ASSUME IInv, IInv', RInv, OpenDrive
  PROVE  RInv' /\ Final
<1>1. /\ Running("open_drive") /\ Then(<<>>) /\ Keeping
      /\ UNCHANGED <<positions, processes, hourly>>
  BY DEF OpenDrive
<1>2. /\ ~Closing /\ todo # <<>> /\ Left' = Left - 1
      /\ UNCHANGED <<now, odometer, kind, stream, saw_driving>>
  BY <1>1, Passed DEF IInv, Ops, Closers
<1>3. kind = "Driving" /\ Left = 2
  BY <1>1, <1>2, Turn DEF IInv, Running, TypeOK, Activity
<1>4. Left' = 1 /\ todo' # <<>> /\ pos' = pos /\ now \in Nat
  <2>1. Left' = 1
    BY <1>2, <1>3
  <2>2. todo' # <<>>
    BY <2>1, NoneLeft
  <2>. QED BY <1>1, <2>1, <2>2 DEF Keeping, IInv, TypeOK, Date
<1>5. Named'
  <2>1. pos # 0 /\ positions[pos].drive = None
    BY <1>3 DEF RInv, Named
  <2>. QED BY <1>1, <1>2, <1>4, <2>1, SameName DEF IInv, RInv
<1>6. PointOnDrive'
  BY <1>4 DEF PointOnDrive
<1>7. Later' /\ NoOverlap' /\ Final
  <2>1. CASE OpenDrives # {}
    <3>1. UNCHANGED drives
      BY <2>1 DEF OpenDrive
    <3>. QED BY <1>1, <1>2, <1>4, <3>1, TablesKept DEF IInv, RInv
  <2>2. CASE OpenDrives = {}
    <3>1. PICK row : row.end_date = None /\ drives' = With(drives, NextId(drives), row)
      BY <2>2 DEF OpenDrive
    <3>2. PICK id : /\ id \notin DOMAIN drives /\ DOMAIN drives' = DOMAIN drives \cup {id} /\ drives'[id] = row
                    /\ \A i \in DOMAIN drives : drives'[i] = drives[i]
      BY <3>1, DriveOpened DEF IInv
    <3>3. id # None
      <4>1. id \in Id
        BY <3>2 DEF IInv, TypeOK
      <4>. QED BY <4>1, SessionsAssumption DEF Id
    <3>4. OpenDrives' = {id}
      BY <2>2, <3>1, <3>2 DEF OpenDrives
    <3>5. Attached(id)' = {} /\ \A d : Attached(d)' = Attached(d)
      BY <1>1, <3>2, <3>3 DEF Attached, IInv, TypeOK
    <3>6. OpenCharges' = OpenCharges
      BY <1>1 DEF OpenCharges
    <3>7. DOMAIN drives' \ OpenDrives' = DOMAIN drives \ OpenDrives
      BY <2>2, <3>2, <3>4
    <3>8. Later' /\ NoOverlap'
      BY <1>1, <1>2, <1>4, <3>2, <3>4, <3>5, <3>6, <3>7, Kept DEF IInv, RInv
    <3>. QED BY <3>2, <3>5, <3>8 DEF Final
  <2>. QED BY <2>1, <2>2
<1>. QED BY <1>5, <1>6, <1>7 DEF RInv

\* A reading of another kind than a drive goes on.
LEMMA Aside ==
  ASSUME IInv, RInv, UNCHANGED <<now, positions, kind>>, Keeping, kind # "Driving" \/ Left' \in {3, 4}
  PROVE  Named' /\ PointOnDrive'
<1>1. pos' \in {0, pos} /\ (todo' = <<>> => pos' = 0)
  BY DEF Keeping
<1>2. kind' = "Driving" => todo' # <<>> /\ ~(Left' \in 1..2)
  BY NoneLeft
<1>3. Named'
  BY <1>1, <1>2, SameName DEF IInv, RInv
<1>. QED BY <1>2, <1>3 DEF PointOnDrive

LEMMA OpenChargeKeeps ==
  ASSUME IInv, IInv', RInv, OpenCharge
  PROVE  RInv' /\ Final
<1>1. /\ Running("open_charge") /\ Then(<<>>) /\ Keeping
      /\ UNCHANGED <<positions, drives, hourly>>
  BY DEF OpenCharge
<1>2. /\ ~Closing /\ todo # <<>> /\ now \in Nat
      /\ UNCHANGED <<now, odometer, kind, stream, saw_driving>>
  BY <1>1, Passed DEF IInv, Ops, Closers, TypeOK, Date
<1>3. kind # "Driving"
  BY <1>1, <1>2, Turn DEF IInv, Running
<1>4. Named' /\ PointOnDrive'
  BY <1>1, <1>2, <1>3, Aside
<1>5. Later' /\ NoOverlap' /\ Final
  <2>1. CASE OpenCharges # {}
    <3>1. UNCHANGED processes
      BY <2>1 DEF OpenCharge
    <3>. QED BY <1>1, <1>2, <3>1, TablesKept DEF IInv, RInv
  <2>2. CASE OpenCharges = {}
    <3>1. PICK row : /\ row.end_date = None /\ row.start_date = now /\ row.charges = {}
                     /\ processes' = With(processes, NextId(processes), row)
      BY <2>2 DEF OpenCharge
    <3>2. PICK id : /\ id \notin DOMAIN processes /\ DOMAIN processes' = DOMAIN processes \cup {id}
                    /\ processes'[id] = row
                    /\ \A i \in DOMAIN processes : processes'[i] = processes[i]
      BY <3>1, ChargeOpened DEF IInv
    <3>3. OpenCharges' = {id}
      BY <2>2, <3>1, <3>2 DEF OpenCharges
    <3>4. OpenDrives' = OpenDrives /\ \A d : Attached(d)' = Attached(d)
      BY <1>1 DEF OpenDrives, Attached
    <3>5. DOMAIN processes' \ OpenCharges' = DOMAIN processes \ OpenCharges
      BY <2>2, <3>2, <3>3
    <3>6. \A c \in OpenCharges' : processes'[c].start_date = now
      BY <3>1, <3>2, <3>3
    <3>7. Later' /\ NoOverlap'
      BY <1>1, <1>2, <3>2, <3>3, <3>4, <3>5, <3>6, Kept DEF IInv, RInv
    <3>. QED BY <1>1, <3>4, <3>7 DEF Final
  <2>. QED BY <2>1, <2>2
<1>. QED BY <1>4, <1>5 DEF RInv

LEMMA InsertChargeKeeps ==
  ASSUME IInv, IInv', RInv, InsertCharge
  PROVE  RInv' /\ Final
<1>1. /\ Running("insert_charge") /\ Then(<<>>) /\ Keeping
      /\ UNCHANGED <<positions, drives, hourly>>
      /\ processes' = [processes EXCEPT ![LatestCharge].charges = @ \cup {now}]
  BY DEF InsertCharge
<1>2. /\ ~Closing /\ todo # <<>> /\ now \in Nat
      /\ UNCHANGED <<now, odometer, kind, stream, saw_driving>>
  BY <1>1, Passed DEF IInv, Ops, Closers, TypeOK, Date
<1>3. kind = "Charging" /\ Left = 1
  BY <1>1, <1>2, Turn DEF IInv, Running, TypeOK, Activity
<1>4. PICK c \in OpenCharges : LatestCharge = c
  <2>1. OpenCharges # {}
    BY <1>2, <1>3 DEF IInv, Charging
  <2>. QED BY <2>1, TheCharge DEF IInv
<1>5. OpenCharges = {c} /\ c \in DOMAIN processes /\ processes[c] \in Process
  BY <1>4, TheCharge DEF IInv, OpenCharges, TypeOK
<1>6. /\ DOMAIN processes' = DOMAIN processes
      /\ \A e \in DOMAIN processes \ {c} : processes'[e] = processes[e]
      /\ processes'[c] = [processes[c] EXCEPT !.charges = @ \cup {now}]
  BY <1>1, <1>4, <1>5
<1>7. /\ processes'[c].charges = processes[c].charges \cup {now}
      /\ processes'[c].end_date = processes[c].end_date
      /\ processes'[c].start_date = processes[c].start_date
  BY <1>5, <1>6 DEF Process
<1>8. OpenCharges' = OpenCharges /\ OpenDrives' = OpenDrives /\ \A d : Attached(d)' = Attached(d)
  BY <1>1, <1>5, <1>6, <1>7 DEF OpenCharges, OpenDrives, Attached
<1>9. Later' /\ NoOverlap'
  BY <1>1, <1>2, <1>5, <1>6, <1>7, <1>8, Kept DEF IInv, RInv
<1>10. Named' /\ PointOnDrive'
  BY <1>1, <1>2, <1>3, Aside
<1>11. Final
  BY <1>1, <1>8 DEF Final
<1>. QED BY <1>9, <1>10, <1>11 DEF RInv

LEMMA StreamRowKeeps ==
  ASSUME IInv, IInv', RInv, NEW moving \in BOOLEAN, StreamRow(moving)
  PROVE  RInv' /\ Final
<1>1. /\ stream /\ todo = <<>> /\ kind = None /\ now \in Nat
      /\ UNCHANGED <<now, odometer, drives, processes, hourly, kind, pos>>
  BY DEF StreamRow, IInv, Control, TypeOK, Date
<1>2. kind' # "Driving" /\ pos' = 0
  BY <1>1, SessionsAssumption DEF RInv, Named
<1>3. PICK d : /\ d = IF OpenDrives = {} THEN None ELSE Newest(OpenDrives)
               /\ \/ positions' = Append(positions, [date |-> now, odometer |-> odometer,
                                                      range |-> FALSE, drive |-> d])
                  \/ positions' = positions
  BY DEF StreamRow
<1>4. d = None \/ d \in OpenDrives
  <2>1. PICK n \in Nat : DOMAIN drives \subseteq 0..n
    BY DEF IInv, Dated
  <2>2. OpenDrives \subseteq 0..n
    BY <2>1 DEF OpenDrives
  <2>. QED BY <1>3, <2>2, NewestOf
<1>5. PointOnDrive'
  BY <1>2 DEF PointOnDrive
<1>6. CASE positions' = positions
  <2>1. Later' /\ NoOverlap' /\ Final
    BY <1>1, <1>6, TablesKept DEF IInv, RInv
  <2>2. Named'
    BY <1>1, <1>2, <1>6, SameName DEF IInv, RInv
  <2>. QED BY <1>5, <2>1, <2>2 DEF RInv
<1>7. ASSUME NEW point, point = [date |-> now, odometer |-> odometer, range |-> FALSE, drive |-> d],
             positions' = Append(positions, point)
      PROVE  RInv' /\ Final
  <2>1. d \in DOMAIN drives \cup {None} /\ d \in Id \cup {None}
    BY <1>4 DEF OpenDrives, IInv, TypeOK
  <2>2. point \in Point /\ point.date = now /\ point.drive = d
    BY <1>7, <2>1 DEF IInv, TypeOK, Point
  <2>3. /\ DOMAIN positions' = DOMAIN positions \cup {Len(positions) + 1}
        /\ \A p \in DOMAIN positions : positions'[p] = positions[p]
        /\ positions'[Len(positions) + 1] = point
        /\ \A e : Attached(e)' = Attached(e) \cup {p \in {Len(positions) + 1} : d = e}
    BY <1>1, <1>7, <2>1, <2>2, Appended DEF IInv
  <2>4. Named'
    BY <1>2, <2>2, <2>3 DEF RInv, Named
  <2>5. OpenDrives' = OpenDrives /\ OpenCharges' = OpenCharges
    BY <1>1 DEF OpenDrives, OpenCharges
  <2>6. Final
    <3>1. \A e \in DOMAIN drives \ OpenDrives : e # d
      BY <1>4, DriveIds DEF IInv
    <3>. QED BY <1>1, <2>3, <3>1 DEF Final
  <2>7. \A e \in OpenDrives' : \A p \in Attached(e)' :
          \/ positions'[p].date = now
          \/ e \in OpenDrives /\ p \in Attached(e) /\ positions'[p].date = positions[p].date
    <3>1. \A e : Attached(e) \subseteq DOMAIN positions
      BY DEF Attached
    <3>. QED BY <2>2, <2>3, <2>5, <3>1
  <2>8. Later' /\ NoOverlap'
    BY <1>1, <2>5, <2>7, Kept DEF IInv, RInv
  <2>. QED BY <1>5, <2>4, <2>6, <2>8 DEF RInv
<1>. QED BY <1>3, <1>6, <1>7

\* A drive that is long enough ends, from its first point to its last.
LEMMA DriveCloses ==
  ASSUME IInv, NEW d \in OpenDrives, ~TooShort(d), UNCHANGED processes,
         drives' = [drives EXCEPT ![d] = [start_date |-> positions[FirstOf(Attached(d))].date,
                                          end_date   |-> positions[LastOf(Attached(d))].date]]
  PROVE  \E f \in Attached(d), s, t \in 0..now :
           /\ s = positions[f].date /\ s <= t
           /\ DOMAIN drives' = DOMAIN drives /\ \A e \in DOMAIN drives \ {d} : drives'[e] = drives[e]
           /\ drives'[d].start_date = s /\ drives'[d].end_date = t
           /\ OpenDrives' = {} /\ OpenCharges' = {}
           /\ Spans' = Spans \cup {<<"drive", d, s, t>>}
<1>1. OpenDrives = {d} /\ OpenCharges = {} /\ d \in DOMAIN drives
  BY TheDrive DEF IInv, OpenDrives
<1>2. Attached(d) # {} /\ Attached(d) \subseteq DOMAIN positions
  <2>1. Cardinality({}) = 0
    BY FS_EmptySet
  <2>2. Attached(d) = {} => Cardinality(Attached(d)) < 2
    BY <2>1
  <2>3. Attached(d) \subseteq DOMAIN positions
    BY DEF Attached
  <2>. QED BY <2>2, <2>3 DEF TooShort
<1>3. PICK f \in Attached(d), l \in Attached(d) : f = FirstOf(Attached(d)) /\ l = LastOf(Attached(d))
  BY <1>2, FirstLast DEF IInv
<1>4. PICK s, t : s = positions[f].date /\ t = positions[l].date
  OBVIOUS
<1>5. s \in 0..now /\ t \in 0..now /\ s <= t
  <2>1. positions[f].date <= positions[l].date
    BY <1>2, <1>3, FirstLast DEF IInv
  <2>. QED BY <1>2, <1>4, <2>1, PositionsType DEF IInv
<1>6. /\ DOMAIN drives' = DOMAIN drives /\ \A e \in DOMAIN drives \ {d} : drives'[e] = drives[e]
      /\ drives'[d] = [start_date |-> s, end_date |-> t]
  BY <1>1, <1>3, <1>4
<1>7. drives'[d].start_date = s /\ drives'[d].end_date = t /\ t # None
  BY <1>5, <1>6, SessionsAssumption
<1>8. OpenDrives' = {} /\ OpenCharges' = {}
  <2>1. \A e \in DOMAIN drives \ {d} : drives[e].end_date # None
    BY <1>1 DEF OpenDrives
  <2>. QED BY <1>1, <1>6, <1>7, <2>1 DEF OpenDrives, OpenCharges
<1>9. Spans' = Spans \cup {<<"drive", d, s, t>>}
  <2>1. \A a : (\E e \in DOMAIN drives' \ OpenDrives' : a = <<"drive", e, drives'[e].start_date, drives'[e].end_date>>)
               <=> \/ a = <<"drive", d, s, t>>
                   \/ \E e \in DOMAIN drives \ OpenDrives :
                        a = <<"drive", e, drives[e].start_date, drives[e].end_date>>
    BY <1>1, <1>6, <1>7, <1>8
  <2>2. DOMAIN processes' \ OpenCharges' = DOMAIN processes \ OpenCharges
    BY <1>1, <1>8
  <2>. QED BY <2>1, <2>2 DEF Spans
<1>. QED BY <1>4, <1>5, <1>6, <1>7, <1>8, <1>9

\* A charge with readings ends with the last of them.
LEMMA ChargeCloses ==
  ASSUME IInv, NEW c \in OpenCharges, processes[c].charges # {}, UNCHANGED drives,
         processes' = [processes EXCEPT ![c].end_date = Newest(processes[c].charges)]
  PROVE  \E s \in Nat, t \in 0..now :
           /\ s = processes[c].start_date /\ s <= t
           /\ DOMAIN processes' = DOMAIN processes
           /\ \A i \in DOMAIN processes \ {c} : processes'[i] = processes[i]
           /\ processes'[c].start_date = s /\ processes'[c].end_date = t
           /\ OpenDrives' = {} /\ OpenCharges' = {}
           /\ Spans' = Spans \cup {<<"charge", c, s, t>>}
<1>1. OpenCharges = {c} /\ OpenDrives = {} /\ c \in DOMAIN processes
      /\ processes[c] \in Process /\ processes[c].charges \subseteq 0..now /\ now \in Nat
  BY TheCharge DEF IInv, OpenCharges, TypeOK, Dated, Date
<1>2. PICK s, t : s = processes[c].start_date /\ t = Newest(processes[c].charges)
  OBVIOUS
<1>3. t \in processes[c].charges
  BY <1>1, <1>2, NewestOf
<1>4. s <= t /\ t \in 0..now /\ t # None /\ s \in Nat
  <2>1. s <= t
    BY <1>1, <1>2, <1>3 DEF IInv, Dated
  <2>. QED BY <1>1, <1>2, <1>3, <2>1, SessionsAssumption DEF Process, Date
<1>5. /\ DOMAIN processes' = DOMAIN processes /\ \A i \in DOMAIN processes \ {c} : processes'[i] = processes[i]
      /\ processes'[c] = [processes[c] EXCEPT !.end_date = t]
  BY <1>1, <1>2
<1>6. processes'[c].start_date = s /\ processes'[c].end_date = t
  BY <1>1, <1>2, <1>5 DEF Process
<1>7. OpenCharges' = {} /\ OpenDrives' = {}
  <2>1. \A i \in DOMAIN processes \ {c} : processes[i].end_date # None
    BY <1>1 DEF OpenCharges
  <2>2. \A i \in DOMAIN processes' : processes'[i].end_date # None
    BY <1>4, <1>5, <1>6, <2>1
  <2>. QED BY <1>1, <2>2 DEF OpenCharges, OpenDrives
<1>8. Spans' = Spans \cup {<<"charge", c, s, t>>}
  <2>1. \A a : (\E i \in DOMAIN processes' \ OpenCharges' :
                  a = <<"charge", i, processes'[i].start_date, processes'[i].end_date>>)
               <=> \/ a = <<"charge", c, s, t>>
                   \/ \E i \in DOMAIN processes \ OpenCharges :
                        a = <<"charge", i, processes[i].start_date, processes[i].end_date>>
    BY <1>1, <1>5, <1>6, <1>7
  <2>2. DOMAIN drives' \ OpenDrives' = DOMAIN drives \ OpenDrives
    BY <1>1, <1>7
  <2>. QED BY <2>1, <2>2 DEF Spans
<1>. QED BY <1>2, <1>4, <1>5, <1>6, <1>7, <1>8

\* What a statement that closes a session does to the list.
LEMMA ClosingTurn == ASSUME IInv, Closing, kind = "Driving" PROVE Left \in {3, 4}
  BY DEF IInv, Driving

LEMMA CloseDriveKeeps ==
  ASSUME IInv, IInv', RInv, CloseDrive
  PROVE  RInv' /\ Final
<1>1. PICK d \in OpenDrives : Running("close_drive") /\ Head(todo).ids = {d}
  BY DEF IInv, Closes, Closing, CloseDrive, Running, Closers
<1>2. Keeping /\ UNCHANGED <<processes, hourly>>
  BY DEF CloseDrive
<1>3. \/ /\ TooShort(d) /\ positions' = SetDrive(Attached(d), None)
         /\ Then(<<Stmt("delete_drive", {d})>> \o <<>>) /\ UNCHANGED drives
      \/ /\ ~TooShort(d) /\ Then(<<>>) /\ UNCHANGED positions
         /\ drives' = [drives EXCEPT ![d] = [start_date |-> positions[FirstOf(Attached(d))].date,
                                             end_date   |-> positions[LastOf(Attached(d))].date]]
  <2>1. Each("close_drive", {d} \ {d}) = <<>>
    BY DEF Each
  <2>. QED BY <1>1, <2>1 DEF CloseDrive
<1>4. /\ Closing /\ todo # <<>> /\ d \in Id /\ d \in DOMAIN drives /\ now \in Nat
      /\ \A e \in DOMAIN drives : e # None
  BY <1>1, DriveIds DEF Running, Closing, Closers, OpenDrives, IInv, TypeOK, Date
<1>5. OpenDrives = {d} /\ OpenCharges = {}
  BY TheDrive DEF IInv
<1>6. CASE /\ TooShort(d) /\ positions' = SetDrive(Attached(d), None)
           /\ Then(<<Stmt("delete_drive", {d})>> \o <<>>) /\ UNCHANGED drives
  <2>1. UNCHANGED <<now, odometer, kind, stream, saw_driving>>
    BY <1>6 DEF Then
  <2>2. PICK front : front = <<Stmt("delete_drive", {d})>> /\ todo' = front \o Tail(todo)
    <3>1. <<Stmt("delete_drive", {d})>> \in Seq({Stmt("delete_drive", {d})})
      OBVIOUS
    <3>. QED BY <1>6, <3>1, ConcatEmptySeq DEF Then
  <2>3. Left' = Left
    <3>1. \E op \in Closers, ids \in SUBSET Id : front = <<Stmt(op, ids)>>
      BY <1>4, <2>2 DEF Closers
    <3>. QED BY <1>4, <2>1, <2>2, <3>1, Onward DEF IInv
  <2>4. kind' = "Driving" => todo' # <<>> /\ ~(Left' \in 1..2)
    BY <1>4, <2>1, <2>3, ClosingTurn, NoneLeft
  <2>5. /\ DOMAIN positions' = DOMAIN positions /\ Len(positions') = Len(positions)
        /\ \A p \in DOMAIN positions : /\ positions'[p].date = positions[p].date
        /\ \A e : e # None => Attached(e)' = Attached(e) \ Attached(d)
    BY <1>6, <2>1, Moved DEF IInv
  <2>6. OpenDrives' = OpenDrives /\ OpenCharges' = OpenCharges
    BY <1>2, <1>6 DEF OpenDrives, OpenCharges
  <2>7. /\ \A e \in DOMAIN drives \ {d} : Attached(e)' = Attached(e)
        /\ Attached(d)' = {}
    <3>1. \A e \in DOMAIN drives \ {d} : Attached(e) \ Attached(d) = Attached(e)
      BY DEF Attached
    <3>. QED BY <1>4, <2>5, <3>1
  <2>8. Final
    BY <1>5, <1>6, <2>7 DEF Final
  <2>9. Later' /\ NoOverlap'
    BY <1>2, <1>4, <1>5, <1>6, <2>1, <2>6, <2>7, Kept DEF IInv, RInv
  <2>10. Named'
    <3>1. pos' \in {0, pos} /\ (todo' = <<>> => pos' = 0)
      BY <1>2 DEF Keeping
    <3>. QED BY <2>1, <2>4, <2>5, <3>1, SameName DEF IInv, RInv
  <2>11. PointOnDrive'
    BY <2>4 DEF PointOnDrive
  <2>. QED BY <2>8, <2>9, <2>10, <2>11 DEF RInv
<1>7. CASE /\ ~TooShort(d) /\ Then(<<>>) /\ UNCHANGED positions
           /\ drives' = [drives EXCEPT ![d] = [start_date |-> positions[FirstOf(Attached(d))].date,
                                               end_date   |-> positions[LastOf(Attached(d))].date]]
  <2>1. /\ Left' = Left /\ UNCHANGED <<now, odometer, kind, stream, saw_driving>>
    BY <1>1, <1>7, Closed DEF Closers
  <2>2. Named' /\ PointOnDrive'
    BY <1>2, <1>4, <1>7, <2>1, ClosingTurn, Aside
  <2>3. PICK f \in Attached(d), u \in 0..now, t \in 0..now :
          /\ u = positions[f].date /\ u <= t
          /\ DOMAIN drives' = DOMAIN drives /\ \A e \in DOMAIN drives \ {d} : drives'[e] = drives[e]
          /\ drives'[d].start_date = u /\ drives'[d].end_date = t
          /\ OpenDrives' = {} /\ OpenCharges' = {}
          /\ Spans' = Spans \cup {<<"drive", d, u, t>>}
    BY <1>2, <1>7, DriveCloses
  <2>4. NoOverlap'
    <3>1. \A e \in Ended : e <= u
      BY <1>1, <2>3 DEF RInv, Later
    <3>2. <<"drive", d, u, t>>[3] = u
      OBVIOUS
    <3>. QED BY <2>3, <3>1, <3>2, NewSpan DEF IInv, RInv
  <2>5. Later'
    BY <1>2, <1>5, <2>1, <2>3 DEF RInv, Later
  <2>6. Final
    <3>1. \A e : Attached(e)' = Attached(e)
      BY <1>7 DEF Attached
    <3>. QED BY <1>5, <2>3, <3>1 DEF Final
  <2>. QED BY <2>2, <2>4, <2>5, <2>6 DEF RInv
<1>. QED BY <1>3, <1>6, <1>7

LEMMA DeleteDriveKeeps ==
  ASSUME IInv, IInv', RInv, DeleteDrive
  PROVE  RInv' /\ Final
<1>1. /\ Running("delete_drive") /\ Then(<<>>) /\ Keeping /\ UNCHANGED <<positions, processes, hourly>>
      /\ \E d \in Head(todo).ids : drives' = Without(drives, d)
  BY DEF DeleteDrive
<1>2. Closing /\ Left' = Left /\ UNCHANGED <<now, odometer, kind, stream, saw_driving>> /\ now \in Nat
  BY <1>1, Closed DEF Closers, IInv, TypeOK, Date
<1>3. PICK d \in OpenDrives : Head(todo).ids = {d}
  BY <1>1, <1>2 DEF IInv, Closes, Running
<1>4. OpenDrives = {d} /\ OpenCharges = {}
  BY TheDrive DEF IInv
<1>5. DOMAIN drives' = DOMAIN drives \ {d} /\ \A e \in DOMAIN drives' : drives'[e] = drives[e]
  BY <1>1, <1>3 DEF Without
<1>6. OpenDrives' = {} /\ OpenCharges' = {}
  BY <1>1, <1>4, <1>5 DEF OpenDrives, OpenCharges
<1>7. Later' /\ NoOverlap'
  BY <1>1, <1>2, <1>4, <1>5, <1>6, Kept DEF IInv, RInv
<1>8. Final
  <2>1. \A e : Attached(e)' = Attached(e)
    BY <1>1 DEF Attached
  <2>. QED BY <1>4, <1>5, <2>1 DEF Final
<1>9. Named' /\ PointOnDrive'
  BY <1>1, <1>2, ClosingTurn, Aside
<1>. QED BY <1>7, <1>8, <1>9 DEF RInv

LEMMA CompleteChargeKeeps ==
  ASSUME IInv, IInv', RInv, CompleteCharge
  PROVE  RInv' /\ Final
<1>1. PICK c \in OpenCharges : Running("complete_charge") /\ Head(todo).ids = {c}
  BY DEF IInv, Closes, Closing, CompleteCharge, Running, Closers
<1>2. /\ Then(<<>>) /\ Keeping /\ UNCHANGED <<positions, drives, hourly>>
      /\ processes' = IF processes[c].charges = {} THEN Without(processes, c)
                      ELSE [processes EXCEPT ![c].end_date = Newest(processes[c].charges)]
  <2>1. Each("complete_charge", {c} \ {c}) = <<>>
    BY DEF Each
  <2>. QED BY <1>1, <2>1 DEF CompleteCharge
<1>3. /\ Closing /\ Left' = Left /\ UNCHANGED <<now, odometer, kind, stream, saw_driving>> /\ now \in Nat
  BY <1>1, <1>2, Closed DEF Closers, IInv, TypeOK, Date
<1>4. OpenCharges = {c} /\ OpenDrives = {} /\ c \in DOMAIN processes
      /\ processes[c] \in Process /\ processes[c].charges \subseteq 0..now
  BY TheCharge DEF IInv, OpenCharges, TypeOK, Dated
<1>5. Final
  BY <1>2 DEF Final, Attached
<1>6. Named' /\ PointOnDrive'
  BY <1>2, <1>3, ClosingTurn, Aside
<1>7. \A i \in DOMAIN processes \ {c} : processes[i].end_date # None
  BY <1>4 DEF OpenCharges
<1>8. OpenDrives' = {}
  BY <1>2, <1>4 DEF OpenDrives
<1>9. CASE processes[c].charges = {}
  <2>1. DOMAIN processes' = DOMAIN processes \ {c} /\ \A i \in DOMAIN processes' : processes'[i] = processes[i]
    BY <1>2, <1>9 DEF Without
  <2>2. OpenCharges' = {}
    BY <1>7, <2>1 DEF OpenCharges
  <2>3. Later' /\ NoOverlap'
    BY <1>2, <1>3, <1>4, <1>8, <2>1, <2>2, Kept DEF IInv, RInv
  <2>. QED BY <1>5, <1>6, <2>3 DEF RInv
<1>10. CASE processes[c].charges # {}
  <2>1. PICK u \in Nat, t \in 0..now :
          /\ u = processes[c].start_date /\ u <= t
          /\ DOMAIN processes' = DOMAIN processes
          /\ \A i \in DOMAIN processes \ {c} : processes'[i] = processes[i]
          /\ processes'[c].start_date = u /\ processes'[c].end_date = t
          /\ OpenCharges' = {} /\ Spans' = Spans \cup {<<"charge", c, u, t>>}
    <3>1. UNCHANGED drives
      BY <1>2
    <3>2. processes' = [processes EXCEPT ![c].end_date = Newest(processes[c].charges)]
      BY <1>2, <1>10
    <3>3. \E u \in Nat, t \in 0..now :
            /\ u = processes[c].start_date /\ u <= t
            /\ DOMAIN processes' = DOMAIN processes
            /\ \A i \in DOMAIN processes \ {c} : processes'[i] = processes[i]
            /\ processes'[c].start_date = u /\ processes'[c].end_date = t
            /\ OpenDrives' = {} /\ OpenCharges' = {}
            /\ Spans' = Spans \cup {<<"charge", c, u, t>>}
      BY <1>10, <3>1, <3>2, ChargeCloses
    <3>. QED BY <3>3
  <2>2. NoOverlap'
    <3>1. \A e \in Ended : e <= u
      BY <1>1, <2>1 DEF RInv, Later
    <3>2. <<"charge", c, u, t>>[3] = u
      OBVIOUS
    <3>. QED BY <2>1, <3>1, <3>2, NewSpan DEF IInv, RInv
  <2>3. Later'
    BY <1>2, <1>3, <1>4, <1>8, <2>1 DEF RInv, Later
  <2>. QED BY <1>5, <1>6, <2>2, <2>3 DEF RInv
<1>. QED BY <1>9, <1>10

-----------------------------------------------------------------------------
LEMMA InitKeeps == ASSUME Init PROVE RInv
<1>1. pos = 0 /\ todo # <<>> /\ kind = None
  BY DEF Init, Repair
<1>2. kind # "Driving"
  BY <1>1, SessionsAssumption
<1>3. /\ \A d \in DOMAIN drives : drives[d] = [start_date |-> 0, end_date |-> None]
      /\ \A c \in DOMAIN processes : processes[c] = [start_date |-> 0, end_date |-> None, charges |-> {0}]
  BY DEF Init
<1>4. DOMAIN drives \ OpenDrives = {} /\ DOMAIN processes \ OpenCharges = {}
  BY <1>3 DEF OpenDrives, OpenCharges
<1>5. Named
  BY <1>1, <1>2 DEF Named
<1>6. Ended = {} /\ Spans = {}
  BY <1>4 DEF Ended, Spans
<1>7. Later /\ NoOverlap
  BY <1>4, <1>6 DEF Later, NoOverlap
<1>8. PointOnDrive
  BY <1>1 DEF PointOnDrive
<1>. QED BY <1>5, <1>7, <1>8 DEF RInv

LEMMA StepKeeps ==
  ASSUME IInv, IInv', RInv, RowNamed, [Next]_vars
  PROVE  RInv' /\ Final
<1>1. CASE Next
  <2>1. ASSUME NEW activity \in Activity, Ingest(activity) PROVE RInv' /\ Final
    BY <2>1, IngestKeeps
  <2>2. ASSUME NEW range \in Ranges, PersistSnapshot(range) PROVE RInv' /\ Final
    BY <2>2, PersistKeeps
  <2>3. CASE OpenDrive
    BY <2>3, OpenDriveKeeps
  <2>4. CASE AttachToDrive
    BY <2>4, AttachToDriveKeeps
  <2>5. CASE AttachRecentPosition
    BY <2>5, AttachRecentKeeps
  <2>6. CASE OpenCharge
    BY <2>6, OpenChargeKeeps
  <2>7. CASE InsertCharge
    BY <2>7, InsertChargeKeeps
  <2>8. CASE SelectSessions
    BY <2>8, SelectKeeps
  <2>9. CASE CloseDrive
    BY <2>9, CloseDriveKeeps
  <2>10. CASE DeleteDrive
    BY <2>10, DeleteDriveKeeps
  <2>11. CASE CompleteCharge
    BY <2>11, CompleteChargeKeeps
  <2>12. ASSUME NEW moving \in BOOLEAN, StreamRow(moving) PROVE RInv' /\ Final
    BY <2>12, StreamRowKeeps
  <2>13. CASE StreamOpens \/ StreamEnds \/ Fails \/ Restart
    BY <2>13, DropsKeep
  <2>14. CASE Tick
    BY <2>14, TickKeeps
  <2>. QED BY <1>1, <2>1, <2>2, <2>3, <2>4, <2>5, <2>6, <2>7, <2>8, <2>9, <2>10, <2>11, <2>12, <2>13, <2>14
           DEF Next
<1>2. CASE UNCHANGED vars
  <2>1. UNCHANGED <<now, positions, drives, processes, kind, todo, pos, stream>> /\ now \in Nat
    BY <1>2 DEF vars, tables, IInv, TypeOK, Date
  <2>2. Later' /\ NoOverlap' /\ Final
    BY <2>1, TablesKept DEF IInv, RInv
  <2>3. Left' = Left
    BY <2>1 DEF Left, Rest, Closing
  <2>4. Named' /\ PointOnDrive'
    BY <2>1, <2>3 DEF RInv, Named, PointOnDrive, OpenDrives
  <2>. QED BY <2>2, <2>4 DEF RInv
<1>. QED BY <1>1, <1>2

LEMMA NamedInvariant == Spec /\ [][RowNamed]_vars => [](IInv /\ RInv)
<1>1. Init => RInv
  BY InitKeeps
<1>2. ASSUME IInv, IInv', RInv, [Next]_vars, [RowNamed]_vars PROVE RInv'
  <2>1. RowNamed
    BY <1>2 DEF RowNamed, vars, tables
  <2>. QED BY <1>2, <2>1, StepKeeps
<1>3. IInv /\ IInv' /\ RInv /\ [Next]_vars /\ [RowNamed]_vars => RInv'
  BY <1>2
<1>. QED BY <1>1, <1>3, Invariant, PTL DEF Spec

\* The rowid is the only cause: a behaviour in which sessions overlap, the point
\* of a driving reading is not on its drive, or a drive that has ended changes or
\* loses a point, has a persist_snapshot that returned another id than its row's.
THEOREM OnlyTheRowid ==
  Spec /\ ~([]NoOverlap /\ []PointOnDrive /\ [][Final]_vars) => ~[][RowNamed]_vars
<1>1. IInv /\ RInv => NoOverlap /\ PointOnDrive
  BY DEF RInv
<1>2. ASSUME IInv, IInv', RInv, [Next]_vars, [RowNamed]_vars PROVE [Final]_vars
  <2>1. RowNamed
    BY <1>2 DEF RowNamed, vars, tables
  <2>. QED BY <1>2, <2>1, StepKeeps
<1>3. IInv /\ IInv' /\ RInv /\ [Next]_vars /\ [RowNamed]_vars => [Final]_vars
  BY <1>2
<1>. QED BY <1>1, <1>3, NamedInvariant, Invariant, PTL DEF Spec

-----------------------------------------------------------------------------
(* What has ended. *)

Charged == \A c \in DOMAIN processes \ OpenCharges : c \in DOMAIN processes' /\ processes'[c] = processes[c]
Driven  == \A d \in DOMAIN drives \ OpenDrives :
             /\ d \in DOMAIN drives' /\ drives'[d] = drives[d]
             /\ Attached(d)' \subseteq Attached(d)
             /\ Attached(d) \ Attached(d)' \subseteq {p \in {pos} : Running("attach_to_drive")}

LEMMA SameDriven ==
  ASSUME \A d \in DOMAIN drives \ OpenDrives :
           d \in DOMAIN drives' /\ drives'[d] = drives[d] /\ Attached(d)' = Attached(d)
  PROVE  Driven
  BY DEF Driven

\* Points that are put on the open drive, or on none, are taken from where they were.
LEMMA Taken ==
  ASSUME IInv, NEW S, NEW d \in OpenDrives \cup {None}, positions' = SetDrive(S, d), UNCHANGED now,
         UNCHANGED drives
  PROVE  \A e \in DOMAIN drives \ OpenDrives : Attached(e)' = Attached(e) \ S
<1>1. d \in DOMAIN drives \cup {None}
  BY DEF OpenDrives
<1>2. \A e : Attached(e)' = IF e = d THEN Attached(e) \cup (S \cap DOMAIN positions) ELSE Attached(e) \ S
  BY <1>1, Moved DEF IInv
<1>3. \A e \in DOMAIN drives \ OpenDrives : e # d
  BY DriveIds DEF IInv
<1>. QED BY <1>2, <1>3

LEMMA TablesStay == ASSUME UNCHANGED <<positions, drives, processes>> PROVE Driven /\ Charged
  BY DEF Driven, Charged, Attached

LEMMA RowStays ==
  ASSUME IInv, NEW range \in BOOLEAN, NEW d \in OpenDrives \cup {None},
         positions' = Append(positions, [date |-> now, odometer |-> odometer, range |-> range, drive |-> d]),
         UNCHANGED <<now, drives, processes>>
  PROVE  Driven /\ Charged
<1>. SUFFICES ASSUME NEW point,
                     point = [date |-> now, odometer |-> odometer, range |-> range, drive |-> d]
              PROVE  Driven /\ Charged
  OBVIOUS
<1>1. d \in DOMAIN drives \cup {None} /\ d \in Id \cup {None}
  BY DEF OpenDrives, IInv, TypeOK
<1>2. point \in Point /\ point.date = now /\ point.drive = d
  BY <1>1 DEF IInv, TypeOK, Point
<1>3. \A e : Attached(e)' = Attached(e) \cup {p \in {Len(positions) + 1} : point.drive = e}
  BY <1>1, <1>2, Appended DEF IInv
<1>4. \A e \in DOMAIN drives \ OpenDrives : e # d
  BY DriveIds DEF IInv
<1>5. \A e \in DOMAIN drives \ OpenDrives : Attached(e)' = Attached(e)
  BY <1>2, <1>3, <1>4
<1>. QED BY <1>5, SameDriven DEF Charged

LEMMA AttachStays == ASSUME IInv, AttachToDrive \/ AttachRecentPosition PROVE Driven /\ Charged
<1>1. UNCHANGED <<now, drives, processes>>
  BY DEF AttachToDrive, AttachRecentPosition, Then
<1>2. CASE AttachToDrive
  <2>1. Running("attach_to_drive") /\ positions' = SetDrive({pos}, LatestDrive)
    BY <1>2 DEF AttachToDrive
  <2>2. kind = "Driving" /\ Left = 1
    <3>1. ~Closing /\ todo # <<>>
      BY <2>1 DEF Running, Closing, Closers
    <3>. QED BY <2>1, <3>1, Turn DEF IInv, Running, TypeOK, Activity
  <2>3. LatestDrive \in OpenDrives
    <3>1. OpenDrives # {}
      BY <2>2 DEF IInv, Driving
    <3>. QED BY <3>1, TheDrive DEF IInv
  <2>4. \A e \in DOMAIN drives \ OpenDrives : Attached(e)' = Attached(e) \ {pos}
    BY <1>1, <2>1, <2>3, Taken
  <2>. QED BY <1>1, <2>1, <2>4 DEF Driven, Charged
<1>3. CASE AttachRecentPosition
  <2>1. CASE positions' = positions
    BY <1>1, <2>1, TablesStay
  <2>2. ASSUME NEW d \in OpenDrives,
               positions' = SetDrive({p \in {pos} \cap DOMAIN positions : positions[p].drive = None}, LatestDrive)
        PROVE  Driven /\ Charged
    <3>1. PICK S : /\ positions' = SetDrive(S, LatestDrive)
                   /\ \A p \in S : p \in DOMAIN positions /\ positions[p].drive = None
      BY <2>2
    <3>2. LatestDrive \in OpenDrives
      BY TheDrive DEF IInv
    <3>3. \A e \in DOMAIN drives \ OpenDrives : Attached(e)' = Attached(e) \ S
      BY <1>1, <3>1, <3>2, Taken
    <3>4. \A e \in DOMAIN drives \ OpenDrives : Attached(e) \ S = Attached(e)
      <4>1. \A e \in DOMAIN drives : e # None
        BY DriveIds DEF IInv
      <4>. QED BY <3>1, <4>1 DEF Attached
    <3>. QED BY <1>1, <3>3, <3>4, SameDriven DEF Charged
  <2>. QED BY <1>3, <2>1, <2>2 DEF AttachRecentPosition
<1>. QED BY <1>2, <1>3

\* Of the drives, only the open one changes, opens or goes.
LEMMA DriveStays == ASSUME IInv, OpenDrive \/ CloseDrive \/ DeleteDrive PROVE Driven /\ Charged
<1>1. UNCHANGED processes
  BY DEF OpenDrive, CloseDrive, DeleteDrive
<1>2. CASE OpenDrive
  <2>1. UNCHANGED positions /\ (UNCHANGED drives \/ \E row : drives' = With(drives, NextId(drives), row))
    BY <1>2 DEF OpenDrive
  <2>2. \A d \in DOMAIN drives : d \in DOMAIN drives' /\ drives'[d] = drives[d]
    BY <2>1, DriveOpened DEF IInv
  <2>. QED BY <1>1, <2>1, <2>2 DEF Driven, Charged, Attached
<1>3. CASE DeleteDrive
  <2>1. PICK d \in OpenDrives : drives' = Without(drives, d) /\ UNCHANGED positions
    BY <1>3 DEF IInv, Closes, Closing, DeleteDrive, Running, Closers
  <2>. QED BY <1>1, <2>1 DEF Driven, Charged, Attached, Without
<1>4. CASE CloseDrive
  <2>1. PICK d \in OpenDrives : Running("close_drive") /\ Head(todo).ids = {d}
    BY <1>4 DEF IInv, Closes, Closing, CloseDrive, Running, Closers
  <2>2. CASE TooShort(d)
    <3>1. positions' = SetDrive(Attached(d), None) /\ UNCHANGED <<now, drives>>
      BY <1>4, <2>1, <2>2 DEF CloseDrive, Then
    <3>2. \A e \in DOMAIN drives \ OpenDrives : Attached(e)' = Attached(e) \ Attached(d)
      BY <3>1, Taken
    <3>3. \A e \in DOMAIN drives \ OpenDrives : Attached(e) \ Attached(d) = Attached(e)
      BY DEF Attached
    <3>. QED BY <1>1, <3>1, <3>2, <3>3, SameDriven DEF Charged
  <2>3. CASE ~TooShort(d)
    <3>1. UNCHANGED positions /\ \E row : drives' = [drives EXCEPT ![d] = row]
      BY <1>4, <2>1, <2>3 DEF CloseDrive
    <3>. QED BY <1>1, <3>1 DEF Driven, Charged, Attached
  <2>. QED BY <2>2, <2>3
<1>. QED BY <1>2, <1>3, <1>4

LEMMA ChargeStays == ASSUME IInv, OpenCharge \/ InsertCharge \/ CompleteCharge PROVE Driven /\ Charged
<1>1. UNCHANGED <<positions, drives>>
  BY DEF OpenCharge, InsertCharge, CompleteCharge
<1>2. Driven
  BY <1>1 DEF Driven, Attached
<1>3. CASE OpenCharge
  <2>1. UNCHANGED processes \/ \E row : processes' = With(processes, NextId(processes), row)
    BY <1>3 DEF OpenCharge
  <2>. QED BY <1>2, <2>1, ChargeOpened DEF IInv, Charged
<1>4. CASE InsertCharge
  <2>1. /\ Running("insert_charge") /\ Then(<<>>)
        /\ processes' = [processes EXCEPT ![LatestCharge].charges = @ \cup {now}]
    BY <1>4 DEF InsertCharge
  <2>2. ~Closing /\ todo # <<>>
    BY <2>1, Passed DEF IInv, Ops, Closers
  <2>3. kind = "Charging" /\ Left = 1
    BY <2>1, <2>2, Turn DEF IInv, Running, TypeOK, Activity
  <2>4. LatestCharge \in OpenCharges
    <3>1. OpenCharges # {}
      BY <2>2, <2>3 DEF IInv, Charging
    <3>. QED BY <3>1, TheCharge DEF IInv
  <2>. QED BY <1>2, <2>1, <2>4 DEF Charged
<1>5. CASE CompleteCharge
  <2>1. PICK c \in OpenCharges : Running("complete_charge") /\ Head(todo).ids = {c}
    BY <1>5 DEF IInv, Closes, Closing, CompleteCharge, Running, Closers
  <2>2. \/ processes' = Without(processes, c)
        \/ \E row : processes' = [processes EXCEPT ![c] = row]
    BY <1>5, <2>1 DEF CompleteCharge
  <2>. QED BY <1>2, <2>2 DEF Charged, Without
<1>. QED BY <1>3, <1>4, <1>5

\* For every reading, and every row it takes for its own: a charge that has ended
\* keeps its readings, a drive its bounds, and no statement but the last of a
\* driving reading takes a point from it, nor does any give it one.
THEOREM EndedSessionsStay == Spec => EndedStay
<1>1. ASSUME IInv, [Next]_vars PROVE Driven /\ Charged
  <2>1. CASE UNCHANGED <<positions, drives, processes>>
    BY <2>1, TablesStay
  <2>2. ASSUME NEW range \in Ranges, PersistSnapshot(range) PROVE Driven /\ Charged
    <3>1. /\ positions' = Append(positions, [date |-> now, odometer |-> odometer, range |-> range, drive |-> None])
          /\ UNCHANGED <<now, drives, processes>> /\ range \in BOOLEAN
      BY <2>2, SessionsAssumption DEF PersistSnapshot, Then
    <3>. QED BY <1>1, <3>1, RowStays
  <2>3. ASSUME NEW moving \in BOOLEAN, StreamRow(moving) PROVE Driven /\ Charged
    <3>1. UNCHANGED <<now, drives, processes>>
      BY <2>3 DEF StreamRow
    <3>2. PICK d : /\ d = IF OpenDrives = {} THEN None ELSE Newest(OpenDrives)
                   /\ \/ positions' = Append(positions, [date |-> now, odometer |-> odometer,
                                                          range |-> FALSE, drive |-> d])
                      \/ positions' = positions
      BY <2>3 DEF StreamRow
    <3>3. d \in OpenDrives \cup {None}
      <4>1. OpenDrives # {} => Newest(OpenDrives) \in OpenDrives
        <5>1. PICK n \in Nat : DOMAIN drives \subseteq 0..n
          BY <1>1 DEF IInv, Dated
        <5>2. OpenDrives \subseteq 0..n
          BY <5>1 DEF OpenDrives
        <5>. QED BY <5>2, NewestOf
      <4>. QED BY <3>2, <4>1
    <3>. QED BY <1>1, <3>1, <3>2, <3>3, RowStays, TablesStay
  <2>4. CASE AttachToDrive \/ AttachRecentPosition
    BY <1>1, <2>4, AttachStays
  <2>5. CASE OpenDrive \/ CloseDrive \/ DeleteDrive
    BY <1>1, <2>5, DriveStays
  <2>6. CASE OpenCharge \/ InsertCharge \/ CompleteCharge
    BY <1>1, <2>6, ChargeStays
  <2>7. \/ UNCHANGED <<positions, drives, processes>>
        \/ \E range \in Ranges : PersistSnapshot(range)
        \/ \E moving \in BOOLEAN : StreamRow(moving)
        \/ AttachToDrive \/ AttachRecentPosition \/ OpenDrive \/ CloseDrive \/ DeleteDrive
        \/ OpenCharge \/ InsertCharge \/ CompleteCharge
    BY <1>1 DEF Next, vars, tables, Ingest, SelectSessions, StreamOpens, StreamEnds, Fails, Restart, Tick
  <2>. QED BY <2>1, <2>2, <2>3, <2>4, <2>5, <2>6, <2>7
<1>2. IInv /\ [Next]_vars => Driven /\ Charged
  BY <1>1
<1>. QED BY <1>2, Invariant, PTL DEF Spec, EndedStay, Driven, Charged

-----------------------------------------------------------------------------
(* The tables are a log of sessions. *)

Opened == {<<"drive", d>> : d \in OpenDrives} \cup {<<"charge", c>> : c \in OpenCharges}
Same   == Opened' = Opened /\ Spans' = Spans
Starts == /\ Opened = {} /\ Spans' = Spans
          /\ \E s : Opened' = {s} /\ \A e \in Spans : <<e[1], e[2]>> # s
Stops  == /\ \E e : Opened = {<<e[1], e[2]>>} /\ e[3] <= e[4] /\ Spans' = Spans \cup {e}
          /\ Opened' = {}
Goes   == Opened # {} /\ Opened' = {} /\ Spans' = Spans

LEMMA LogStep == ASSUME Same \/ Starts \/ Stops \/ Goes PROVE [Log!Next]_(Log!vars)
<1>1. CASE Same
  BY <1>1 DEF Same, Opened, Log!vars
<1>2. CASE Starts
  BY <1>2 DEF Starts, Opened, Log!Next, Log!Begin, Log!Session
<1>3. CASE Stops
  BY <1>3 DEF Stops, Opened, Log!Next, Log!End, Log!Session
<1>4. CASE Goes
  BY <1>4 DEF Goes, Opened, Log!Next, Log!Discard
<1>. QED BY <1>1, <1>2, <1>3, <1>4

\* The rows of the sessions that have ended are what Spans is made of.
LEMMA SameSpans ==
  ASSUME DOMAIN drives' \ OpenDrives' = DOMAIN drives \ OpenDrives,
         \A d \in DOMAIN drives \ OpenDrives : drives'[d] = drives[d],
         DOMAIN processes' \ OpenCharges' = DOMAIN processes \ OpenCharges,
         \A c \in DOMAIN processes \ OpenCharges : processes'[c] = processes[c]
  PROVE  Spans' = Spans
  BY DEF Spans

LEMMA LogQuiet == ASSUME UNCHANGED <<drives, processes>> PROVE Same
  BY DEF Same, Opened, Spans, OpenDrives, OpenCharges

LEMMA LogOpensDrive == ASSUME IInv, OpenDrive PROVE Same \/ Starts
<1>1. /\ Running("open_drive") /\ Then(<<>>) /\ UNCHANGED processes
  BY DEF OpenDrive
<1>2. ~Closing /\ todo # <<>>
  BY <1>1, Passed DEF IInv, Ops, Closers
<1>3. OpenCharges = {} /\ OpenCharges' = {}
  <2>1. kind = "Driving" /\ Left = 2
    BY <1>1, <1>2, Turn DEF IInv, Running, TypeOK, Activity
  <2>. QED BY <1>1, <2>1 DEF IInv, Driving, OpenCharges
<1>4. CASE OpenDrives # {}
  BY <1>1, <1>4, LogQuiet DEF OpenDrive
<1>5. CASE OpenDrives = {}
  <2>1. PICK row : row.end_date = None /\ drives' = With(drives, NextId(drives), row)
    BY <1>5 DEF OpenDrive
  <2>2. PICK id : /\ id \notin DOMAIN drives /\ DOMAIN drives' = DOMAIN drives \cup {id} /\ drives'[id] = row
                  /\ \A i \in DOMAIN drives : drives'[i] = drives[i]
    BY <2>1, DriveOpened DEF IInv
  <2>3. OpenDrives' = {id}
    BY <1>5, <2>1, <2>2 DEF OpenDrives
  <2>4. DOMAIN drives' \ OpenDrives' = DOMAIN drives \ OpenDrives
    BY <1>5, <2>2, <2>3
  <2>5. Spans' = Spans
    BY <1>1, <1>3, <2>2, <2>4, SameSpans
  <2>6. Opened = {} /\ Opened' = {<<"drive", id>>}
    BY <1>3, <1>5, <2>3 DEF Opened
  <2>7. \A e \in Spans : <<e[1], e[2]>> # <<"drive", id>>
    BY <2>2 DEF Spans
  <2>. QED BY <2>5, <2>6, <2>7 DEF Starts
<1>. QED BY <1>4, <1>5

LEMMA LogOpensCharge == ASSUME IInv, OpenCharge PROVE Same \/ Starts
<1>1. /\ Running("open_charge") /\ Then(<<>>) /\ UNCHANGED drives
  BY DEF OpenCharge
<1>2. ~Closing /\ todo # <<>>
  BY <1>1, Passed DEF IInv, Ops, Closers
<1>3. OpenDrives = {} /\ OpenDrives' = {}
  <2>1. kind = "Charging" /\ Left = 2
    BY <1>1, <1>2, Turn DEF IInv, Running, TypeOK, Activity
  <2>. QED BY <1>1, <2>1 DEF IInv, Charging, OpenDrives
<1>4. CASE OpenCharges # {}
  BY <1>1, <1>4, LogQuiet DEF OpenCharge
<1>5. CASE OpenCharges = {}
  <2>1. PICK row : row.end_date = None /\ processes' = With(processes, NextId(processes), row)
    BY <1>5 DEF OpenCharge
  <2>2. PICK id : /\ id \notin DOMAIN processes /\ DOMAIN processes' = DOMAIN processes \cup {id}
                  /\ processes'[id] = row /\ \A i \in DOMAIN processes : processes'[i] = processes[i]
    BY <2>1, ChargeOpened DEF IInv
  <2>3. OpenCharges' = {id}
    BY <1>5, <2>1, <2>2 DEF OpenCharges
  <2>4. DOMAIN processes' \ OpenCharges' = DOMAIN processes \ OpenCharges
    BY <1>5, <2>2, <2>3
  <2>5. Spans' = Spans
    BY <1>1, <1>3, <2>2, <2>4, SameSpans
  <2>6. Opened = {} /\ Opened' = {<<"charge", id>>}
    BY <1>3, <1>5, <2>3 DEF Opened
  <2>7. \A e \in Spans : <<e[1], e[2]>> # <<"charge", id>>
    BY <2>2 DEF Spans
  <2>. QED BY <2>5, <2>6, <2>7 DEF Starts
<1>. QED BY <1>4, <1>5

LEMMA LogInsertsCharge == ASSUME IInv, InsertCharge PROVE Same
<1>1. /\ Running("insert_charge") /\ Then(<<>>) /\ UNCHANGED drives
      /\ processes' = [processes EXCEPT ![LatestCharge].charges = @ \cup {now}]
  BY DEF InsertCharge
<1>2. ~Closing /\ todo # <<>>
  BY <1>1, Passed DEF IInv, Ops, Closers
<1>3. kind = "Charging" /\ Left = 1
  BY <1>1, <1>2, Turn DEF IInv, Running, TypeOK, Activity
<1>4. PICK c \in OpenCharges : LatestCharge = c
  <2>1. OpenCharges # {}
    BY <1>2, <1>3 DEF IInv, Charging
  <2>. QED BY <2>1, TheCharge DEF IInv
<1>5. c \in DOMAIN processes /\ processes[c] \in Process
  BY DEF IInv, OpenCharges, TypeOK
<1>6. /\ DOMAIN processes' = DOMAIN processes
      /\ \A e \in DOMAIN processes \ {c} : processes'[e] = processes[e]
      /\ processes'[c] = [processes[c] EXCEPT !.charges = @ \cup {now}]
  BY <1>1, <1>4, <1>5
<1>7. processes'[c].end_date = processes[c].end_date
  BY <1>5, <1>6 DEF Process
<1>8. OpenCharges' = OpenCharges /\ OpenDrives' = OpenDrives
  BY <1>1, <1>5, <1>6, <1>7 DEF OpenCharges, OpenDrives
<1>9. Spans' = Spans
  <2>1. \A e \in DOMAIN processes \ OpenCharges : e # c
    OBVIOUS
  <2>. QED BY <1>1, <1>6, <1>8, <2>1, SameSpans
<1>. QED BY <1>8, <1>9 DEF Same, Opened

LEMMA LogClosesDrive == ASSUME IInv, CloseDrive PROVE Same \/ Stops
<1>1. PICK d \in OpenDrives : Running("close_drive") /\ Head(todo).ids = {d}
  BY DEF IInv, Closes, Closing, CloseDrive, Running, Closers
<1>2. UNCHANGED processes
  BY DEF CloseDrive
<1>3. \/ UNCHANGED drives
      \/ /\ ~TooShort(d)
         /\ drives' = [drives EXCEPT ![d] = [start_date |-> positions[FirstOf(Attached(d))].date,
                                             end_date   |-> positions[LastOf(Attached(d))].date]]
  BY <1>1 DEF CloseDrive
<1>4. CASE UNCHANGED drives
  BY <1>2, <1>4, LogQuiet
<1>5. CASE /\ ~TooShort(d)
           /\ drives' = [drives EXCEPT ![d] = [start_date |-> positions[FirstOf(Attached(d))].date,
                                               end_date   |-> positions[LastOf(Attached(d))].date]]
  <2>1. PICK u \in 0..now, t \in 0..now : /\ u <= t /\ OpenDrives' = {} /\ OpenCharges' = {}
                                          /\ Spans' = Spans \cup {<<"drive", d, u, t>>}
    <3>1. \E f \in Attached(d), u \in 0..now, t \in 0..now :
            /\ u = positions[f].date /\ u <= t
            /\ DOMAIN drives' = DOMAIN drives /\ \A e \in DOMAIN drives \ {d} : drives'[e] = drives[e]
            /\ drives'[d].start_date = u /\ drives'[d].end_date = t
            /\ OpenDrives' = {} /\ OpenCharges' = {}
            /\ Spans' = Spans \cup {<<"drive", d, u, t>>}
      BY <1>2, <1>5, DriveCloses
    <3>. QED BY <3>1
  <2>2. Opened = {<<"drive", d>>} /\ Opened' = {}
    <3>1. OpenDrives = {d} /\ OpenCharges = {}
      BY TheDrive DEF IInv
    <3>. QED BY <2>1, <3>1 DEF Opened
  <2>3. PICK e : e = <<"drive", d, u, t>>
    OBVIOUS
  <2>4. <<e[1], e[2]>> = <<"drive", d>> /\ e[3] <= e[4]
    BY <2>1, <2>3
  <2>. QED BY <2>1, <2>2, <2>3, <2>4 DEF Stops
<1>. QED BY <1>3, <1>4, <1>5

LEMMA LogDeletesDrive == ASSUME IInv, DeleteDrive PROVE Goes
<1>1. /\ Running("delete_drive") /\ Then(<<>>) /\ UNCHANGED processes
      /\ \E d \in Head(todo).ids : drives' = Without(drives, d)
  BY DEF DeleteDrive
<1>2. Closing
  BY <1>1, Closed DEF Closers
<1>3. PICK d \in OpenDrives : Head(todo).ids = {d}
  BY <1>1, <1>2 DEF IInv, Closes, Running
<1>4. OpenDrives = {d} /\ OpenCharges = {}
  BY TheDrive DEF IInv
<1>5. DOMAIN drives' = DOMAIN drives \ {d} /\ \A e \in DOMAIN drives' : drives'[e] = drives[e]
  BY <1>1, <1>3 DEF Without
<1>6. OpenDrives' = {} /\ OpenCharges' = {}
  BY <1>1, <1>4, <1>5 DEF OpenDrives, OpenCharges
<1>7. Spans' = Spans
  BY <1>1, <1>4, <1>5, <1>6, SameSpans
<1>. QED BY <1>4, <1>6, <1>7 DEF Goes, Opened

LEMMA LogCompletesCharge == ASSUME IInv, CompleteCharge PROVE Stops \/ Goes
<1>1. PICK c \in OpenCharges : Running("complete_charge") /\ Head(todo).ids = {c}
  BY DEF IInv, Closes, Closing, CompleteCharge, Running, Closers
<1>2. /\ UNCHANGED drives
      /\ processes' = IF processes[c].charges = {} THEN Without(processes, c)
                      ELSE [processes EXCEPT ![c].end_date = Newest(processes[c].charges)]
  BY <1>1 DEF CompleteCharge
<1>3. OpenCharges = {c} /\ OpenDrives = {} /\ Opened = {<<"charge", c>>}
  BY TheCharge DEF IInv, Opened
<1>4. CASE processes[c].charges = {}
  <2>1. DOMAIN processes' = DOMAIN processes \ {c} /\ \A i \in DOMAIN processes' : processes'[i] = processes[i]
    BY <1>2, <1>4 DEF Without
  <2>2. OpenDrives' = {} /\ OpenCharges' = {}
    BY <1>2, <1>3, <2>1 DEF OpenDrives, OpenCharges
  <2>3. Spans' = Spans
    BY <1>2, <1>3, <2>1, <2>2, SameSpans
  <2>. QED BY <1>3, <2>2, <2>3 DEF Goes, Opened
<1>5. CASE processes[c].charges # {}
  <2>1. PICK u \in Nat, t \in 0..now : /\ u <= t /\ OpenDrives' = {} /\ OpenCharges' = {}
                                       /\ Spans' = Spans \cup {<<"charge", c, u, t>>}
    BY <1>2, <1>5, ChargeCloses
  <2>2. Opened' = {}
    BY <2>1 DEF Opened
  <2>3. PICK e : e = <<"charge", c, u, t>>
    OBVIOUS
  <2>4. <<e[1], e[2]>> = <<"charge", c>> /\ e[3] <= e[4]
    BY <2>1, <2>3
  <2>. QED BY <1>3, <2>1, <2>2, <2>3, <2>4 DEF Stops
<1>. QED BY <1>4, <1>5

\* For every reading, with a range or without one, the logger implements
\* SessionLog: each statement opens, ends or discards the one session of the
\* car, or leaves the log as it is.
THEOREM SessionsKeepLog == Spec => KeepsLog
<1>1. Init => Log!Init
  <2>1. SUFFICES ASSUME Init PROVE Log!Init
    OBVIOUS
  <2>2. Spans = {}
    <3>1. /\ \A d \in DOMAIN drives : drives[d] = [start_date |-> 0, end_date |-> None]
          /\ \A c \in DOMAIN processes : processes[c] = [start_date |-> 0, end_date |-> None, charges |-> {0}]
      BY <2>1 DEF Init
    <3>2. DOMAIN drives \ OpenDrives = {} /\ DOMAIN processes \ OpenCharges = {}
      BY <3>1 DEF OpenDrives, OpenCharges
    <3>. QED BY <3>2 DEF Spans
  <2>3. Alone
    BY <2>1, InitInv DEF IInv
  <2>. QED BY <2>2, <2>3 DEF Alone, Log!Init
<1>2. IInv /\ [Next]_vars => [Log!Next]_(Log!vars)
  <2>1. SUFFICES ASSUME IInv, [Next]_vars PROVE Same \/ Starts \/ Stops \/ Goes
    BY LogStep
  <2>2. CASE UNCHANGED <<drives, processes>>
    BY <2>2, LogQuiet
  <2>3. CASE OpenDrive \/ OpenCharge \/ InsertCharge \/ CloseDrive \/ DeleteDrive \/ CompleteCharge
    BY <2>1, <2>3, LogOpensDrive, LogOpensCharge, LogInsertsCharge, LogClosesDrive, LogDeletesDrive,
       LogCompletesCharge
  <2>4. \/ UNCHANGED <<drives, processes>>
        \/ OpenDrive \/ OpenCharge \/ InsertCharge \/ CloseDrive \/ DeleteDrive \/ CompleteCharge
    BY <2>1 DEF Next, vars, tables, Ingest, PersistSnapshot, AttachToDrive, AttachRecentPosition, SelectSessions,
       StreamOpens, StreamRow, StreamEnds, Fails, Restart, Tick
  <2>. QED BY <2>2, <2>3, <2>4
<1>. QED BY <1>1, <1>2, Invariant, PTL DEF Spec, KeepsLog, Log!Spec
=============================================================================
