-------------------------- MODULE PositionsProofs --------------------------
(***************************************************************************)
(* Proofs about Positions: whatever import copied and wherever compact     *)
(* stops, drives and charges keep their positions and routes their points, *)
(* and what compact has finished is compact.                               *)
(***************************************************************************)
EXTENDS Positions, FiniteSetTheorems, FunctionTheorems, WellFoundedInduction, TLAPS

Kinds ==
  /\ points \subseteq Point
  /\ drives \in [Drives -> Drive]
  /\ charged \subseteq Ids
  /\ compact \in [at : {"no", "drives", "rest", "end"}, ref : SUBSET Ids, todo : SUBSET Drives]
  /\ copying \in {None, "drives", "processes", "stopped"}
  /\ source \in DOMAIN TeslaMate

\* Of two streamed points in a bucket the later one is referred to.
Thin(d) ==
  \A p, q \in points :
    ~p.full /\ ~q.full /\ p.drive = d /\ q.drive = d /\ Bucket(p) = Bucket(q) /\ p.id < q.id
      => q.id \in compact.ref

\* While compact runs it is alone, and its list of references stays true.
Compacting ==
  compact.at # "no" =>
    /\ ~up /\ copying \in {None, "stopped"}
    /\ compact.ref = Referenced \cap Ids
    /\ \A d \in Drives \ compact.todo : Thin(d)
    /\ compact.at = "end" => compact.todo = {} /\ Thin(None)

IInv == Kinds /\ Compacting

-----------------------------------------------------------------------------
(* Min and Max. *)

LEMMA MinIn ==
  ASSUME NEW S, S \subseteq Nat, S # {}
  PROVE  Min(S) \in S /\ \A y \in S : Min(S) <= y
<1>1. IsWellFoundedOn(OpToRel(<, Nat), Nat)
  BY NatLessThanWellFounded
<1>2. \E x \in S : \A y \in S : ~(<<y, x>> \in OpToRel(<, Nat))
  BY <1>1, WFMin
<1>3. \E x \in S : \A y \in S : x =< y
  <2>1. PICK x \in S : \A y \in S : ~(<<y, x>> \in OpToRel(<, Nat))
    BY <1>2
  <2>2. ASSUME NEW y \in S PROVE x =< y
    <3>1. ~(<<y, x>> \in OpToRel(<, Nat)) /\ x \in Nat /\ y \in Nat
      BY <2>1
    <3>2. ~(y < x)
      BY <3>1 DEF OpToRel
    <3>3. x \in Nat /\ y \in Nat
      OBVIOUS
    <3>. QED BY <3>2, <3>3
  <2>. QED BY <2>1, <2>2
<1>. QED BY <1>3 DEF Min

LEMMA MaxIn ==
  ASSUME NEW N \in Nat, NEW S, S \subseteq 0..N, S # {}
  PROVE  Max(S) \in S /\ \A y \in S : Max(S) >= y
<1>. DEFINE T == {N - x : x \in S}
<1>1. T \subseteq Nat /\ T # {}
  <2>1. ASSUME NEW x \in S PROVE N - x \in Nat
    <3>1. x \in 0..N
      OBVIOUS
    <3>. QED BY <3>1
  <2>. QED BY <2>1
<1>2. Min(T) \in T /\ \A y \in T : Min(T) <= y
  <2>. HIDE DEF T
  <2>. QED BY <1>1, MinIn
<1>3. PICK x \in S : Min(T) = N - x
  BY <1>2
<1>4. ASSUME NEW y \in S PROVE x >= y
  <2>1. N - x <= N - y
    BY <1>2, <1>3
  <2>2. x \in Nat /\ y \in Nat
    OBVIOUS
  <2>. QED BY <2>1, <2>2
<1>5. \E z \in S : \A y \in S : z >= y
  BY <1>4
<1>. QED BY <1>5 DEF Max

-----------------------------------------------------------------------------
(* Points. *)

LEMMA PointKinds ==
  ASSUME Kinds
  PROVE  /\ IdsOf(points) \subseteq Ids /\ Ids \subseteq Nat /\ None \notin Ids
         /\ \A p \in points : p.id \in Ids /\ p.id \in Nat /\ p.time \in Nat /\ p.drive \in Drives \cup {None}
                              /\ p.full \in BOOLEAN
<1>1. Ids \subseteq Nat /\ None \notin Ids
  BY PositionsAssumption DEF Ids
<1>2. \A p \in points : p.id \in Ids /\ p.time \in Nat /\ p.drive \in Drives \cup {None} /\ p.full \in BOOLEAN
  BY DEF Kinds, Point
<1>. QED BY <1>1, <1>2 DEF IdsOf

\* Points that get a drive keep their ids.
LEMMA SetDriveKinds ==
  ASSUME Kinds, NEW ps, ps \subseteq points, NEW d \in Drives \cup {None}, SetDrive(ps, d)
  PROVE  points' \subseteq Point /\ IdsOf(points)' = IdsOf(points)
<1>1. points' = (points \ ps) \cup {[p EXCEPT !.drive = d] : p \in ps}
  BY DEF SetDrive
<1>2. \A p \in ps : [p EXCEPT !.drive = d] \in Point /\ [p EXCEPT !.drive = d].id = p.id
  BY DEF Kinds, Point
<1>3. points' \subseteq Point
  BY <1>1, <1>2 DEF Kinds
<1>4. ASSUME NEW i \in IdsOf(points) PROVE i \in IdsOf(points')
  <2>1. PICK p \in points : i = p.id
    BY DEF IdsOf
  <2>2. p \in ps => [p EXCEPT !.drive = d] \in points' /\ [p EXCEPT !.drive = d].id = i
    BY <1>1, <1>2, <2>1
  <2>3. p \notin ps => p \in points'
    BY <1>1
  <2>. QED BY <2>1, <2>2, <2>3 DEF IdsOf
<1>5. ASSUME NEW q \in points' PROVE q.id \in IdsOf(points)
  BY <1>1, <1>2 DEF IdsOf
<1>6. IdsOf(points)' = IdsOf(points')
  BY DEF IdsOf
<1>. QED BY <1>3, <1>4, <1>5, <1>6 DEF IdsOf

-----------------------------------------------------------------------------
(* What compact deletes. *)

LEMMA SurplusRule ==
  ASSUME Kinds, NEW d \in Drives \cup {None}
  PROVE  /\ Surplus(d) \subseteq points
         /\ \A p \in Surplus(d) : ~p.full /\ p.id \notin compact.ref
         /\ \A p \in Surplus(d) : \E q \in points \ Surplus(d) :
              q.drive = p.drive /\ ~q.full /\ Bucket(q) = Bucket(p) /\ q.id < p.id
         /\ \A p, q \in points \ Surplus(d) :
              ~p.full /\ ~q.full /\ p.drive = d /\ q.drive = d /\ Bucket(p) = Bucket(q) /\ p.id < q.id
                => q.id \in compact.ref
<1>1. /\ Surplus(d) \subseteq points
      /\ \A p \in Surplus(d) : ~p.full /\ p.id \notin compact.ref /\ p \in Streamed(d) /\ p.id # First(d, p)
      /\ \A p \in Streamed(d) : p \in points /\ ~p.full /\ p.drive = d
      /\ \A p \in points : ~p.full /\ p.drive = d => p \in Streamed(d)
      /\ \A p \in Streamed(d) : p.id \notin compact.ref /\ p.id # First(d, p) => p \in Surplus(d)
  BY DEF Surplus, Streamed, PointsOf
<1>2. ASSUME NEW p \in Streamed(d)
      PROVE  \E q \in Streamed(d) : /\ Bucket(q) = Bucket(p) /\ q.id = First(d, p) /\ q.id = First(d, q)
                                    /\ \A o \in Streamed(d) : Bucket(o) = Bucket(p) => q.id <= o.id
  <2>. DEFINE B == {o \in Streamed(d) : Bucket(o) = Bucket(p)}
              I == {o.id : o \in B}
  <2>1. I \subseteq Nat /\ I # {}
    BY <1>1, PointKinds
  <2>2. Min(I) \in I /\ \A y \in I : Min(I) <= y
    <3>. HIDE DEF I
    <3>. QED BY <2>1, MinIn
  <2>3. First(d, p) = Min(I)
    BY DEF First
  <2>4. PICK q \in B : q.id = Min(I)
    BY <2>2
  <2>5. First(d, q) = Min(I)
    BY <2>4 DEF First
  <2>6. \A o \in B : q.id <= o.id
    BY <2>2, <2>4
  <2>. QED BY <2>3, <2>4, <2>5, <2>6
<1>3. ASSUME NEW p \in Surplus(d)
      PROVE  \E q \in points \ Surplus(d) :
               q.drive = p.drive /\ ~q.full /\ Bucket(q) = Bucket(p) /\ q.id < p.id
  <2>1. PICK q \in Streamed(d) : /\ Bucket(q) = Bucket(p) /\ q.id = First(d, p) /\ q.id = First(d, q)
                                 /\ \A o \in Streamed(d) : Bucket(o) = Bucket(p) => q.id <= o.id
    BY <1>1, <1>2
  <2>2. q \in points \ Surplus(d) /\ q.drive = p.drive /\ ~q.full
    BY <1>1, <2>1
  <2>3. q.id <= p.id /\ q.id # p.id /\ q.id \in Nat /\ p.id \in Nat
    BY <1>1, <2>1, <2>2, PointKinds
  <2>. QED BY <2>1, <2>2, <2>3
<1>4. ASSUME NEW p \in points \ Surplus(d), NEW q \in points \ Surplus(d), ~p.full, ~q.full,
             p.drive = d, q.drive = d, Bucket(p) = Bucket(q), p.id < q.id
      PROVE  q.id \in compact.ref
  <2>1. p \in Streamed(d) /\ q \in Streamed(d)
    BY <1>1, <1>4
  <2>2. ASSUME q.id = First(d, q) PROVE FALSE
    <3>1. PICK o \in Streamed(d) : /\ Bucket(o) = Bucket(q) /\ o.id = First(d, q)
                                   /\ \A r \in Streamed(d) : Bucket(r) = Bucket(q) => o.id <= r.id
      BY <1>2, <2>1
    <3>2. q.id <= p.id
      BY <1>4, <2>1, <2>2, <3>1
    <3>. QED BY <1>4, <3>2, PointKinds
  <2>. QED BY <1>1, <2>1, <2>2
<1>. QED BY <1>1, <1>3, <1>4

\* The rows that refer to positions are left as they are.
LEMMA Deleted ==
  ASSUME Kinds, compact.ref = Referenced \cap Ids, NEW d \in Drives \cup {None}, Delete(Surplus(d))
  PROVE  /\ points' = points \ Surplus(d) /\ drives' = drives
         /\ \A i \in compact.ref : i \in IdsOf(points) => i \in IdsOf(points')
<1>. DEFINE lost == IdsOf(Surplus(d))
<1>1. points' = points \ Surplus(d) /\ Surplus(d) \subseteq points
  BY SurplusRule DEF Delete
<1>2. lost \subseteq Ids /\ \A i \in lost : i \notin compact.ref
  <2>1. \A p \in Surplus(d) : p.id \in Ids /\ p.id \notin compact.ref
    BY <1>1, PointKinds, SurplusRule
  <2>. QED BY <2>1 DEF IdsOf
<1>3. \A e \in Drives : drives[e].start \notin lost /\ drives[e].end \notin lost
  BY <1>2 DEF Referenced
<1>4. drives' = drives
  <2>1. drives' = [e \in Drives |-> [drives[e] EXCEPT
                     !.start = IF drives[e].start \in lost THEN None ELSE drives[e].start,
                     !.end   = IF drives[e].end \in lost THEN None ELSE drives[e].end]]
    BY DEF Delete
  <2>2. \A e \in Drives : drives[e] \in Drive
    BY DEF Kinds
  <2>3. \A e \in Drives : [drives[e] EXCEPT !.start = drives[e].start, !.end = drives[e].end] = drives[e]
    BY <2>2 DEF Drive
  <2>. HIDE DEF lost
  <2>4. drives' = [e \in Drives |-> drives[e]]
    BY <1>3, <2>1, <2>3
  <2>. QED BY <2>4 DEF Kinds
<1>5. ASSUME NEW i \in compact.ref, i \in IdsOf(points) PROVE i \in IdsOf(points')
  <2>1. PICK p \in points : p.id = i
    BY <1>5 DEF IdsOf
  <2>2. p \notin Surplus(d)
    BY <2>1, SurplusRule
  <2>. QED BY <1>1, <2>1, <2>2 DEF IdsOf
<1>. QED BY <1>1, <1>4, <1>5

-----------------------------------------------------------------------------
(* Each step. *)

LEMMA InitInv == ASSUME Init PROVE IInv
<1>1. \A d \in Drives : drives[d] = NoDrive /\ drives[d].state = "none"
  BY DEF Init, NoDrive
<1>2. Kinds
  <2>1. NoDrive \in Drive
    BY DEF NoDrive, Drive
  <2>2. NotCompacting \in [at : {"no", "drives", "rest", "end"}, ref : SUBSET Ids, todo : SUBSET Drives]
    BY DEF NotCompacting
  <2>. QED BY <2>1, <2>2, PositionsAssumption DEF Init, Kinds
<1>3. compact.at = "no"
  BY DEF Init, NotCompacting
<1>. QED BY <1>2, <1>3 DEF IInv, Compacting

\* The rollup, the clock and the processes.
LEMMA Same ==
  ASSUME IInv, UNCHANGED <<points, drives, charged, compact, copying>>, source' \in DOMAIN TeslaMate,
         up' => up \/ compact.at = "no"
  PROVE  IInv'
<1>1. Kinds'
  BY DEF IInv, Kinds
<1>2. Compacting'
  BY DEF IInv, Compacting, Referenced, Thin
<1>. QED BY <1>1, <1>2 DEF IInv

\* The logger is alone with compact never.
LEMMA Logs == ASSUME IInv, up, UNCHANGED compact, Kinds' PROVE IInv'
<1>1. compact.at = "no"
  BY DEF IInv, Compacting
<1>. QED BY <1>1 DEF IInv, Compacting

LEMMA InsertInv ==
  ASSUME IInv, NEW full \in BOOLEAN, NEW d \in Drives \cup {None}, Insert(full, d), now \in 0..MaxTime,
         UNCHANGED <<drives, charged, compact, copying, source>>
  PROVE  IInv'
<1>. SUFFICES ASSUME NEW p, p = [id |-> NextId, time |-> now, drive |-> d, full |-> full]
              PROVE  IInv'
  OBVIOUS
<1>1. up /\ NextId \in Ids /\ points' = points \cup {p}
  BY DEF Insert, Running
<1>2. p \in Point
  BY <1>1 DEF Point
<1>3. Kinds'
  BY <1>1, <1>2 DEF IInv, Kinds
<1>. QED BY <1>1, <1>3, Logs

LEMMA OpenDriveInv == ASSUME IInv, NEW d \in Drives, OpenDrive(d) PROVE IInv'
<1>1. PICK p \in points : /\ drives' = [drives EXCEPT ![d] = [state |-> "open", start |-> p.id, end |-> None]]
                          /\ SetDrive({p}, d)
  BY DEF OpenDrive
<1>2. up /\ UNCHANGED <<charged, compact, copying, source>>
  BY DEF OpenDrive, Running
<1>3. points' \subseteq Point /\ IdsOf(points)' = IdsOf(points)
  BY <1>1, SetDriveKinds DEF IInv
<1>4. [state |-> "open", start |-> p.id, end |-> None] \in Drive
  BY PointKinds DEF IInv, Drive
<1>5. Kinds'
  BY <1>1, <1>2, <1>3, <1>4 DEF IInv, Kinds
<1>. QED BY <1>2, <1>5, Logs

LEMMA JoinDriveInv == ASSUME IInv, NEW d \in Drives, JoinDrive(d) PROVE IInv'
<1>1. PICK p \in points : SetDrive({p}, d)
  BY DEF JoinDrive
<1>2. up /\ UNCHANGED <<drives, charged, compact, copying, source>>
  BY DEF JoinDrive, Running
<1>3. points' \subseteq Point /\ IdsOf(points)' = IdsOf(points)
  BY <1>1, SetDriveKinds DEF IInv
<1>4. Kinds'
  BY <1>2, <1>3 DEF IInv, Kinds
<1>. QED BY <1>2, <1>4, Logs

LEMMA CloseDriveInv == ASSUME IInv, NEW d \in Drives, CloseDrive(d) PROVE IInv'
<1>. DEFINE ids == IdsOf(PointsOf(d))
<1>1. /\ up /\ UNCHANGED <<points, charged, compact, copying, source>> /\ Cardinality(PointsOf(d)) > 1
      /\ drives' = [drives EXCEPT ![d] = [state |-> "closed", start |-> Min(ids), end |-> Max(ids)]]
  BY DEF CloseDrive, Running
<1>2. ids # {}
  <2>1. PointsOf(d) # {}
    BY <1>1, FS_EmptySet
  <2>. QED BY <2>1 DEF IdsOf
<1>3. ids \subseteq IdsOf(points) /\ ids \subseteq 1..MaxId /\ ids \subseteq Nat
  BY PointKinds DEF IInv, IdsOf, PointsOf, Ids
<1>4. Min(ids) \in ids /\ Max(ids) \in ids
  <2>1. MaxId \in Nat /\ ids \subseteq 0..MaxId
    <3>1. MaxId \in Nat
      BY PositionsAssumption
    <3>. HIDE DEF ids
    <3>. QED BY <1>3, <3>1
  <2>. HIDE DEF ids
  <2>2. Min(ids) \in ids
    BY <1>2, <1>3, MinIn
  <2>3. Max(ids) \in ids
    BY <1>2, <2>1, MaxIn
  <2>. QED BY <2>2, <2>3
<1>. HIDE DEF ids
<1>5. [state |-> "closed", start |-> Min(ids), end |-> Max(ids)] \in Drive
  BY <1>3, <1>4 DEF Drive, Ids
<1>6. Kinds'
  BY <1>1, <1>5 DEF IInv, Kinds
<1>. QED BY <1>1, <1>6, Logs

LEMMA DropDriveInv == ASSUME IInv, NEW d \in Drives, DropDrive(d) PROVE IInv'
<1>1. /\ up /\ UNCHANGED <<charged, compact, copying, source>>
      /\ drives' = [drives EXCEPT ![d] = NoDrive] /\ SetDrive(PointsOf(d), None)
  BY DEF DropDrive, Running
<1>2. points' \subseteq Point /\ IdsOf(points)' = IdsOf(points)
  <2>1. PointsOf(d) \subseteq points
    BY DEF PointsOf
  <2>. QED BY <1>1, <2>1, SetDriveKinds DEF IInv
<1>3. NoDrive \in Drive
  BY DEF NoDrive, Drive
<1>4. Kinds'
  BY <1>1, <1>2, <1>3 DEF IInv, Kinds
<1>. QED BY <1>1, <1>4, Logs

LEMMA OpenChargeInv == ASSUME IInv, OpenCharge PROVE IInv'
<1>1. PICK p \in points : charged' = charged \cup {p.id}
  BY DEF OpenCharge
<1>2. up /\ UNCHANGED <<points, drives, compact, copying, source>>
  BY DEF OpenCharge, Running
<1>3. Kinds'
  BY <1>1, <1>2, PointKinds DEF IInv, Kinds
<1>. QED BY <1>2, <1>3, Logs

LEMMA CompactBeginsInv == ASSUME IInv, CompactBegins PROVE IInv'
<1>1. /\ ~up' /\ copying \in {None, "stopped"} /\ UNCHANGED <<points, drives, charged, copying, source>>
      /\ compact' = [at |-> "drives", ref |-> Referenced \cap Ids, todo |-> {p.drive : p \in points} \ {None}]
  BY DEF CompactBegins
<1>2. Kinds'
  <2>1. {p.drive : p \in points} \ {None} \subseteq Drives
    BY PointKinds DEF IInv
  <2>. QED BY <1>1, <2>1 DEF IInv, Kinds
<1>4. \A d \in Drives \ compact'.todo : \A p \in points : p.drive # d
  BY <1>1, PositionsAssumption
<1>5. Compacting'
  BY <1>1, <1>4 DEF Compacting, Referenced, Thin
<1>. QED BY <1>2, <1>5 DEF IInv

\* One statement of compact.
LEMMA DeleteInv ==
  ASSUME IInv, compact.at = "drives", NEW d \in Drives \cup {None}, Delete(Surplus(d)),
         compact'.at \in {"drives", "end"}, compact'.ref = compact.ref, compact'.todo \subseteq Drives,
         compact' \in [at : {"no", "drives", "rest", "end"}, ref : SUBSET Ids, todo : SUBSET Drives],
         compact.todo \ {d} \subseteq compact'.todo,
         compact'.at = "end" => d = None /\ compact'.todo = {},
         UNCHANGED <<charged, up, copying, source>>
  PROVE  IInv'
<1>1. Kinds /\ ~up /\ copying \in {None, "stopped"} /\ compact.ref = Referenced \cap Ids
      /\ \A e \in Drives \ compact.todo : Thin(e)
  BY DEF IInv, Compacting
<1>2. points' = points \ Surplus(d) /\ drives' = drives
  BY <1>1, Deleted
<1>3. Kinds'
  BY <1>1, <1>2 DEF Kinds
<1>6. Thin(d)'
  BY <1>1, <1>2, SurplusRule DEF Thin, Bucket
<1>7. \A e \in Drives : Thin(e) => Thin(e)'
  BY <1>2 DEF Thin, Bucket
<1>8. \A e \in Drives \ compact'.todo : Thin(e)'
  <2>. SUFFICES ASSUME NEW e \in Drives, e \notin compact'.todo PROVE Thin(e)'
    OBVIOUS
  <2>1. e = d \/ e \notin compact.todo
    OBVIOUS
  <2>. QED BY <1>1, <1>6, <1>7, <2>1
<1>9. Compacting'
  <2>1. Referenced' = Referenced
    BY <1>2 DEF Referenced
  <2>. QED BY <1>1, <1>6, <1>8, <2>1 DEF Compacting
<1>. QED BY <1>3, <1>9 DEF IInv

LEMMA CompactDriveInv == ASSUME IInv, NEW d \in Drives, CompactDrive(d) PROVE IInv'
<1>1. /\ compact.at = "drives" /\ Delete(Surplus(d)) /\ UNCHANGED <<charged, up, copying, source>>
      /\ compact' = [compact EXCEPT !.todo = @ \ {d}]
  BY DEF CompactDrive
<1>2. /\ compact' \in [at : {"no", "drives", "rest", "end"}, ref : SUBSET Ids, todo : SUBSET Drives]
      /\ compact'.at = "drives" /\ compact'.ref = compact.ref /\ compact'.todo = compact.todo \ {d}
      /\ compact'.todo \subseteq Drives
  BY <1>1 DEF IInv, Kinds
<1>3. compact'.at \in {"drives", "end"} /\ compact.todo \ {d} \subseteq compact'.todo
      /\ (compact'.at = "end" => d = None /\ compact'.todo = {})
  BY <1>2
<1>4. d \in Drives \cup {None}
  OBVIOUS
<1>. QED BY <1>1, <1>2, <1>3, <1>4, DeleteInv

LEMMA CompactRestInv == ASSUME IInv, CompactRest PROVE IInv'
<1>1. /\ compact.at = "drives" /\ compact.todo = {} /\ Delete(Surplus(None))
      /\ UNCHANGED <<charged, up, copying, source>> /\ compact' = [compact EXCEPT !.at = "end"]
  BY DEF CompactRest
<1>2. /\ compact' \in [at : {"no", "drives", "rest", "end"}, ref : SUBSET Ids, todo : SUBSET Drives]
      /\ compact'.at = "end" /\ compact'.ref = compact.ref /\ compact'.todo = {}
  BY <1>1 DEF IInv, Kinds
<1>3. compact'.at \in {"drives", "end"} /\ compact.todo \ {None} \subseteq compact'.todo
      /\ compact'.todo \subseteq Drives /\ (compact'.at = "end" => None = None /\ compact'.todo = {})
  BY <1>1, <1>2
<1>4. None \in Drives \cup {None}
  OBVIOUS
<1>. QED BY <1>1, <1>2, <1>3, <1>4, DeleteInv

LEMMA CompactStopsInv == ASSUME IInv, CompactStops PROVE IInv'
<1>1. compact' = NotCompacting /\ UNCHANGED <<points, drives, charged, copying, source>>
  BY DEF CompactStops
<1>2. Kinds' /\ compact'.at = "no"
  BY <1>1 DEF IInv, Kinds, NotCompacting
<1>. QED BY <1>2 DEF IInv, Compacting

\* What is copied is of the kinds that TeslaMate's tables have, whether or not it
\* fits together.
LEMMA ImportInv ==
  ASSUME IInv, ImportPositions \/ ImportDrives \/ ImportProcesses \/ ImportStops
  PROVE  IInv'
<1>1. compact.at = "no" /\ compact' = compact
  BY PositionsAssumption DEF ImportPositions, ImportDrives, ImportProcesses, ImportStops, IInv, Compacting
<1>2. Compacting'
  BY <1>1 DEF Compacting
<1>3. /\ TeslaMate[source].points \subseteq Point /\ TeslaMate[source].drives \in [Drives -> Drive]
      /\ TeslaMate[source].charged \subseteq Ids
  BY PositionsAssumption DEF IInv, Kinds
<1>4. Kinds'
  BY <1>1, <1>3 DEF ImportPositions, ImportDrives, ImportProcesses, ImportStops, IInv, Kinds
<1>. QED BY <1>2, <1>4 DEF IInv

-----------------------------------------------------------------------------
(* Results. *)

\* The clock only goes forward.
LEMMA ClockInit == ASSUME Init PROVE now \in 0..MaxTime
BY PositionsAssumption DEF Init

LEMMA ClockNext == ASSUME now \in 0..MaxTime, [Next]_vars PROVE now' \in 0..MaxTime
<1>. USE PositionsAssumption
<1>1. now' = now \/ Tick
  BY DEF Next, vars, Command, Ensure, Open, OpenWithoutRollup, Stop, Reading, Refresh, RefreshFails, OpenCharge,
         StreamRow, OpenDrive, JoinDrive, CloseDrive, DropDrive, CompactDrive, CompactBegins, CompactRest,
         CompactStops, ImportPositions, ImportDrives, ImportProcesses, ImportStops, SourceMoves
<1>. QED BY <1>1 DEF Tick

LEMMA Inductive == ASSUME IInv, now \in 0..MaxTime, [Next]_vars PROVE IInv'
<1>1. CASE \/ UNCHANGED vars
           \/ Command \/ Open \/ OpenWithoutRollup \/ Stop \/ Tick \/ Refresh \/ RefreshFails \/ SourceMoves
  <2>1. UNCHANGED <<points, drives, charged, compact, copying>> /\ source' \in DOMAIN TeslaMate
    BY <1>1 DEF vars, Command, Open, OpenWithoutRollup, Stop, Tick, Refresh, RefreshFails, SourceMoves, IInv, Kinds
  <2>2. up' => up \/ compact.at = "no"
    BY <1>1 DEF vars, Command, Open, Ensure, OpenWithoutRollup, Stop, Tick, Refresh, RefreshFails, SourceMoves
  <2>. QED BY <2>1, <2>2, Same
<1>2. CASE \E full \in BOOLEAN : Reading(full)
  BY <1>2, InsertInv DEF Reading
<1>3. CASE \E d \in Drives \cup {None} : StreamRow(d)
  BY <1>3, InsertInv DEF StreamRow
<1>4. CASE \E d \in Drives : OpenDrive(d) \/ JoinDrive(d) \/ CloseDrive(d) \/ DropDrive(d) \/ CompactDrive(d)
  BY <1>4, OpenDriveInv, JoinDriveInv, CloseDriveInv, DropDriveInv, CompactDriveInv
<1>5. CASE OpenCharge \/ CompactBegins \/ CompactRest \/ CompactStops
  BY <1>5, OpenChargeInv, CompactBeginsInv, CompactRestInv, CompactStopsInv
<1>6. CASE ImportPositions \/ ImportDrives \/ ImportProcesses \/ ImportStops
  BY <1>6, ImportInv
<1>. QED BY <1>1, <1>2, <1>3, <1>4, <1>5, <1>6 DEF Next

\* From the first start on compact is alone, and its references stay true.
THEOREM PositionsInvariant == Spec => [](IInv /\ now \in 0..MaxTime)
<1>1. Init => IInv /\ now \in 0..MaxTime
  BY InitInv, ClockInit
<1>2. (IInv /\ now \in 0..MaxTime) /\ [Next]_vars => (IInv /\ now \in 0..MaxTime)'
  BY Inductive, ClockNext
<1>. QED BY <1>1, <1>2, PTL DEF Spec

\* db.rs: whatever import copied, and wherever compact stops, a closed drive and a
\* charge keep the positions they refer to, and only import replaces them.
THEOREM EndsAreKept == Spec => EndsKept
<1>. DEFINE Keep == /\ \A d \in Drives : drives[d].state = "closed" => drives'[d] = drives[d]
                    /\ charged \subseteq charged'
                    /\ Ends \cap IdsOf(points) \subseteq IdsOf(points')
<1>1. ASSUME IInv, [Next]_vars, ~(ImportPositions \/ ImportDrives \/ ImportProcesses) PROVE Keep
  <2>1. CASE \E d \in Drives \cup {None} : Delete(Surplus(d)) /\ compact.at = "drives" /\ UNCHANGED charged
    <3>1. PICK d \in Drives \cup {None} : Delete(Surplus(d))
      BY <2>1
    <3>2. Kinds /\ compact.ref = Referenced \cap Ids
      BY <1>1, <2>1 DEF IInv, Compacting
    <3>3. drives' = drives /\ \A i \in compact.ref : i \in IdsOf(points) => i \in IdsOf(points')
      BY <3>1, <3>2, Deleted
    <3>4. Ends \cap IdsOf(points) \subseteq compact.ref
      <4>1. Ends \subseteq Referenced /\ IdsOf(points) \subseteq Ids
        BY <3>2, PointKinds DEF Ends, Referenced
      <4>. QED BY <3>2, <4>1
    <3>. QED BY <2>1, <3>3, <3>4
  <2>2. CASE /\ IdsOf(points) \subseteq IdsOf(points') /\ charged \subseteq charged'
             /\ \A d \in Drives : drives[d].state = "closed" => drives'[d] = drives[d]
    BY <2>2
  <2>3. \/ UNCHANGED <<points, drives>> /\ charged \subseteq charged'
        \/ \E full \in BOOLEAN : Reading(full)
        \/ \E d \in Drives \cup {None} : StreamRow(d)
        \/ \E d \in Drives \cup {None} : Delete(Surplus(d)) /\ compact.at = "drives" /\ UNCHANGED charged
        \/ \E d \in Drives : OpenDrive(d) \/ JoinDrive(d) \/ DropDrive(d) \/ CloseDrive(d)
    BY <1>1 DEF Next, vars, Command, Open, OpenWithoutRollup, Stop, Tick, Refresh, RefreshFails, OpenCharge,
         CompactDrive, CompactBegins, CompactRest, CompactStops, ImportStops, SourceMoves
  <2>4. CASE (\E full \in BOOLEAN : Reading(full)) \/ \E d \in Drives \cup {None} : StreamRow(d)
    <3>1. points \subseteq points' /\ UNCHANGED <<drives, charged>>
      BY <2>4 DEF Reading, StreamRow, Insert
    <3>. QED BY <2>2, <3>1 DEF IdsOf
  <2>5. CASE \E d \in Drives : OpenDrive(d) \/ JoinDrive(d) \/ DropDrive(d) \/ CloseDrive(d)
    <3>1. PICK d \in Drives : OpenDrive(d) \/ JoinDrive(d) \/ DropDrive(d) \/ CloseDrive(d)
      BY <2>5
    <3>2. IdsOf(points') = IdsOf(points)
      <4>1. UNCHANGED points \/ \E ps \in SUBSET points, e \in Drives \cup {None} : SetDrive(ps, e)
        <5>1. PointsOf(d) \subseteq points
          BY DEF PointsOf
        <5>. QED BY <3>1, <5>1 DEF OpenDrive, JoinDrive, DropDrive, CloseDrive
      <4>. QED BY <1>1, <4>1, SetDriveKinds DEF IInv, IdsOf
    <3>3. UNCHANGED charged /\ (drives' = drives \/ \E row : drives' = [drives EXCEPT ![d] = row])
      BY <3>1 DEF OpenDrive, JoinDrive, DropDrive, CloseDrive
    <3>4. drives' = drives \/ drives[d].state # "closed"
      BY <3>1 DEF OpenDrive, JoinDrive, DropDrive, CloseDrive, OpenDrives
    <3>5. \A e \in Drives : drives[e].state = "closed" => drives'[e] = drives[e]
      BY <1>1, <3>3, <3>4 DEF IInv, Kinds
    <3>. QED BY <2>2, <3>2, <3>3, <3>5
  <2>6. CASE UNCHANGED <<points, drives>> /\ charged \subseteq charged'
    BY <2>2, <2>6 DEF IdsOf
  <2>. QED BY <2>1, <2>3, <2>4, <2>5, <2>6
<1>2. IInv /\ [Next]_vars => ImportPositions \/ ImportDrives \/ ImportProcesses \/ Keep
  BY <1>1
<1>. QED BY <1>2, PositionsInvariant, PTL DEF Spec, EndsKept

\* db.rs: a compact that gets to its end leaves one streamed point of a drive in
\* each bucket besides those that are referred to.
THEOREM CompactIsThorough == Spec => []Compacted
<1>1. ASSUME IInv PROVE Compacted
  <2>. SUFFICES ASSUME compact.at = "end", NEW p \in points, NEW q \in points, ~p.full, ~q.full,
                       p.drive = q.drive, Bucket(p) = Bucket(q), p.id < q.id
                PROVE  q.id \in Referenced
    BY DEF Compacted
  <2>1. p.drive \in Drives \cup {None}
    BY <1>1, PointKinds DEF IInv
  <2>2. Thin(p.drive) /\ compact.ref \subseteq Referenced
    BY <1>1, <2>1 DEF IInv, Compacting
  <2>. QED BY <2>2 DEF Thin
<1>2. IInv => Compacted
  BY <1>1
<1>. QED BY <1>2, PositionsInvariant, PTL

\* Only import takes readings away, and compact leaves of the streamed points of
\* a drive the first in each bucket.
THEOREM RoutesAreKept == Spec => RoutesKept
<1>. DEFINE Route == ImportPositions \/ \A p \in points :
       \/ p.id \in IdsOf(points')
       \/ /\ ~p.full
          /\ \E q \in points' : q.drive = p.drive /\ ~q.full /\ Bucket(q) = Bucket(p) /\ q.id < p.id
<1>1. ASSUME IInv, [Next]_vars PROVE Route \/ UNCHANGED vars
  <2>1. CASE \E d \in Drives \cup {None} : Delete(Surplus(d))
    <3>1. PICK d \in Drives \cup {None} : Delete(Surplus(d))
      BY <2>1
    <3>2. points' = points \ Surplus(d)
      BY <3>1 DEF Delete
    <3>3. \A p \in points : p \notin Surplus(d) => p.id \in IdsOf(points')
      BY <3>2 DEF IdsOf
    <3>4. \A p \in Surplus(d) : ~p.full /\
            \E q \in points' : q.drive = p.drive /\ ~q.full /\ Bucket(q) = Bucket(p) /\ q.id < p.id
      BY <1>1, <3>2, SurplusRule DEF IInv
    <3>. QED BY <3>3, <3>4
  <2>2. CASE IdsOf(points) \subseteq IdsOf(points')
    BY <2>2 DEF IdsOf
  <2>3. \/ points' = points \/ ImportPositions \/ \E full \in BOOLEAN : Reading(full)
        \/ \E d \in Drives \cup {None} : StreamRow(d) \/ Delete(Surplus(d))
        \/ \E d \in Drives : OpenDrive(d) \/ JoinDrive(d) \/ DropDrive(d)
    BY <1>1 DEF Next, vars, Command, Open, OpenWithoutRollup, Stop, Tick, Refresh, RefreshFails, OpenCharge,
         CloseDrive, CompactDrive, CompactBegins, CompactRest, CompactStops, ImportDrives, ImportProcesses,
         ImportStops, SourceMoves
  <2>4. CASE (\E full \in BOOLEAN : Reading(full)) \/ \E d \in Drives \cup {None} : StreamRow(d)
    <3>1. points \subseteq points'
      BY <2>4 DEF Reading, StreamRow, Insert
    <3>. QED BY <2>2, <3>1 DEF IdsOf
  <2>5. CASE \E d \in Drives : OpenDrive(d) \/ JoinDrive(d) \/ DropDrive(d)
    <3>1. \E ps \in SUBSET points, d \in Drives \cup {None} : SetDrive(ps, d)
      <4>1. \A d \in Drives : PointsOf(d) \subseteq points
        BY DEF PointsOf
      <4>. QED BY <2>5, <4>1 DEF OpenDrive, JoinDrive, DropDrive
    <3>2. IdsOf(points') = IdsOf(points)
      BY <1>1, <3>1, SetDriveKinds DEF IInv, IdsOf
    <3>. QED BY <2>2, <3>2
  <2>6. CASE points' = points
    BY <2>2, <2>6
  <2>. QED BY <2>1, <2>3, <2>4, <2>5, <2>6
<1>2. IInv /\ [Next]_vars => [Route]_vars
  BY <1>1
<1>. QED BY <1>2, PositionsInvariant, PTL DEF Spec, RoutesKept

-----------------------------------------------------------------------------
(***************************************************************************)
(* HourlyAgrees.  Only one hour of the rollup can be wrong without a sign  *)
(* of it: that of a reading which is not rolled up yet, or never was when  *)
(* the logger stopped.  No hour of the rollup is a later one, so that it   *)
(* is among those that are built when the database is opened again.        *)
(***************************************************************************)
Unique == \A p, q \in points : p.id = q.id => p = q

Past == /\ \A p \in points : p.time <= now
        /\ \A w \in Written : w <= Hour(now)
        /\ pending # None => up /\ pending = Hour(now)

RightAt(h) == FullIn(points, h) # {} => hourly[h] = Cardinality(FullIn(points, h))
Behind(h)  == h = pending \/ (~up /\ \A w \in Written : w <= h)

Rollup == missed = "no" => \A h \in Hours : RightAt(h) \/ Behind(h)

HInv == Unique /\ Past /\ Rollup

LEMMA DivMono ==
  ASSUME NEW a \in Nat, NEW b \in Nat, NEW k \in Nat \ {0}, a <= b
  PROVE  a \div k \in Nat /\ b \div k \in Nat /\ a \div k <= b \div k
<1>. DEFINE x == a \div k
            y == b \div k
<1>1. /\ x \in Nat /\ y \in Nat
      /\ a = k * x + (a % k) /\ b = k * y + (b % k)
      /\ a % k \in 0..(k - 1) /\ b % k \in 0..(k - 1)
  OBVIOUS
<1>. HIDE DEF x, y
<1>2. ASSUME x >= y + 1 PROVE FALSE
  <2>1. PICK z \in Nat : x = y + 1 + z
    <3>1. x - (y + 1) \in Nat
      BY <1>1, <1>2
    <3>2. x = y + 1 + (x - (y + 1))
      BY <1>1
    <3>. QED BY <3>1, <3>2
  <2>2. k * x = k * y + k + k * z /\ k * z >= 0
    BY <1>1, <2>1
  <2>3. k * x \in Nat /\ k * y \in Nat /\ k * z \in Nat
    BY <1>1, <2>1
  <2>. QED BY <1>1, <2>2, <2>3
<1>3. x <= y
  BY <1>1, <1>2
<1>. QED BY <1>1, <1>3 DEF x, y

LEMMA HourMono ==
  ASSUME NEW a \in Nat, NEW b \in Nat, a <= b
  PROVE  Hour(a) \in Nat /\ Hour(b) \in Nat /\ Hour(a) <= Hour(b)
BY DivMono, PositionsAssumption DEF Hour

LEMMA HoursType == Hours \subseteq Nat /\ None \notin Hours /\ Hours = 0..(MaxTime \div PerHour)
                   /\ MaxTime \div PerHour \in Nat
<1>1. MaxTime \div PerHour \in Nat
  BY DivMono, PositionsAssumption
<1>. QED BY <1>1, PositionsAssumption DEF Hours

\* As many points as ids at most.
LEMMA FullFinite ==
  ASSUME Kinds, Unique, NEW h
  PROVE  IsFiniteSet(FullIn(points, h))
<1>. DEFINE F == FullIn(points, h)
            f == [p \in F |-> p.id]
<1>1. F \subseteq points
  BY DEF FullIn
<1>. HIDE DEF F
<1>2. f \in [F -> Ids]
  BY <1>1, PointKinds
<1>3. \A p, q \in F : f[p] = f[q] => p = q
  BY <1>1 DEF Unique
<1>. HIDE DEF f
<1>4. f \in Injection(F, Ids)
  BY <1>2, <1>3, Fun_IsInj
<1>5. IsFiniteSet(Ids)
  BY FS_Interval, PositionsAssumption DEF Ids
<1>. QED BY <1>4, <1>5, FS_Injection DEF F

\* Points that get a drive stay in their hours.
LEMMA SetDriveCounts ==
  ASSUME Kinds, Unique, NEW ps, ps \subseteq points, NEW d \in Drives \cup {None}, SetDrive(ps, d)
  PROVE  /\ Unique'
         /\ \A p \in points' : \E q \in points : p.time = q.time
         /\ \A h : /\ FullIn(points, h)' = {} <=> FullIn(points, h) = {}
                   /\ Cardinality(FullIn(points, h)') = Cardinality(FullIn(points, h))
<1>. DEFINE moved(p) == IF p \in ps THEN [p EXCEPT !.drive = d] ELSE p
<1>1. \A p \in points : moved(p).id = p.id /\ moved(p).time = p.time /\ moved(p).full = p.full
  BY DEF Kinds, Point
<1>2. points' = {moved(p) : p \in points}
  BY DEF SetDrive
<1>. HIDE DEF moved
<1>3. Unique'
  BY <1>1, <1>2 DEF Unique
<1>4. \A p \in points' : \E q \in points : p.time = q.time
  BY <1>1, <1>2
<1>5. ASSUME NEW h
      PROVE  /\ FullIn(points, h)' = {} <=> FullIn(points, h) = {}
             /\ Cardinality(FullIn(points, h)') = Cardinality(FullIn(points, h))
  <2>. DEFINE F == FullIn(points, h)
              G == FullIn(points', h)
              f == [p \in F |-> moved(p)]
  <2>1. F \subseteq points /\ G = {moved(p) : p \in F}
    BY <1>1, <1>2 DEF FullIn, Hour
  <2>2. IsFiniteSet(F)
    BY FullFinite
  <2>3. FullIn(points, h)' = G
    BY DEF FullIn, Hour
  <2>. HIDE DEF F, G
  <2>4. f \in Surjection(F, G)
    BY <2>1, Fun_IsSurj
  <2>5. f \in Injection(F, G)
    <3>1. f \in [F -> G]
      BY <2>1
    <3>2. \A p, q \in F : f[p] = f[q] => p = q
      BY <1>1, <2>1 DEF Unique
    <3>. HIDE DEF f
    <3>. QED BY <3>1, <3>2, Fun_IsInj
  <2>. HIDE DEF f
  <2>6. Cardinality(G) = Cardinality(F)
    BY <2>2, <2>4, <2>5, FS_Surjection
  <2>7. G = {} <=> F = {}
    BY <2>1
  <2>. QED BY <2>3, <2>6, <2>7 DEF F
<1>. QED BY <1>3, <1>4, <1>5

\* What building hours of the rollup does.
LEMMA RolledHours ==
  ASSUME Kinds, Past, now \in Nat, NEW hs, hourly' = Rolled(hs), points' = points
  PROVE  /\ \A h \in Hours : h \in hs \/ RightAt(h) => RightAt(h)'
         /\ \A w \in Written' : w <= Hour(now)
<1>1. \A h \in Hours : hourly'[h] = IF h \in hs /\ FullIn(points, h) # {}
                                    THEN Cardinality(FullIn(points, h)) ELSE hourly[h]
  BY DEF Rolled
<1>2. \A h : FullIn(points, h)' = FullIn(points, h)
  BY DEF FullIn, Hour
<1>3. ASSUME NEW h \in Hours, h \in hs \/ RightAt(h) PROVE RightAt(h)'
  BY <1>1, <1>2, <1>3 DEF RightAt
<1>4. ASSUME NEW w \in Written' PROVE w <= Hour(now)
  <2>1. w \in Hours /\ hourly'[w] # None
    BY DEF Written
  <2>2. CASE FullIn(points, w) # {}
    <3>1. PICK p \in points : Hour(p.time) = w
      BY <2>2 DEF FullIn
    <3>. QED BY <3>1, PointKinds, HourMono DEF Past
  <2>3. CASE FullIn(points, w) = {}
    <3>1. w \in Written
      BY <1>1, <2>1, <2>3 DEF Written
    <3>. QED BY <3>1 DEF Past
  <2>. QED BY <2>2, <2>3
<1>. QED BY <1>3, <1>4

\* The database is opened: the hour that was left behind is built.
LEMMA EnsureRolls ==
  ASSUME Kinds, HInv, now \in 0..MaxTime, Ensure,
         UNCHANGED <<now, points, pending>>, up' => up \/ pending = None, pending # None => up'
  PROVE  HInv'
<1>0. now \in Nat
  BY PositionsAssumption
<1>1. hourly' = Rolled(Since) /\ Unique'
  BY DEF Ensure, HInv, Unique
<1>2. /\ \A h \in Hours : h \in Since \/ RightAt(h) => RightAt(h)'
      /\ \A w \in Written' : w <= Hour(now)
  BY <1>0, <1>1, RolledHours DEF HInv
<1>3. Past'
  BY <1>2 DEF HInv, Past, Hour
<1>4. ASSUME missed' = "no", NEW h \in Hours PROVE RightAt(h)' \/ h = pending
  <2>1. CASE Written = {}
    BY <1>2, <2>1 DEF Since
  <2>2. CASE Written # {}
    <3>1. missed = "no"
      BY <1>4, <2>2 DEF Ensure
    <3>2. Written \subseteq 0..(MaxTime \div PerHour)
      BY HoursType DEF Written
    <3>3. Max(Written) \in Written
      BY <2>2, <3>2, HoursType, MaxIn
    <3>4. Max(Written) \in Nat /\ h \in Nat
      BY <3>2, <3>3, HoursType
    <3>5. CASE \A w \in Written : w <= h
      <4>1. h \in Since
        BY <2>2, <3>3, <3>4, <3>5 DEF Since
      <4>. QED BY <1>2, <4>1
    <3>. QED BY <1>2, <3>1, <3>5 DEF HInv, Rollup, Behind
  <2>. QED BY <2>1, <2>2
<1>5. Rollup'
  BY <1>4 DEF Rollup, Behind
<1>. QED BY <1>1, <1>3, <1>5 DEF HInv

\* A step that leaves the readings in their hours, the rollup and its state alone.
LEMMA HoursKept ==
  ASSUME HInv, Unique', UNCHANGED <<now, hourly, up, pending, missed>>,
         \A p \in points' : p.time <= now,
         \A h : /\ FullIn(points, h)' = {} <=> FullIn(points, h) = {}
                /\ Cardinality(FullIn(points, h)') = Cardinality(FullIn(points, h))
  PROVE  HInv'
<1>1. Past'
  BY DEF HInv, Past, Written, Hour
<1>2. \A h \in Hours : (RightAt(h) => RightAt(h)') /\ (Behind(h) => Behind(h)')
  BY DEF RightAt, Behind, Written
<1>. QED BY <1>1, <1>2 DEF HInv, Rollup

LEMMA SetDriveHourly ==
  ASSUME Kinds, HInv, NEW ps, ps \subseteq points, NEW d \in Drives \cup {None}, SetDrive(ps, d),
         UNCHANGED <<now, hourly, up, pending, missed>>
  PROVE  HInv'
<1>1. /\ Unique'
      /\ \A p \in points' : \E q \in points : p.time = q.time
      /\ \A h : /\ FullIn(points, h)' = {} <=> FullIn(points, h) = {}
                /\ Cardinality(FullIn(points, h)') = Cardinality(FullIn(points, h))
  BY SetDriveCounts DEF HInv
<1>2. \A p \in points' : p.time <= now
  BY <1>1 DEF HInv, Past
<1>. QED BY <1>1, <1>2, HoursKept

LEMMA DeleteHourly ==
  ASSUME Kinds, HInv, NEW d \in Drives \cup {None}, Delete(Surplus(d)),
         UNCHANGED <<now, hourly, up, pending, missed>>
  PROVE  HInv'
<1>1. points' = points \ Surplus(d) /\ \A p \in Surplus(d) : ~p.full
  BY SurplusRule DEF Delete
<1>2. Unique' /\ \A p \in points' : p.time <= now
  BY <1>1 DEF HInv, Unique, Past
<1>3. \A h : FullIn(points, h)' = FullIn(points, h)
  BY <1>1 DEF FullIn, Hour
<1>. QED BY <1>2, <1>3, HoursKept

\* A new row has a new id, and only a reading changes an hour.
LEMMA InsertHourly ==
  ASSUME Kinds, HInv, now \in 0..MaxTime, NEW full \in BOOLEAN, NEW d, Insert(full, d),
         UNCHANGED <<now, hourly, up, missed>>,
         pending' = Hour(now) \/ (~full /\ pending' = pending)
  PROVE  HInv'
<1>. DEFINE new == [id |-> NextId, time |-> now, drive |-> d, full |-> full]
<1>1. points' = points \cup {new} /\ up /\ pending = None
  BY DEF Insert, Running
<1>2. now \in Nat /\ new.id = NextId /\ new.time = now /\ new.full = full
  BY PositionsAssumption
<1>3. \A p \in points : p.id # NextId
  <2>1. {0} \cup IdsOf(points) \subseteq 0..MaxId /\ MaxId \in Nat
    BY PointKinds, PositionsAssumption DEF Ids
  <2>2. \A y \in {0} \cup IdsOf(points) : Max({0} \cup IdsOf(points)) >= y
    BY <2>1, MaxIn
  <2>3. Max({0} \cup IdsOf(points)) \in Nat
    BY <2>1, MaxIn
  <2>4. ASSUME NEW p \in points PROVE p.id # NextId
    <3>1. Max({0} \cup IdsOf(points)) >= p.id /\ p.id \in Nat
      BY <2>2, PointKinds DEF IdsOf
    <3>. QED BY <2>3, <3>1 DEF NextId
  <2>. QED BY <2>4
<1>. HIDE DEF new
<1>4. Unique' /\ \A p \in points' : p.time <= now
  BY <1>1, <1>2, <1>3 DEF HInv, Unique, Past
<1>5. CASE ~full /\ pending' = pending
  <2>1. \A h : FullIn(points, h)' = FullIn(points, h)
    BY <1>1, <1>2, <1>5 DEF FullIn, Hour
  <2>. QED BY <1>4, <1>5, <2>1, HoursKept
<1>6. CASE pending' = Hour(now)
  <2>1. Past'
    BY <1>1, <1>4, <1>6 DEF HInv, Past, Written, Hour
  <2>2. \A h : h # Hour(now) => FullIn(points, h)' = FullIn(points, h)
    BY <1>1, <1>2 DEF FullIn, Hour
  <2>3. ASSUME missed = "no", NEW h \in Hours PROVE RightAt(h)' \/ Behind(h)'
    <3>1. CASE h = Hour(now)
      BY <1>6, <3>1 DEF Behind
    <3>2. CASE h # Hour(now)
      <4>1. RightAt(h)
        BY <1>1, <2>3, HoursType DEF HInv, Rollup, Behind
      <4>. QED BY <2>2, <3>2, <4>1 DEF RightAt
    <3>. QED BY <3>1, <3>2
  <2>. QED BY <1>4, <2>1, <2>3 DEF HInv, Rollup
<1>. QED BY <1>5, <1>6

LEMMA RefreshHourly == ASSUME Kinds, HInv, now \in 0..MaxTime, Refresh PROVE HInv'
<1>1. /\ hourly' = Rolled({pending}) /\ pending # None /\ pending' = None
      /\ UNCHANGED <<now, points, up, missed>> /\ now \in Nat
  BY PositionsAssumption DEF Refresh
<1>2. /\ \A h \in Hours : h \in {pending} \/ RightAt(h) => RightAt(h)'
      /\ \A w \in Written' : w <= Hour(now)
  BY <1>1, RolledHours DEF HInv
<1>3. Unique' /\ Past'
  BY <1>1, <1>2 DEF HInv, Unique, Past, Hour
<1>4. up
  BY <1>1 DEF HInv, Past
<1>5. Rollup'
  BY <1>1, <1>2, <1>4 DEF HInv, Rollup, Behind
<1>. QED BY <1>3, <1>5 DEF HInv

\* The logger stops: no hour of the rollup is later than the one it leaves.
LEMMA StopHourly == ASSUME HInv, Stop PROVE HInv'
<1>1. up /\ ~up' /\ pending' = None /\ UNCHANGED <<now, points, hourly, missed>>
  BY DEF Stop
<1>2. Unique' /\ Past' /\ Written' = Written
  BY <1>1 DEF HInv, Unique, Past, Hour, Written
<1>3. \A h \in Hours : (RightAt(h) => RightAt(h)') /\ (Behind(h) => Behind(h)')
  BY <1>1, <1>2, HoursType DEF HInv, Past, RightAt, FullIn, Hour, Behind
<1>. QED BY <1>1, <1>2, <1>3 DEF HInv, Rollup

LEMMA TickHourly == ASSUME Kinds, HInv, now \in 0..MaxTime, Tick PROVE HInv'
<1>1. /\ now \in Nat /\ now' = now + 1 /\ pending = None
      /\ UNCHANGED <<points, hourly, up, pending, missed>>
  BY PositionsAssumption DEF Tick
<1>2. Hour(now) \in Nat /\ Hour(now') \in Nat /\ Hour(now) <= Hour(now')
  BY <1>1, HourMono
<1>3. Written' = Written /\ Written \subseteq Nat
  BY <1>1, HoursType DEF Written
<1>4. \A p \in points : p.time <= now => p.time <= now'
  BY <1>1, PointKinds
<1>5. Past'
  BY <1>1, <1>2, <1>3, <1>4 DEF HInv, Past
<1>6. \A h \in Hours : (RightAt(h) => RightAt(h)') /\ (Behind(h) => Behind(h)')
  BY <1>1, <1>3 DEF RightAt, FullIn, Hour, Behind
<1>. QED BY <1>1, <1>5, <1>6 DEF HInv, Unique, Rollup

LEMMA MissedHourly ==
  ASSUME Kinds, HInv, RefreshFails \/ OpenWithoutRollup \/ ImportPositions PROVE HInv'
<1>1. missed' # "no"
  BY DEF RefreshFails, OpenWithoutRollup, ImportPositions
<1>2. \A p, q \in TeslaMate[source].points : p.id = q.id => p = q
  BY PositionsAssumption DEF Kinds
<1>3. Unique' /\ \A p \in points' : p.time <= now
  BY <1>2 DEF RefreshFails, OpenWithoutRollup, ImportPositions, HInv, Unique, Past
<1>4. Past'
  BY <1>3 DEF RefreshFails, OpenWithoutRollup, ImportPositions, HInv, Past, Written, Hour
<1>. QED BY <1>1, <1>3, <1>4 DEF HInv, Rollup

LEMMA HourlyStep ==
  ASSUME IInv, now \in 0..MaxTime, HInv, [Next]_vars PROVE HInv'
<1>0. Kinds
  BY DEF IInv
<1>1. CASE Command \/ Open
  <2>1. Ensure /\ UNCHANGED <<now, points, pending>> /\ (up' = up \/ (~up /\ up'))
    BY <1>1 DEF Command, Open
  <2>2. (up' => up \/ pending = None) /\ (pending # None => up')
    BY <2>1 DEF HInv, Past
  <2>. QED BY <1>0, <2>1, <2>2, EnsureRolls
<1>2. CASE RefreshFails \/ OpenWithoutRollup \/ ImportPositions
  BY <1>0, <1>2, MissedHourly
<1>3. CASE Stop \/ Tick \/ Refresh
  BY <1>0, <1>3, StopHourly, TickHourly, RefreshHourly
<1>4. CASE \E full \in BOOLEAN : Reading(full)
  BY <1>0, <1>4, InsertHourly DEF Reading
<1>5. CASE \E d \in Drives \cup {None} : StreamRow(d)
  BY <1>0, <1>5, InsertHourly DEF StreamRow
<1>6. CASE \E d \in Drives : OpenDrive(d) \/ JoinDrive(d) \/ DropDrive(d)
  <2>1. \E ps \in SUBSET points, d \in Drives \cup {None} : SetDrive(ps, d)
    <3>1. \A d \in Drives : PointsOf(d) \subseteq points
      BY DEF PointsOf
    <3>. QED BY <1>6, <3>1 DEF OpenDrive, JoinDrive, DropDrive
  <2>2. UNCHANGED <<now, hourly, up, pending, missed>>
    BY <1>6 DEF OpenDrive, JoinDrive, DropDrive
  <2>. QED BY <1>0, <2>1, <2>2, SetDriveHourly
<1>7. CASE CompactRest \/ \E d \in Drives : CompactDrive(d)
  <2>1. (\E d \in Drives \cup {None} : Delete(Surplus(d))) /\ UNCHANGED <<now, hourly, up, pending, missed>>
    BY <1>7 DEF CompactRest, CompactDrive
  <2>. QED BY <1>0, <2>1, DeleteHourly
<1>8. CASE \/ UNCHANGED vars \/ OpenCharge \/ CompactBegins \/ CompactStops
           \/ ImportDrives \/ ImportProcesses \/ ImportStops \/ SourceMoves
           \/ \E d \in Drives : CloseDrive(d)
  <2>1. UNCHANGED <<now, points, hourly, up, pending, missed>>
    BY <1>8 DEF vars, OpenCharge, CompactBegins, CompactStops, ImportDrives, ImportProcesses, ImportStops,
                SourceMoves, CloseDrive
  <2>. QED BY <2>1 DEF HInv, Unique, Past, Rollup, RightAt, Behind, FullIn, Hour, Written
<1>. QED BY <1>1, <1>2, <1>3, <1>4, <1>5, <1>6, <1>7, <1>8 DEF Next

\* sql.rs, db.rs: while no import and no failed statement left a gap, the rollup
\* shows every reading, wherever the logger stopped and however hours go by.
THEOREM HourlyIsRight == Spec => []HourlyAgrees
<1>1. Init => HInv
  <2>1. ASSUME Init PROVE HInv
    <3>1. points = {} /\ pending = None /\ \A h \in Hours : hourly[h] = None
      BY <2>1 DEF Init
    <3>2. Written = {} /\ \A h : FullIn(points, h) = {}
      BY <3>1 DEF Written, FullIn
    <3>. QED BY <3>1, <3>2 DEF HInv, Unique, Past, Rollup, RightAt
  <2>. QED BY <2>1
<1>2. (IInv /\ now \in 0..MaxTime) /\ HInv /\ [Next]_vars => HInv'
  BY HourlyStep
<1>3. HInv => HourlyAgrees
  <2>1. ASSUME HInv, up, pending = None, missed = "no" PROVE Agrees
    BY <2>1, HoursType DEF HInv, Rollup, RightAt, Behind, Agrees
  <2>. QED BY <2>1 DEF HourlyAgrees
<1>. QED BY <1>1, <1>2, <1>3, PositionsInvariant, PTL DEF Spec
=============================================================================
