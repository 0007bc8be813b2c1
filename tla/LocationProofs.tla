--------------------------- MODULE LocationProofs ---------------------------
(***************************************************************************)
(* Proofs about locations and prices.  Pricing: in whatever order charges  *)
(* end, locations change and syncs run, a price by an invoice stays, and   *)
(* the other charges that have ended agree with the location.              *)
(* LocationJobs: one rematch at a time, and no change is left out.         *)
(***************************************************************************)
EXTENDS Pricing, LocationJobs, TLAPS

\* A sync that has an item in hand has an invoice, and past the match a charge.
Sound(q) ==
  /\ q.at \in {"match", "seek", "link", "price"} => q.item \in Invoices
  /\ q.at \in {"link", "price"} => q.found \in Charges

Typed == TypeOK /\ \A s \in Syncs : Sound(sync[s])

\* What a sync is about to price is linked to its invoice, or has been dropped.
Held(q) == q.at = "price" => link[q.item] = q.found \/ charge[q.found].state = "gone"
HeldInv == ~lost => \A s \in Syncs : Held(sync[s])

\* An open charge has no price unless the location has one: complete_charge may
\* leave it alone when there is no location any more.
Priced(c) ==
  /\ c # closing /\ charge[c].state = "ended" => charge[c].cost = FenceCost(c)
  /\ (c = closing \/ charge[c].state = "open") /\ fence = None => charge[c].cost = None
PricedInv == ~lost /\ ~pending => \A c \in Charges : ~Linked(c) => Priced(c)

Unbegun ==
  /\ \A c \in Charges : charge[c].state = "none" => charge[c].cost = None
  /\ closing # None => charge[closing].state = "ended"

IInv == Typed /\ HeldInv /\ PricedInv /\ Unbegun

LEMMA IdleSync == Idle \in Sync /\ Failed \in Sync /\ Sound(Idle) /\ Sound(Failed)
<1>. USE PricingAssumption
<1>1. Idle \in Sync
  BY DEF Idle, Sync
<1>2. Failed \in Sync /\ Failed.at = "failed" /\ Idle.at = "idle"
  BY <1>1 DEF Idle, Sync, Failed
<1>. QED BY <1>1, <1>2 DEF Sound

LEMMA InitInv == ASSUME Init PROVE IInv
<1>. USE PricingAssumption
<1>1. tesla \in Seq(Invoices) /\ stored \subseteq Invoices
  BY DEF Init
<1>2. link \in [Invoices -> Charges \cup {None}] /\ charge \in [Charges -> Charge]
  BY DEF Init, Charge
<1>3. sync \in [Syncs -> Sync] /\ \A s \in Syncs : sync[s] = Idle
  BY IdleSync DEF Init
<1>4. Typed
  BY <1>1, <1>2, <1>3, IdleSync DEF Init, Typed, TypeOK
<1>5. HeldInv
  BY <1>3 DEF HeldInv, Held, Idle
<1>. QED BY <1>4, <1>5 DEF Init, IInv, PricedInv, Priced, Unbegun

-----------------------------------------------------------------------------
(* Types. *)

LEMMA FenceCostType == ASSUME TypeOK, NEW c \in Charges PROVE FenceCost(c) \in Cost \cup {None}
BY DEF TypeOK, FenceCost, Cost, Fences

\* A step of one sync.
LEMMA Moves ==
  ASSUME Typed, NEW s \in Syncs, NEW q \in Sync, Sound(q), Set(s, q)
  PROVE  /\ sync' \in [Syncs -> Sync]
         /\ \A r \in Syncs : Sound(sync'[r])
         /\ \A r \in Syncs : sync'[r] = IF r = s THEN q ELSE sync[r]
BY DEF Typed, TypeOK, Set

\* The next item is one of the page, the next page is one of MaxPages.
LEMMA NextItemSound ==
  ASSUME Typed, NEW s \in Syncs, NextItem(s)
  PROVE  /\ sync' \in [Syncs -> Sync]
         /\ \A r \in Syncs : Sound(sync'[r])
         /\ \A r \in Syncs : sync'[r] = sync[r] \/ sync'[r].at # "price"
<1>. USE PricingAssumption
<1>1. sync[s] \in Sync
  BY DEF Typed, TypeOK
<1>2. SUFFICES \E q \in Sync : Sound(q) /\ q.at # "price" /\ Set(s, q)
  BY Moves
<1>3. ASSUME NEW i \in sync[s].todo,
             Set(s, [sync[s] EXCEPT !.at = "match", !.item = i, !.todo = @ \ {i}, !.found = None])
      PROVE  \E q \in Sync : Sound(q) /\ q.at # "price" /\ Set(s, q)
  <2>. DEFINE q == [sync[s] EXCEPT !.at = "match", !.item = i, !.todo = @ \ {i}, !.found = None]
  <2>1. q \in Sync /\ Sound(q) /\ q.at # "price"
    BY <1>1 DEF Sync, Sound
  <2>. QED BY <1>3, <2>1
<1>. DEFINE Page2 == [Idle EXCEPT !.at = "fetch", !.page = sync[s].page + 1, !.seen = sync[s].seen]
<1>4. CASE Set(s, Page2) /\ sync[s].page < MaxPages
  <2>1. sync[s].page + 1 \in 1..MaxPages
    BY <1>1, <1>4 DEF Sync
  <2>2. Page2 \in Sync /\ Page2.at = "fetch"
    BY <1>1, <2>1, IdleSync DEF Sync, Idle
  <2>. QED BY <1>4, <2>2 DEF Sound
<1>5. CASE Set(s, Idle)
  BY <1>5, IdleSync DEF Idle
<1>. QED BY <1>3, <1>4, <1>5 DEF NextItem

-----------------------------------------------------------------------------
(* Steps of a sync that change no price and no link. *)

LEMMA OnlySync ==
  ASSUME IInv, Typed', UNCHANGED <<link, charge, fence, pending, closing, lost>>,
         \A r \in Syncs : sync'[r] = sync[r] \/ sync'[r].at # "price"
  PROVE  IInv'
<1>1. HeldInv'
  BY DEF IInv, HeldInv, Held
<1>2. PricedInv' /\ Unbegun'
  BY DEF IInv, PricedInv, Priced, Unbegun, Linked, FenceCost
<1>. QED BY <1>1, <1>2 DEF IInv

LEMMA BeginInv == ASSUME IInv, NEW s \in Syncs, Begin(s) PROVE IInv'
<1>. USE PricingAssumption
<1>. DEFINE q == [Idle EXCEPT !.at = "fetch"]
<1>1. q \in Sync /\ q.at = "fetch"
  BY IdleSync DEF Sync, Idle
<1>2. Sound(q) /\ Set(s, q)
  BY <1>1 DEF Sound, Begin
<1>3. /\ sync' \in [Syncs -> Sync] /\ \A r \in Syncs : Sound(sync'[r])
      /\ \A r \in Syncs : sync'[r] = IF r = s THEN q ELSE sync[r]
  BY <1>1, <1>2, Moves DEF IInv
<1>4. Typed'
  BY <1>3 DEF Begin, IInv, Typed, TypeOK
<1>. QED BY <1>1, <1>3, <1>4, OnlySync DEF Begin

LEMMA FailInv == ASSUME IInv, NEW s \in Syncs, Fail(s) PROVE IInv'
<1>. DEFINE q == IF s = Task THEN Failed ELSE Idle
<1>1. q \in Sync /\ q.at # "price" /\ Sound(q)
  BY IdleSync DEF Idle, Failed
<1>2. Set(s, q)
  BY DEF Fail
<1>3. /\ sync' \in [Syncs -> Sync] /\ \A r \in Syncs : Sound(sync'[r])
      /\ \A r \in Syncs : sync'[r] = IF r = s THEN q ELSE sync[r]
  BY <1>1, <1>2, Moves DEF IInv
<1>4. Typed'
  BY <1>3 DEF Fail, IInv, Typed, TypeOK
<1>. QED BY <1>1, <1>3, <1>4, OnlySync DEF Fail

LEMMA FetchInv == ASSUME IInv, NEW s \in Syncs, Fetch(s) PROVE IInv'
<1>. DEFINE new == Page(sync[s].page) \ sync[s].seen
            known == sync[s].seen \cup new
            more == sync[s].page * PageSize < Len(tesla) \/ Cardinality(known) < Len(tesla)
            q(i) == [sync[s] EXCEPT !.at = "match", !.item = i, !.todo = new \ {i},
                                    !.seen = known, !.more = more]
<1>1. sync[s] \in Sync /\ Page(sync[s].page) \subseteq Invoices
  BY DEF IInv, Typed, TypeOK, Page
<1>2. more \in BOOLEAN
  OBVIOUS
<1>3. \E p \in Sync : Sound(p) /\ p.at # "price" /\ Set(s, p)
  <2>1. ASSUME NEW i \in new, Set(s, q(i)) PROVE \E p \in Sync : Sound(p) /\ p.at # "price" /\ Set(s, p)
    <3>. HIDE DEF new, more
    <3>1. new \subseteq Invoices
      BY <1>1 DEF new
    <3>2. q(i) \in Sync /\ q(i).at = "match" /\ q(i).item = i
      BY <1>1, <1>2, <2>1, <3>1 DEF Sync
    <3>3. Sound(q(i))
      BY <2>1, <3>1, <3>2 DEF Sound
    <3>. QED BY <2>1, <3>2, <3>3
  <2>2. CASE Set(s, Idle)
    BY <2>2, IdleSync DEF Idle
  <2>. QED BY <2>1, <2>2 DEF Fetch
<1>4. PICK p \in Sync : Sound(p) /\ p.at # "price" /\ Set(s, p)
  BY <1>3
<1>5. /\ sync' \in [Syncs -> Sync] /\ \A r \in Syncs : Sound(sync'[r])
      /\ \A r \in Syncs : sync'[r] = IF r = s THEN p ELSE sync[r]
  BY <1>4, Moves DEF IInv
<1>6. Typed'
  BY <1>5 DEF Fetch, IInv, Typed, TypeOK
<1>. QED BY <1>4, <1>5, <1>6, OnlySync DEF Fetch

LEMMA MatchInv == ASSUME IInv, NEW s \in Syncs, Match(s) PROVE IInv'
<1>. USE PricingAssumption
<1>. DEFINE i == sync[s].item
<1>1. sync[s] \in Sync /\ i \in Invoices
  BY DEF Match, IInv, Typed, TypeOK, Sound
<1>2. \E q \in Sync : Sound(q) /\ q.at # "price" /\ Set(s, q)
  <2>1. CASE link[i] # None
    <3>. DEFINE q == [sync[s] EXCEPT !.at = "link", !.found = link[i]]
    <3>1. link[i] \in Charges /\ Set(s, q)
      BY <1>1, <2>1 DEF Match, Found, IInv, Typed, TypeOK
    <3>2. q \in Sync /\ Sound(q) /\ q.at = "link"
      BY <1>1, <3>1 DEF Sync, Sound
    <3>. QED BY <3>1, <3>2
  <2>2. CASE link[i] = None
    <3>. DEFINE q == [sync[s] EXCEPT !.at = "seek"]
    <3>1. Set(s, q)
      BY <2>2 DEF Match, Unlinked
    <3>2. q \in Sync /\ Sound(q) /\ q.at = "seek"
      BY <1>1 DEF Sync, Sound
    <3>. QED BY <3>1, <3>2
  <2>. QED BY <2>1, <2>2
<1>3. PICK q \in Sync : Sound(q) /\ q.at # "price" /\ Set(s, q)
  BY <1>2
<1>4. /\ sync' \in [Syncs -> Sync] /\ \A r \in Syncs : Sound(sync'[r])
      /\ \A r \in Syncs : sync'[r] = IF r = s THEN q ELSE sync[r]
  BY <1>3, Moves DEF IInv
<1>5. Typed'
  BY <1>1, <1>4 DEF Match, IInv, Typed, TypeOK
<1>. QED BY <1>3, <1>4, <1>5, OnlySync DEF Match

LEMMA SeekInv == ASSUME IInv, NEW s \in Syncs, Seek(s) PROVE IInv'
<1>. USE PricingAssumption
<1>. DEFINE i == sync[s].item
<1>1. sync[s] \in Sync /\ i \in Invoices
  BY DEF Seek, IInv, Typed, TypeOK, Sound
<1>2. /\ sync' \in [Syncs -> Sync] /\ \A r \in Syncs : Sound(sync'[r])
      /\ \A r \in Syncs : sync'[r] = sync[r] \/ sync'[r].at # "price"
  <2>1. ASSUME NEW c \in Best(i), Found(s, c)
        PROVE  \E q \in Sync : Sound(q) /\ q.at # "price" /\ Set(s, q)
    <3>. DEFINE q == [sync[s] EXCEPT !.at = "link", !.found = c]
    <3>1. c \in Charges
      BY <2>1 DEF Best, Near, Rows
    <3>2. q \in Sync /\ Sound(q) /\ q.at = "link"
      BY <1>1, <3>1 DEF Sync, Sound
    <3>. QED BY <2>1, <3>2 DEF Found
  <2>2. CASE NextItem(s)
    BY <2>2, NextItemSound DEF IInv
  <2>3. CASE \E q \in Sync : Sound(q) /\ q.at # "price" /\ Set(s, q)
    BY <2>3, Moves DEF IInv
  <2>. QED BY <2>1, <2>2, <2>3 DEF Seek
<1>3. Typed'
  BY <1>1, <1>2 DEF Seek, IInv, Typed, TypeOK
<1>. QED BY <1>2, <1>3, OnlySync DEF Seek

-----------------------------------------------------------------------------
(* A link, and the price that follows it. *)

LEMMA LinkInv == ASSUME IInv, NEW s \in Syncs, Link(s) PROVE IInv'
<1>. USE PricingAssumption
<1>. DEFINE i == sync[s].item  c == sync[s].found
<1>1. sync[s] \in Sync /\ i \in Invoices /\ c \in Charges
  BY DEF Link, IInv, Typed, TypeOK, Sound
<1>2. ASSUME c \in Rows, link' = [link EXCEPT ![i] = c],
             Set(s, [sync[s] EXCEPT !.at = "price"]),
             lost' = (lost \/ link[i] \notin {None, c}),
             UNCHANGED <<tesla, stored, charge, fence, pending, closing>>
      PROVE  IInv'
  <2>. DEFINE q == [sync[s] EXCEPT !.at = "price"]
  <2>1. q \in Sync /\ Sound(q) /\ q.at = "price" /\ q.item = i /\ q.found = c
    BY <1>1 DEF Sync, Sound
  <2>2. /\ sync' \in [Syncs -> Sync] /\ \A r \in Syncs : Sound(sync'[r])
        /\ \A r \in Syncs : sync'[r] = IF r = s THEN q ELSE sync[r]
    BY <1>2, <2>1, Moves DEF IInv
  <2>3. Typed'
    BY <1>1, <1>2, <2>2 DEF IInv, Typed, TypeOK
  <2>. HIDE DEF q, i, c
  <2>4. link' \in [Invoices -> Charges \cup {None}] /\ link \in [Invoices -> Charges \cup {None}]
    BY <2>3 DEF IInv, Typed, TypeOK
  <2>5. \A j \in Invoices : link'[j] = IF j = i THEN c ELSE link[j]
    BY <1>2, <2>4
  <2>6. HeldInv'
    <3>1. ASSUME ~lost', NEW r \in Syncs PROVE Held(sync[r])' 
      <4>1. CASE r = s
        BY <1>1, <2>1, <2>2, <2>5, <4>1 DEF Held
      <4>2. CASE r # s /\ sync[r].at = "price"
        <5>1. sync'[r] = sync[r] /\ sync[r].item \in Invoices /\ sync[r].found \in Charges
          BY <2>2, <4>2 DEF IInv, Typed, Sound
        <5>2. link[sync[r].item] = sync[r].found \/ charge[sync[r].found].state = "gone"
          BY <1>2, <3>1, <4>2 DEF IInv, HeldInv, Held
        <5>3. link[i] \in {None, c}
          BY <1>2, <3>1
        <5>. QED BY <1>2, <2>5, <5>1, <5>2, <5>3 DEF Held
      <4>. QED BY <2>2, <4>1, <4>2 DEF Held
    <3>. QED BY <3>1 DEF HeldInv
  <2>7. PricedInv'
    <3>1. ASSUME ~lost', NEW d \in Charges, ~Linked(d)' PROVE ~Linked(d)
      BY <1>2, <2>5, <3>1 DEF Linked
    <3>. QED BY <1>2, <3>1 DEF IInv, PricedInv, Priced, FenceCost
  <2>. QED BY <1>2, <2>3, <2>6, <2>7 DEF IInv, Unbegun
<1>3. ASSUME Set(s, Idle), UNCHANGED <<tesla, stored, link, charge, fence, pending, closing, lost>>
      PROVE  IInv'
  <2>1. /\ sync' \in [Syncs -> Sync] /\ \A r \in Syncs : Sound(sync'[r])
        /\ \A r \in Syncs : sync'[r] = IF r = s THEN Idle ELSE sync[r]
    BY <1>3, IdleSync, Moves DEF IInv
  <2>2. Typed'
    BY <1>3, <2>1 DEF IInv, Typed, TypeOK
  <2>. QED BY <1>3, <2>1, <2>2, OnlySync DEF Idle
<1>. QED BY <1>2, <1>3 DEF Link

LEMMA PriceInv == ASSUME IInv, NEW s \in Syncs, Price(s) PROVE IInv'
<1>. USE PricingAssumption
<1>. DEFINE i == sync[s].item  c == sync[s].found
<1>1. sync[s] \in Sync /\ i \in Invoices /\ c \in Charges
  BY DEF Price, IInv, Typed, TypeOK, Sound
<1>2. /\ sync' \in [Syncs -> Sync] /\ \A r \in Syncs : Sound(sync'[r])
      /\ \A r \in Syncs : sync'[r] = sync[r] \/ sync'[r].at # "price"
  BY NextItemSound DEF Price, IInv
<1>3. CASE c \notin Rows
  <2>1. charge' = charge
    BY <1>3 DEF Price
  <2>2. Typed'
    BY <1>2, <2>1 DEF Price, IInv, Typed, TypeOK
  <2>. QED BY <1>2, <2>1, <2>2, OnlySync DEF Price
<1>4. CASE c \in Rows
  <2>1. charge' = [charge EXCEPT ![c].cost = i]
    BY <1>4 DEF Price
  <2>2. charge \in [Charges -> Charge]
    BY DEF IInv, Typed, TypeOK
  <2>3. charge' \in [Charges -> Charge]
    BY <1>1, <2>1, <2>2 DEF Charge, Cost
  <2>4. /\ \A d \in Charges : charge'[d].state = charge[d].state
        /\ \A d \in Charges \ {c} : charge'[d] = charge[d]
    BY <1>1, <2>1, <2>2 DEF Charge
  <2>5. Typed'
    BY <1>2, <2>3 DEF Price, IInv, Typed, TypeOK
  <2>6. UNCHANGED <<link, fence, pending, closing, lost>> /\ sync[s].at = "price"
    BY DEF Price
  <2>7. HeldInv'
    BY <1>2, <2>4, <2>5, <2>6 DEF IInv, HeldInv, Held, Typed, Sound
  <2>8. ~lost => Linked(c)
    BY <1>1, <1>4, <2>6 DEF IInv, HeldInv, Held, Linked, Rows
  <2>9. PricedInv'
    BY <2>4, <2>6, <2>8 DEF IInv, PricedInv, Priced, FenceCost, Linked
  <2>10. Unbegun'
    BY <1>4, <2>2, <2>4, <2>6 DEF IInv, Typed, TypeOK, Unbegun, Rows
  <2>. QED BY <2>5, <2>7, <2>9, <2>10 DEF IInv
<1>. QED BY <1>3, <1>4

-----------------------------------------------------------------------------
(* The logger and the locations. *)

LEMMA StartChargeInv == ASSUME IInv, NEW c \in Charges, StartCharge(c) PROVE IInv'
<1>. USE PricingAssumption
<1>1. /\ charge' = [charge EXCEPT ![c].state = "open"] /\ charge[c].state = "none"
      /\ UNCHANGED <<tesla, stored, link, fence, pending, closing, sync, lost>>
  BY DEF StartCharge
<1>2. charge \in [Charges -> Charge]
  BY DEF IInv, Typed, TypeOK
<1>3. /\ charge' \in [Charges -> Charge]
      /\ \A d \in Charges : charge'[d] = IF d = c THEN [charge[c] EXCEPT !.state = "open"] ELSE charge[d]
  BY <1>1, <1>2 DEF Charge
<1>4. charge'[c].state = "open" /\ charge'[c].cost = None
  BY <1>1, <1>2, <1>3 DEF IInv, Unbegun, Charge
<1>5. Typed'
  BY <1>1, <1>3 DEF IInv, Typed, TypeOK
<1>6. HeldInv'
  BY <1>1, <1>3, <1>5 DEF IInv, HeldInv, Held, Typed, Sound
<1>7. PricedInv'
  BY <1>1, <1>3, <1>4 DEF IInv, PricedInv, Priced, FenceCost, Linked
<1>8. Unbegun'
  BY <1>1, <1>3, <1>4 DEF IInv, Typed, TypeOK, Unbegun
<1>. QED BY <1>5, <1>6, <1>7, <1>8 DEF IInv

LEMMA DropChargeInv == ASSUME IInv, NEW c \in Charges, DropCharge(c) PROVE IInv'
<1>. USE PricingAssumption
<1>1. /\ charge' = [charge EXCEPT ![c] = [state |-> "gone", cost |-> None]] /\ charge[c].state = "open"
      /\ link' = [i \in Invoices |-> IF link[i] = c THEN None ELSE link[i]]
      /\ UNCHANGED <<tesla, stored, fence, pending, closing, sync, lost>>
  BY DEF DropCharge
<1>2. charge \in [Charges -> Charge] /\ link \in [Invoices -> Charges \cup {None}]
  BY DEF IInv, Typed, TypeOK
<1>3. /\ charge' \in [Charges -> Charge] /\ link' \in [Invoices -> Charges \cup {None}]
      /\ \A d \in Charges \ {c} : charge'[d] = charge[d]
      /\ charge'[c].state = "gone" /\ charge'[c].cost = None
  BY <1>1, <1>2 DEF Charge
<1>4. \A d \in Charges \ {c} : Linked(d)' <=> Linked(d)
  BY <1>1, <1>2 DEF Linked
<1>5. Typed'
  BY <1>1, <1>3 DEF IInv, Typed, TypeOK
<1>6. HeldInv'
  <2>1. ASSUME ~lost, NEW s \in Syncs, sync[s].at = "price" PROVE Held(sync[s])'
    <3>1. sync[s].item \in Invoices /\ sync[s].found \in Charges
      BY <2>1 DEF IInv, Typed, Sound
    <3>2. link[sync[s].item] = sync[s].found \/ charge[sync[s].found].state = "gone"
      BY <2>1 DEF IInv, HeldInv, Held
    <3>. QED BY <1>1, <1>3, <3>1, <3>2 DEF Held
  <2>. QED BY <1>1, <2>1 DEF HeldInv, Held
<1>7. PricedInv'
  BY <1>1, <1>3, <1>4 DEF IInv, PricedInv, Priced, FenceCost
<1>8. Unbegun'
  BY <1>1, <1>3 DEF IInv, Typed, TypeOK, DropCharge, Free, Unbegun
<1>. QED BY <1>5, <1>6, <1>7, <1>8 DEF IInv

LEMMA EndChargeInv == ASSUME IInv, NEW c \in Charges, EndCharge(c) PROVE IInv'
<1>. USE PricingAssumption
<1>1. /\ charge' = [charge EXCEPT ![c].state = "ended"] /\ charge[c].state = "open"
      /\ closing' = c /\ closing = None
      /\ UNCHANGED <<tesla, stored, link, fence, pending, sync, lost>>
  BY DEF EndCharge, Free
<1>2. charge \in [Charges -> Charge]
  BY DEF IInv, Typed, TypeOK
<1>3. /\ charge' \in [Charges -> Charge]
      /\ \A d \in Charges \ {c} : charge'[d] = charge[d]
      /\ charge'[c].state = "ended" /\ charge'[c].cost = charge[c].cost
  BY <1>1, <1>2 DEF Charge
<1>4. Typed'
  BY <1>1, <1>3 DEF IInv, Typed, TypeOK
<1>5. HeldInv'
  BY <1>1, <1>3, <1>4 DEF IInv, HeldInv, Held, Typed, Sound
<1>6. PricedInv'
  BY <1>1, <1>3 DEF IInv, PricedInv, Priced, FenceCost, Linked
<1>7. Unbegun'
  BY <1>1, <1>3 DEF IInv, Unbegun
<1>. QED BY <1>4, <1>5, <1>6, <1>7 DEF IInv

LEMMA PriceChargeInv == ASSUME IInv, PriceCharge PROVE IInv'
<1>. USE PricingAssumption
<1>1. /\ closing \in Charges /\ closing' = None
      /\ UNCHANGED <<tesla, stored, link, fence, pending, sync, lost>>
  BY DEF PriceCharge, IInv, Typed, TypeOK
<1>2. charge \in [Charges -> Charge]
  BY DEF IInv, Typed, TypeOK
<1>3. CASE ~Linked(closing) /\ charge' = [charge EXCEPT ![closing].cost = FenceCost(closing)]
  <2>1. FenceCost(closing) \in Cost \cup {None}
    BY <1>1, FenceCostType DEF IInv, Typed
  <2>2. /\ charge' \in [Charges -> Charge]
        /\ \A d \in Charges \ {closing} : charge'[d] = charge[d]
        /\ charge'[closing].state = charge[closing].state
        /\ charge'[closing].cost = FenceCost(closing)
    BY <1>1, <1>2, <1>3, <2>1 DEF Charge
  <2>3. Typed'
    BY <1>1, <2>2 DEF IInv, Typed, TypeOK
  <2>4. HeldInv'
    BY <1>1, <2>2, <2>3 DEF IInv, HeldInv, Held, Typed, Sound
  <2>5. PricedInv'
    <3>1. SUFFICES ASSUME ~lost, ~pending, NEW c \in Charges, ~Linked(c) PROVE Priced(c)'
      BY <1>1 DEF PricedInv, Linked
    <3>2. Priced(c)
      BY <3>1 DEF IInv, PricedInv
    <3>3. CASE c = closing
      BY <1>1, <2>2, <3>3 DEF Priced, FenceCost
    <3>4. CASE c # closing
      BY <1>1, <2>2, <3>2, <3>4 DEF Priced, FenceCost
    <3>. QED BY <3>3, <3>4
  <2>6. Unbegun'
    BY <1>1, <2>2 DEF IInv, Unbegun
  <2>. QED BY <2>3, <2>4, <2>5, <2>6 DEF IInv
<1>4. CASE (Linked(closing) \/ fence = None) /\ UNCHANGED charge
  <2>1. Typed'
    BY <1>1, <1>4 DEF IInv, Typed, TypeOK
  <2>2. HeldInv' /\ Unbegun'
    BY <1>1, <1>4 DEF IInv, HeldInv, Held, Unbegun
  <2>3. PricedInv'
    BY <1>1, <1>4 DEF IInv, PricedInv, Priced, FenceCost, Linked
  <2>. QED BY <2>1, <2>2, <2>3 DEF IInv
<1>. QED BY <1>3, <1>4 DEF PriceCharge

LEMMA SaveInv == ASSUME IInv, NEW f \in Fences, Save(f) PROVE IInv'
<1>1. Typed'
  BY DEF Save, IInv, Typed, TypeOK
<1>2. HeldInv' /\ Unbegun' /\ PricedInv'
  BY DEF Save, IInv, HeldInv, Held, Unbegun, PricedInv
<1>. QED BY <1>1, <1>2 DEF IInv

LEMMA RematchInv == ASSUME IInv, Rematch PROVE IInv'
<1>. USE PricingAssumption
<1>1. /\ charge' = [c \in Charges |-> IF c \notin Rows \/ Linked(c) THEN charge[c]
                                      ELSE [charge[c] EXCEPT !.cost = FenceCost(c)]]
      /\ pending' = FALSE /\ closing = None
      /\ UNCHANGED <<tesla, stored, link, fence, closing, sync, lost>>
  BY DEF Rematch, Free
<1>2. charge \in [Charges -> Charge] /\ \A c \in Charges : FenceCost(c) \in Cost \cup {None}
  BY FenceCostType DEF IInv, Typed, TypeOK
<1>3. /\ charge' \in [Charges -> Charge]
      /\ \A c \in Charges : /\ charge'[c].state = charge[c].state
                            /\ c \in Rows /\ ~Linked(c) => charge'[c].cost = FenceCost(c)
                            /\ c \notin Rows => charge'[c] = charge[c]
  BY <1>1, <1>2 DEF Charge
<1>4. Typed'
  BY <1>1, <1>3 DEF IInv, Typed, TypeOK
<1>5. HeldInv'
  BY <1>1, <1>3, <1>4 DEF IInv, HeldInv, Held, Typed, Sound
<1>6. PricedInv'
  BY <1>1, <1>3 DEF PricedInv, Priced, FenceCost, Linked, Rows
<1>7. Unbegun'
  BY <1>1, <1>3 DEF IInv, Unbegun, Rows
<1>. QED BY <1>4, <1>5, <1>6, <1>7 DEF IInv

LEMMA RematchFailsInv == ASSUME IInv, RematchFails PROVE IInv'
<1>1. Typed'
  BY DEF RematchFails, IInv, Typed, TypeOK
<1>. QED BY <1>1 DEF RematchFails, IInv, HeldInv, PricedInv, Unbegun

LEMMA ListInv == ASSUME IInv, NEW i \in Invoices, List(i) PROVE IInv'
<1>1. tesla' \in Seq(Invoices)
  BY DEF List, IInv, Typed, TypeOK
<1>2. Typed'
  BY <1>1 DEF List, IInv, Typed, TypeOK
<1>. QED BY <1>2, OnlySync DEF List

LEMMA CrashInv == ASSUME IInv, Crash PROVE IInv'
<1>. USE PricingAssumption
<1>1. /\ sync' \in [Syncs -> Sync] /\ \A s \in Syncs : sync'[s] = IF s = Task THEN Failed ELSE sync[s]
  BY IdleSync DEF Crash, IInv, Typed, TypeOK
<1>2. Typed'
  BY <1>1, IdleSync DEF Crash, IInv, Typed, TypeOK
<1>3. \A s \in Syncs : sync'[s] = sync[s] \/ sync'[s].at # "price"
  BY <1>1 DEF Failed, Idle
<1>4. HeldInv'
  BY <1>3 DEF Crash, IInv, HeldInv, Held
<1>5. PricedInv'
  BY DEF Crash, IInv, PricedInv, Priced, FenceCost, Linked
<1>6. Unbegun'
  BY DEF Crash, IInv, Unbegun
<1>. QED BY <1>2, <1>4, <1>5, <1>6 DEF IInv

-----------------------------------------------------------------------------
LEMMA Inductive == ASSUME IInv, [Next]_vars PROVE IInv'
<1>1. CASE UNCHANGED vars
  <2>1. Typed'
    BY <1>1 DEF vars, IInv, Typed, TypeOK
  <2>. QED BY <1>1, <2>1, OnlySync DEF vars
<1>2. CASE Next
  BY <1>2, StartChargeInv, DropChargeInv, EndChargeInv, PriceChargeInv, SaveInv, RematchInv,
     RematchFailsInv, BeginInv, FetchInv, MatchInv, SeekInv, LinkInv, PriceInv, FailInv, ListInv, CrashInv
     DEF Next, SyncStep
<1>. QED BY <1>1, <1>2

\* The tables and the syncs keep their types, for any charges, invoices and pages.
THEOREM PricingTypeCorrect == Spec => []TypeOK
<1>1. IInv => TypeOK
  BY DEF IInv, Typed
<1>. QED BY InitInv, Inductive, <1>1, PTL DEF Spec

\* When nothing is under way and nothing was cut short, a charge that has ended
\* and has no invoice costs what the location says (recalculate_costs,
\* price_charge_geofence), for any number of charges, invoices and syncs.
THEOREM PricesAgree == Spec => []PricesSettle
<1>1. IInv => PricesSettle
  BY PricingAssumption DEF IInv, PricedInv, Priced, PricesSettle
<1>. QED BY InitInv, Inductive, <1>1, PTL DEF Spec

\* A price by an invoice is replaced by that of another invoice only, while the
\* charge has one (NOT EXISTS in recalculate_costs and price_charge_geofence).
THEOREM InvoicesPrevail == Spec => InvoicedStays
<1>. DEFINE Stays(c) == Invoiced(c) /\ Linked(c)' => Invoiced(c)'
<1>1. ASSUME IInv, [Next]_vars, NEW c \in Charges PROVE Stays(c)
  <2>. USE PricingAssumption
  <2>1. SUFFICES ASSUME Invoiced(c), Linked(c)' PROVE charge'[c].cost \in Invoices
    BY DEF Invoiced
  <2>2. charge \in [Charges -> Charge] /\ Linked(c) /\ charge[c].cost \in Invoices
    BY <1>1, <2>1 DEF Invoiced, IInv, Typed, TypeOK
  <2>3. CASE UNCHANGED charge
    BY <2>2, <2>3
  <2>4. ASSUME NEW d \in Charges, StartCharge(d) \/ EndCharge(d) PROVE charge'[c].cost \in Invoices
    BY <2>2, <2>4 DEF StartCharge, EndCharge, Charge
  <2>5. ASSUME NEW d \in Charges, DropCharge(d) PROVE charge'[c].cost \in Invoices
    <3>1. c # d
      BY <2>1, <2>5 DEF DropCharge, Linked
    <3>. QED BY <2>2, <2>5, <3>1 DEF DropCharge
  <2>6. CASE PriceCharge
    <3>1. closing \in Charges
      BY <1>1, <2>6 DEF PriceCharge, IInv, Typed, TypeOK
    <3>. QED BY <2>2, <2>6, <3>1 DEF PriceCharge, Charge
  <2>7. CASE Rematch
    BY <2>2, <2>7 DEF Rematch
  <2>8. ASSUME NEW s \in Syncs, Price(s) PROVE charge'[c].cost \in Invoices
    <3>1. sync[s].item \in Invoices
      BY <1>1, <2>8 DEF Price, IInv, Typed, Sound
    <3>. QED BY <2>2, <2>8, <3>1 DEF Price, Charge
  <2>. QED BY <1>1, <2>3, <2>4, <2>5, <2>6, <2>7, <2>8
       DEF Next, vars, SyncStep, Save, RematchFails, Begin, Fetch, Match, Seek, Link, Fail, List, Crash
<1>2. IInv /\ [Next]_vars => \A c \in Charges : Stays(c)
  BY <1>1
<1>. QED BY InitInv, Inductive, <1>2, PTL DEF Spec, InvoicedStays
-----------------------------------------------------------------------------
(***************************************************************************)
(* The rematch job, for any number of handlers and calls.  The invariant   *)
(* says where the work of a change is at any moment: in the handler that   *)
(* has yet to call start(), in rerun, in a task that has not read the      *)
(* geofences, or done.                                                     *)
(***************************************************************************)
Unsent == \E a \in Admins : handler[a] = "saved"

\* What the state of a task says of the job, of history and of the calls.
TaskInv ==
  \A t \in DOMAIN tasks :
    /\ tasks[t] # "spawned" => job.state = "running"
    /\ tasks[t] = "matched" /\ ~rerun /\ ~Unsent => applied = fences
    /\ tasks[t] \in {"matched", "failed"} /\ ~rerun => seen = calls

JobsInv ==
  /\ JobsTypeOK
  /\ TaskOwnsJob
  /\ TaskInv
  /\ CompletedIsCurrent
  /\ \A a \in Admins : handler[a] # "dropped"

LEMMA JobsInitInv == ASSUME JobsInit PROVE JobsInv
<1>1. DOMAIN tasks = {} /\ tasks \in [DOMAIN tasks -> Stage]
  BY DEF JobsInit, NoTask
<1>2. job.state = "idle" /\ \A a \in Admins : handler[a] = "none"
  BY DEF JobsInit
<1>3. DOMAIN tasks \subseteq 1..next_id
  BY <1>1
<1>4. JobsTypeOK
  <2>1. /\ fences \in Nat /\ applied \in 0..fences /\ next_id \in Nat
        /\ calls \in Nat /\ seen \in 0..calls
    BY DEF JobsInit
  <2>2. rerun \in BOOLEAN
    BY Zenon DEF JobsInit
  <2>3. handler \in [Admins -> {"none", "saving", "saved", "dropped"}]
    BY DEF JobsInit
  <2>4. job \in [id : 0..next_id, state : {"idle", "completed", "failed"} \cup Active]
    BY DEF JobsInit
  <2>. QED
    BY <1>1, <1>3, <2>1, <2>2, <2>3, <2>4, Zenon DEF JobsTypeOK
<1>5. TaskOwnsJob /\ TaskInv /\ CompletedIsCurrent
  BY <1>1, <1>2 DEF TaskOwnsJob, TaskInv, CompletedIsCurrent, Active
<1>. QED
  BY <1>2, <1>4, <1>5 DEF JobsInv

LEMMA SubmitInv == ASSUME JobsInv, NEW a \in Admins, Submit(a) PROVE JobsInv'
<1>1. JobsTypeOK'
  BY DEF JobsInv, JobsTypeOK, Submit, state, history, Active, Stage
<1>2. TaskOwnsJob' /\ (\A b \in Admins : handler'[b] # "dropped")
  BY DEF JobsInv, JobsTypeOK, TaskOwnsJob, Submit, state, history, Active
<1>3. ~Unsent' => ~Unsent
  BY DEF JobsInv, JobsTypeOK, Submit, Unsent
<1>4. TaskInv'
  BY <1>3 DEF JobsInv, TaskInv, Submit, state, history, Unsent
<1>5. CompletedIsCurrent'
  BY <1>3 DEF JobsInv, CompletedIsCurrent, Submit, state, Unsent
<1>. QED
  BY <1>1, <1>2, <1>4, <1>5 DEF JobsInv

\* A change that is committed leaves a handler that has start() to call.
LEMMA CommitInv == ASSUME JobsInv, NEW a \in Admins, Commit(a) PROVE JobsInv'
<1>0. handler[a] = "saving"
  BY DEF JobsInv, Commit
<1>1. JobsTypeOK'
  BY <1>0 DEF JobsInv, JobsTypeOK, Commit, state, history, Active, Stage
<1>2. TaskOwnsJob' /\ (\A b \in Admins : handler'[b] # "dropped")
  BY <1>0 DEF JobsInv, JobsTypeOK, TaskOwnsJob, Commit, state, history, Active
<1>3. ~Unsent' => ~Unsent /\ fences' = fences
  BY <1>0 DEF JobsInv, JobsTypeOK, Commit, Unsent
<1>4. TaskInv'
  BY <1>3 DEF JobsInv, TaskInv, Commit, state, history, Unsent
<1>5. CompletedIsCurrent'
  BY <1>3 DEF JobsInv, CompletedIsCurrent, Commit, state, Unsent
<1>. QED
  BY <1>1, <1>2, <1>4, <1>5 DEF JobsInv

\* start() leaves the change to a task that has not begun, or to rerun.
LEMMA StartInv == ASSUME JobsInv, NEW a \in Admins, Start(a) PROVE JobsInv'
<1>1. /\ calls' = calls + 1 /\ UNCHANGED <<fences, applied, seen>>
      /\ handler' = [handler EXCEPT ![a] = "none"]
  BY DEF Start, Called
<1>2. \A b \in Admins : handler'[b] # "dropped"
  BY <1>1 DEF JobsInv, JobsTypeOK
<1>3. CASE job.state \in Active
  <2>1. /\ rerun' = (rerun \/ job.state = "running")
        /\ UNCHANGED <<job, next_id, tasks>>
    BY <1>3 DEF Start
  <2>2. JobsTypeOK'
    BY <1>1, <2>1 DEF JobsInv, JobsTypeOK, Active, Stage
  <2>3. TaskOwnsJob' /\ CompletedIsCurrent'
    BY <1>3, <2>1 DEF JobsInv, TaskOwnsJob, CompletedIsCurrent, Active
  <2>4. TaskInv'
    BY <1>1, <2>1 DEF JobsInv, JobsTypeOK, TaskInv, Stage
  <2>. QED
    BY <1>2, <2>2, <2>3, <2>4 DEF JobsInv
<1>4. CASE job.state \notin Active
  <2>1. NewJob /\ DOMAIN tasks = {}
    BY <1>4 DEF Start, JobsInv, TaskOwnsJob
  <2>2. /\ next_id' = next_id + 1 /\ rerun' = FALSE
        /\ job' = [id |-> next_id', state |-> "queued"]
        /\ tasks' = [t \in {next_id'} |-> "spawned"]
    BY <2>1 DEF NewJob
  <2>3. JobsTypeOK'
    <3>1. next_id' \in Nat /\ job' \in [id : 0..next_id', state : {"idle", "completed", "failed"} \cup Active]
      BY <2>2 DEF JobsInv, JobsTypeOK, Active
    <3>2. DOMAIN tasks' = {next_id'} /\ tasks' \in [DOMAIN tasks' -> Stage]
      BY <2>2 DEF Stage
    <3>3. DOMAIN tasks' \subseteq 1..next_id'
      BY <2>2, <3>2 DEF JobsInv, JobsTypeOK
    <3>4. /\ fences' \in Nat /\ applied' \in 0..fences'
          /\ calls' \in Nat /\ seen' \in 0..calls'
      BY <1>1, <2>2 DEF JobsInv, JobsTypeOK
    <3>5. rerun' \in BOOLEAN
      BY <2>2, Zenon
    <3>6. handler' \in [Admins -> {"none", "saving", "saved", "dropped"}]
      BY <1>1 DEF JobsInv, JobsTypeOK
    <3>. QED
      BY <3>1, <3>2, <3>3, <3>4, <3>5, <3>6, Zenon DEF JobsTypeOK
  <2>4. TaskOwnsJob' /\ CompletedIsCurrent' /\ TaskInv'
    BY <2>2 DEF TaskOwnsJob, CompletedIsCurrent, TaskInv, Active
  <2>. QED
    BY <1>2, <2>3, <2>4 DEF JobsInv
<1>. QED
  BY <1>3, <1>4

LEMMA RunInv == ASSUME JobsInv, NEW t \in DOMAIN tasks, Run(t) PROVE JobsInv'
<1>1. DOMAIN tasks = {t} /\ job.id = t /\ job.state \in Active
  BY DEF JobsInv, TaskOwnsJob
<1>2. /\ job' = [id |-> t, state |-> "running"]
      /\ tasks' = [tasks EXCEPT ![t] = "running"]
      /\ UNCHANGED <<fences, applied, rerun, next_id, handler, calls, seen>>
  BY DEF Run, history
<1>3. JobsTypeOK'
  BY <1>1, <1>2 DEF JobsInv, JobsTypeOK, Active, Stage
<1>4. TaskOwnsJob' /\ CompletedIsCurrent' /\ TaskInv'
  BY <1>1, <1>2 DEF JobsInv, JobsTypeOK, TaskOwnsJob, CompletedIsCurrent, TaskInv, Active
<1>. QED
  BY <1>2, <1>3, <1>4 DEF JobsInv

LEMMA RunRematchInv == ASSUME JobsInv, NEW t \in DOMAIN tasks, RunRematch(t) PROVE JobsInv'
<1>1. DOMAIN tasks = {t} /\ job.id = t /\ job.state = "running"
  BY DEF JobsInv, TaskOwnsJob, TaskInv, RunRematch
<1>2. /\ seen' = calls
      /\ UNCHANGED <<fences, job, rerun, next_id, handler, calls>>
  BY DEF RunRematch, state
<1>3. \/ applied' = fences /\ tasks' = [tasks EXCEPT ![t] = "matched"]
      \/ UNCHANGED applied /\ tasks' = [tasks EXCEPT ![t] = "failed"]
  BY DEF RunRematch
<1>4. JobsTypeOK'
  BY <1>1, <1>2, <1>3 DEF JobsInv, JobsTypeOK, Active, Stage
<1>5. TaskOwnsJob' /\ CompletedIsCurrent'
  BY <1>1, <1>2, <1>3 DEF JobsInv, JobsTypeOK, TaskOwnsJob, CompletedIsCurrent, Active
<1>6. TaskInv'
  BY <1>1, <1>2, <1>3 DEF JobsInv, JobsTypeOK, TaskInv
<1>. QED
  BY <1>2, <1>4, <1>5, <1>6 DEF JobsInv

LEMMA FinishInv == ASSUME JobsInv, NEW t \in DOMAIN tasks, Finish(t) PROVE JobsInv'
<1>1. DOMAIN tasks = {t} /\ job.id = t /\ job.state = "running"
  BY DEF JobsInv, TaskOwnsJob, TaskInv, Finish
<1>2. /\ rerun' = FALSE /\ tasks[t] \in {"matched", "failed"}
      /\ UNCHANGED <<fences, applied, next_id, handler, calls, seen>>
  BY DEF Finish, history
<1>3. CASE rerun
  <2>1. tasks' = [tasks EXCEPT ![t] = "spawned"] /\ UNCHANGED job
    BY <1>3 DEF Finish
  <2>2. JobsTypeOK'
    BY <1>1, <1>2, <2>1 DEF JobsInv, JobsTypeOK, Active, Stage
  <2>3. TaskOwnsJob' /\ CompletedIsCurrent' /\ TaskInv'
    BY <1>1, <1>2, <2>1 DEF JobsInv, JobsTypeOK, TaskOwnsJob, CompletedIsCurrent, TaskInv, Active
  <2>. QED
    BY <1>2, <2>2, <2>3 DEF JobsInv
<1>4. CASE ~rerun
  <2>1. /\ job' = [id |-> t, state |-> IF tasks[t] = "matched" THEN "completed" ELSE "failed"]
        /\ tasks' = [u \in DOMAIN tasks \ {t} |-> tasks[u]]
    BY <1>4 DEF Finish
  <2>2. DOMAIN tasks' = {}
    BY <1>1, <2>1
  <2>3. JobsTypeOK'
    BY <1>1, <1>2, <2>1, <2>2 DEF JobsInv, JobsTypeOK, Active, Stage
  <2>4. TaskOwnsJob' /\ TaskInv'
    BY <2>1, <2>2 DEF TaskOwnsJob, TaskInv, Active
  <2>5. CompletedIsCurrent'
    BY <1>2, <1>4, <2>1 DEF JobsInv, TaskInv, CompletedIsCurrent, Unsent
  <2>. QED
    BY <1>2, <2>3, <2>4, <2>5 DEF JobsInv
<1>. QED
  BY <1>3, <1>4

LEMMA JobsStepInv == ASSUME JobsInv, [JobsNext]_jobs_vars PROVE JobsInv'
<1>1. CASE \E a \in Admins : Submit(a) \/ Commit(a) \/ Start(a)
  BY <1>1, SubmitInv, CommitInv, StartInv
<1>2. CASE Work
  BY <1>2, RunInv, RunRematchInv, FinishInv DEF Work
<1>3. CASE UNCHANGED jobs_vars
  BY <1>3 DEF jobs_vars, state, history, JobsInv, JobsTypeOK, TaskOwnsJob, TaskInv, CompletedIsCurrent,
              Unsent, Active, Stage
<1>. QED
  BY <1>1, <1>2, <1>3 DEF JobsNext

LEMMA JobsInvariant == JobsSpec => []JobsInv
<1>1. JobsInit => JobsInv
  BY JobsInitInv
<1>2. JobsInv /\ [JobsNext]_jobs_vars => JobsInv'
  BY JobsStepInv
<1>. QED
  BY <1>1, <1>2, PTL DEF JobsSpec

(* One rematch runs at a time, and it is the job that is shown, however many   *)
(* handlers call start() and whenever they do.                                 *)
THEOREM OneTask == JobsSpec => []TaskOwnsJob
<1>1. JobsInv => TaskOwnsJob
  BY DEF JobsInv
<1>. QED
  BY <1>1, JobsInvariant, PTL

(* A completed job leaves no committed change out for which start() was called. *)
THEOREM NothingLeftOut == JobsSpec => []CompletedIsCurrent
<1>1. JobsInv => CompletedIsCurrent
  BY DEF JobsInv
<1>. QED
  BY <1>1, JobsInvariant, PTL

-----------------------------------------------------------------------------
LEMMA RefinesStep == ASSUME JobsInv, [JobsNext]_jobs_vars PROVE [Coalesced!Next]_Coalesced!vars
<1>. USE DEF Coalesced!Next, Coalesced!vars
<1>1. ASSUME NEW a \in Admins, Submit(a) \/ Commit(a)
      PROVE  UNCHANGED Coalesced!vars
  BY <1>1 DEF Submit, Commit, state, history
<1>2. ASSUME NEW a \in Admins, Start(a) PROVE Coalesced!Request
  BY <1>2 DEF Start, Called, NewJob, Coalesced!Request, Active
<1>3. ASSUME NEW t \in DOMAIN tasks, Run(t) PROVE UNCHANGED Coalesced!vars
  BY <1>3 DEF Run, JobsInv, TaskOwnsJob, history, Active
<1>4. ASSUME NEW t \in DOMAIN tasks, RunRematch(t) PROVE Coalesced!Serve
  BY <1>4 DEF RunRematch, JobsInv, TaskOwnsJob, state, Coalesced!Serve
<1>5. ASSUME NEW t \in DOMAIN tasks, Finish(t)
      PROVE  Coalesced!Rest \/ UNCHANGED Coalesced!vars
  BY <1>5 DEF Finish, JobsInv, TaskOwnsJob, TaskInv, history, Coalesced!Rest, Active
<1>6. CASE UNCHANGED jobs_vars
  BY <1>6 DEF jobs_vars, state, history
<1>. QED
  BY <1>1, <1>2, <1>3, <1>4, <1>5, <1>6 DEF JobsNext, Work

(* Every behaviour of the job and its handlers is one of the coalescing worker: *)
(* a run serves each call made before it, and the job ends only when none is    *)
(* left (the safety part of Coalesces; its liveness is left to TLC).            *)
THEOREM ImplementsCoalescedWork == JobsSpec => CoalescesSafely
<1>1. JobsInit => Coalesced!Init
  BY DEF JobsInit, Coalesced!Init, Active
<1>2. JobsInv /\ [JobsNext]_jobs_vars => [Coalesced!Next]_Coalesced!vars
  BY RefinesStep
<1>. QED
  BY <1>1, <1>2, JobsInvariant, PTL DEF JobsSpec, CoalescesSafely
=============================================================================
