------------------------------ MODULE Pricing ------------------------------
(***************************************************************************)
(* The price of a charge: the logger sets it at the end of the charge      *)
(* (src/logger.rs), a rematch of the saved locations sets it again         *)
(* (src/locations.rs), and the charging history of Tesla overrides both    *)
(* (src/invoices.rs).  The logger, the rematch and the invoices task share *)
(* a process and its connection; sync-invoices runs in another process and *)
(* comes between any two statements.  All charges are at one place; a      *)
(* price is known by where it comes from, not by its arithmetic.           *)
(***************************************************************************)
EXTENDS Naturals, Sequences, FiniteSets

CONSTANTS
  None,
  Charges, Invoices,
  Syncs,          \* runs of sync_once_opts, Task among them
  Task,           \* the one of the invoices task, in the process of the logger
  Distance,       \* between the starts of an invoice and of a charge
  MatchSecs,
  PageSize, MaxPages,
  Prices          \* that the saved location may have

VARIABLES
  tesla,     \* invoices in the charging history, newest first
  stored,    \* invoices with a row in charging_invoices
  link,      \* their charging_process_id
  charge,    \* rows of charging_processes
  fence,     \* the price of the saved location; None: it has none, or there is no location
  pending,   \* a rematch is queued
  closing,   \* the charge that complete_charge has ended and not priced yet
  sync,
  lost       \* a rematch or the end of a charge was cut short, or two syncs at
             \* once linked an invoice to one charge and then to another

vars == <<tesla, stored, link, charge, fence, pending, closing, sync, lost>>

Fences == Prices \cup {None}
\* What an invoice says is due, or the price by a location, which depends on
\* whether the charge has ended.
Cost == Invoices \cup [price : Prices, ended : BOOLEAN]
Charge == [state : {"none", "open", "ended", "gone"}, cost : Cost \cup {None}]
\* item is the invoice in hand, todo the others of its page, in any order.
Sync == [at : {"idle", "failed", "fetch", "match", "seek", "link", "price"}, page : 1..MaxPages,
         more : BOOLEAN, seen : SUBSET Invoices, todo : SUBSET Invoices,
         item : Invoices \cup {None}, found : Charges \cup {None}]
Idle == [at |-> "idle", page |-> 1, more |-> FALSE, seen |-> {}, todo |-> {},
         item |-> None, found |-> None]
Failed == [Idle EXCEPT !.at = "failed"]

ASSUME PricingAssumption ==
  /\ None \notin Charges \cup Cost \cup Prices
  /\ Task \in Syncs
  /\ Distance \in [Invoices -> [Charges -> Nat]]
  /\ {PageSize, MaxPages, MatchSecs} \subseteq Nat \ {0}

TypeOK ==
  /\ tesla \in Seq(Invoices) /\ stored \subseteq Invoices
  /\ link \in [Invoices -> Charges \cup {None}]
  /\ charge \in [Charges -> Charge]
  /\ fence \in Fences
  /\ pending \in BOOLEAN /\ lost \in BOOLEAN
  /\ closing \in Charges \cup {None}
  /\ sync \in [Syncs -> Sync]

Init ==
  /\ tesla = <<>> /\ stored = {}
  /\ link = [i \in Invoices |-> None]
  /\ charge = [c \in Charges |-> [state |-> "none", cost |-> None]]
  /\ fence \in Fences
  /\ pending = FALSE /\ lost = FALSE
  /\ closing = None
  /\ sync = [s \in Syncs |-> Idle]

-----------------------------------------------------------------------------
Rows == {c \in Charges : charge[c].state \in {"open", "ended"}}
Linked(c) == \E i \in Invoices : link[i] = c
\* The lock of the connection: complete_charge and a page of the task hold it.
Free == closing = None /\ sync[Task].at \in {"idle", "failed", "fetch"}

\* The CASE of recalculate_costs and price_charge_geofence.
FenceCost(c) == IF fence = None THEN None
                ELSE [price |-> fence, ended |-> charge[c].state = "ended"]

-----------------------------------------------------------------------------
(* The logger. *)

StartCharge(c) ==
  /\ Free /\ charge[c].state = "none"
  /\ charge' = [charge EXCEPT ![c].state = "open"]
  /\ UNCHANGED <<tesla, stored, link, fence, pending, closing, sync, lost>>

\* complete_charge of a charge without readings: ON DELETE SET NULL
DropCharge(c) ==
  /\ Free /\ charge[c].state = "open"
  /\ charge' = [charge EXCEPT ![c] = [state |-> "gone", cost |-> None]]
  /\ link' = [i \in Invoices |-> IF link[i] = c THEN None ELSE link[i]]
  /\ UNCHANGED <<tesla, stored, fence, pending, closing, sync, lost>>

\* complete_charge sets end_date ...
EndCharge(c) ==
  /\ Free /\ charge[c].state = "open"
  /\ charge' = [charge EXCEPT ![c].state = "ended"]
  /\ closing' = c
  /\ UNCHANGED <<tesla, stored, link, fence, pending, sync, lost>>

\* Mutant: price_charge_geofence without NOT EXISTS.
PriceCharge_any ==
  /\ closing # None
  /\ closing' = None
  /\ charge' = [charge EXCEPT ![closing].cost = FenceCost(closing)]
  /\ UNCHANGED <<tesla, stored, link, fence, pending, sync, lost>>

\* ... and price_charge_geofence the price, unless there is no location here.
PriceCharge ==
  /\ closing # None
  /\ closing' = None
  /\ \/ ~Linked(closing) /\ charge' = [charge EXCEPT ![closing].cost = FenceCost(closing)]
     \/ (Linked(closing) \/ fence = None) /\ UNCHANGED charge
  /\ UNCHANGED <<tesla, stored, link, fence, pending, sync, lost>>

-----------------------------------------------------------------------------
(* Saved locations; what may go wrong with the job is in LocationJobs. *)

Save(f) ==
  /\ Free /\ f # fence
  /\ fence' = f /\ pending' = TRUE
  /\ UNCHANGED <<tesla, stored, link, charge, closing, sync, lost>>

\* Mutant: recalculate_costs for the charges that have a location only.
Rematch_matched ==
  /\ Free /\ pending
  /\ pending' = FALSE
  /\ charge' = [c \in Charges |-> IF c \notin Rows \/ Linked(c) \/ fence = None THEN charge[c]
                                  ELSE [charge[c] EXCEPT !.cost = FenceCost(c)]]
  /\ UNCHANGED <<tesla, stored, link, fence, closing, sync, lost>>

Rematch ==
  /\ Free /\ pending
  /\ pending' = FALSE
  /\ charge' = [c \in Charges |-> IF c \notin Rows \/ Linked(c) THEN charge[c]
                                  ELSE [charge[c] EXCEPT !.cost = FenceCost(c)]]
  /\ UNCHANGED <<tesla, stored, link, fence, closing, sync, lost>>

RematchFails ==
  /\ Free /\ pending
  /\ pending' = FALSE /\ lost' = TRUE
  /\ UNCHANGED <<tesla, stored, link, charge, fence, closing, sync>>

-----------------------------------------------------------------------------
(* sync_once_opts. *)

Set(s, record) == sync' = [sync EXCEPT ![s] = record]
\* A statement of the task waits for the connection; one of a command does not.
MayTake(s) == s # Task \/ closing = None

Begin(s) ==
  /\ sync[s].at \in {"idle", "failed"}
  /\ Set(s, [Idle EXCEPT !.at = "fetch"])
  /\ UNCHANGED <<tesla, stored, link, charge, fence, pending, closing, lost>>

\* An error of Tesla or of SQLite ends the sync; that of a command is forgotten.
Fail(s) ==
  /\ sync[s].at \notin {"idle", "failed"}
  /\ Set(s, IF s = Task THEN Failed ELSE Idle)
  /\ UNCHANGED <<tesla, stored, link, charge, fence, pending, closing, lost>>

\* parse_history_page; what an item says is kept as a name.
Page(n) == {tesla[k] : k \in {k \in DOMAIN tesla : (n - 1) * PageSize < k /\ k <= n * PageSize}}

\* A page of the history; items that were on an earlier page are dropped.
Fetch(s) ==
  /\ sync[s].at = "fetch" /\ MayTake(s)
  /\ LET new == Page(sync[s].page) \ sync[s].seen
         seen == sync[s].seen \cup new
         more == sync[s].page * PageSize < Len(tesla) \/ Cardinality(seen) < Len(tesla) IN
     \/ new = {} /\ Set(s, Idle)
     \/ \E i \in new : Set(s, [sync[s] EXCEPT !.at = "match", !.item = i, !.todo = new \ {i},
                                              !.seen = seen, !.more = more])
  /\ UNCHANGED <<tesla, stored, link, charge, fence, pending, closing, lost>>

\* The next item, or the next page when there may be one; that --full asks for
\* the second page in any case is left out.
NextItem(s) ==
  \/ \E i \in sync[s].todo :
       Set(s, [sync[s] EXCEPT !.at = "match", !.item = i, !.todo = @ \ {i}, !.found = None])
  \/ /\ sync[s].todo = {}
     /\ Set(s, IF sync[s].page < MaxPages /\ sync[s].more
               THEN [Idle EXCEPT !.at = "fetch", !.page = sync[s].page + 1, !.seen = sync[s].seen]
               ELSE Idle)

\* best_match among the charges of the car without an invoice, which may have
\* several that are equally near; energies are left out.
Near(i) == {c \in Rows : ~Linked(c) /\ Distance[i][c] < MatchSecs}
Best(i) == {c \in Near(i) : \A o \in Near(i) : Distance[i][c] <= Distance[i][o]}

\* match_process has a charge for the invoice, or it is not linked to any yet.
Found(s, c) == Set(s, [sync[s] EXCEPT !.at = "link", !.found = c])
Unlinked(s) == Set(s, [sync[s] EXCEPT !.at = "seek"])

\* Mutant: an invoice that is linked already is left as it is.
Match_skips_linked(s) ==
  LET i == sync[s].item IN
  /\ sync[s].at = "match"
  /\ stored' = stored \cup {i}
  /\ IF link[i] # None THEN NextItem(s) ELSE Unlinked(s)
  /\ UNCHANGED <<tesla, link, charge, fence, pending, closing, lost>>

\* upsert_invoice, which leaves the link alone, and the charge that match_process
\* finds linked.
Match(s) ==
  LET i == sync[s].item IN
  /\ sync[s].at = "match"
  /\ stored' = stored \cup {i}
  /\ IF link[i] # None THEN Found(s, link[i]) ELSE Unlinked(s)
  /\ UNCHANGED <<tesla, link, charge, fence, pending, closing, lost>>

\* The candidates of match_process, a statement later.
Seek(s) ==
  LET i == sync[s].item IN
  /\ sync[s].at = "seek"
  /\ \/ \E c \in Best(i) : Found(s, c)
     \/ Best(i) = {} /\ NextItem(s)
  /\ UNCHANGED <<tesla, stored, link, charge, fence, pending, closing, lost>>

\* charging_process_id is UNIQUE and a foreign key; another sync may have linked
\* the invoice to another charge since.
Link(s) ==
  LET i == sync[s].item  c == sync[s].found IN
  /\ sync[s].at = "link"
  /\ IF c \in Rows /\ \A j \in Invoices \ {i} : link[j] # c
     THEN /\ link' = [link EXCEPT ![i] = c]
          /\ Set(s, [sync[s] EXCEPT !.at = "price"])
          /\ lost' = (lost \/ link[i] \notin {None, c})
     ELSE Set(s, Idle) /\ UNCHANGED <<link, lost>>
  /\ UNCHANGED <<tesla, stored, charge, fence, pending, closing>>

Price(s) ==
  /\ sync[s].at = "price"
  /\ charge' = IF sync[s].found \in Rows
               THEN [charge EXCEPT ![sync[s].found].cost = sync[s].item] ELSE charge
  /\ NextItem(s)
  /\ UNCHANGED <<tesla, stored, link, fence, pending, closing, lost>>

-----------------------------------------------------------------------------
Listed == {tesla[n] : n \in DOMAIN tesla}

\* Tesla lists a new invoice.
List(i) ==
  /\ i \notin Listed
  /\ tesla' = <<i>> \o tesla
  /\ UNCHANGED <<stored, link, charge, fence, pending, closing, sync, lost>>

\* The process of the logger stops and starts again.
Crash ==
  /\ closing' = None /\ pending' = FALSE
  /\ sync' = [sync EXCEPT ![Task] = Failed]
  /\ lost' = (lost \/ closing # None \/ pending)
  /\ UNCHANGED <<tesla, stored, link, charge, fence>>

SyncStep(s) == Fetch(s) \/ Match(s) \/ Seek(s) \/ Link(s) \/ Price(s)

Next ==
  \/ \E c \in Charges : StartCharge(c) \/ DropCharge(c) \/ EndCharge(c)
  \/ PriceCharge
  \/ \E f \in Fences : Save(f)
  \/ Rematch \/ RematchFails
  \/ \E s \in Syncs : Begin(s) \/ SyncStep(s) \/ Fail(s)
  \/ \E i \in Invoices : List(i)
  \/ Crash

\* The invoices task syncs again and again; the logger goes on with what it began.
Fairness == WF_vars(Begin(Task)) /\ WF_vars(SyncStep(Task)) /\ WF_vars(PriceCharge)

Spec == Init /\ [][Next]_vars /\ Fairness

-----------------------------------------------------------------------------
(* Properties. *)

\* Only an invoice replaces the price by an invoice while the charge has one:
\* no rematch and no end of a charge does, in whatever order they come.
Invoiced(c) == Linked(c) /\ charge[c].cost \in Invoices
InvoicedStays == [][\A c \in Charges : Invoiced(c) /\ Linked(c)' => Invoiced(c)']_vars

\* When no rematch is queued and nothing was lost, a charge that has ended and
\* has no invoice costs what the saved location says now, through every order of
\* saves, ends of charges, rematches and syncs.
PricesSettle ==
  closing = None /\ ~pending /\ ~lost =>
    \A c \in Charges : charge[c].state = "ended" /\ ~Linked(c) => charge[c].cost = FenceCost(c)

\* Once the syncs of the task succeed and no command runs, every invoice of the
\* history gets stored, and the charge it is linked to costs what is due, also
\* when a sync or a process ended between the link and the price.
Arrived(i) == i \in stored /\ (link[i] # None => charge[link[i]].cost = i)
Undisturbed == sync[Task].at # "failed" /\ \A s \in Syncs \ {Task} : sync[s] = Idle
InvoicesArrive ==
  <>[]Undisturbed => <>[](\A i \in Invoices : i \in Listed => Arrived(i))
=============================================================================
