----------------------------- MODULE ZapReceipts -----------------------------
(***************************************************************************)
(* The publisher of zap receipts (src/zap_receipts.rs).                    *)
(*                                                                         *)
(* Invoices are settled by others: what they do is the module              *)
(* InvoiceLedger, whose variables this module shares and which             *)
(* BarkInvoices implements.  The publisher runs in passes.  A pass loads   *)
(* the settled invoices whose zap has no receipt yet, sends the receipt of *)
(* each to the relays its sender asked for, and stores the event id of     *)
(* each that some relay accepted.  Between passes it waits for a wakeup or *)
(* its timer.                                                              *)
(*                                                                         *)
(* Every invoice of the model has a zap request; the others could only     *)
(* wake the publisher in vain, as its timer does.                          *)
(***************************************************************************)
EXTENDS Naturals

CONSTANTS
  Zaps,       \* zap requests, and the invoices that pay them
  None,       \* no event
  Window,     \* RETRY_WINDOW_HOURS
  MaxTime     \* bound on the clock

ASSUME NumbersAssumption ==
  /\ Window \in Nat
  /\ MaxTime \in Nat

Events == [zap : Zaps, created_at : 0..MaxTime]

ASSUME NoneAssumption == None \notin Events

VARIABLES
  ledger, revealed, unannounced, wakeup,   \* of InvoiceLedger
  now,          \* the clock of service and database
  settled_at,   \* [Zaps -> 0..MaxTime]: invoice.settled_at, 0 before
  event_id,     \* [Zaps -> Events \cup {None}]: zaps.event_id
  relays,       \* the events some relay has stored
  pc,           \* where the publisher is
  batch,        \* what is left of its pass
  current,      \* the event it has just published
  tried         \* history: the zaps already settled when its last pass began

settlement == <<ledger, revealed, unannounced, wakeup, settled_at>>
publisher == <<pc, batch, current, tried>>
vars == <<settlement, now, event_id, relays, publisher>>

Ledger == INSTANCE InvoiceLedger WITH Invoices <- Zaps

Settled == {z \in Zaps : ledger[z] = "settled"}

Init ==
  /\ Ledger!Init
  /\ now = 0
  /\ settled_at = [z \in Zaps |-> 0]
  /\ event_id = [z \in Zaps |-> None]
  /\ relays = {}
  /\ pc = "query"
  /\ batch = {}
  /\ current = None
  /\ tried = {}

------------------------------------------------------------------------------
(* The settlement of invoices.                                              *)

\* mark_settled stores the time of settlement with the state.
Settle(z) ==
  /\ Ledger!Settle(z)
  /\ settled_at' = [settled_at EXCEPT ![z] = now]
  /\ UNCHANGED <<now, event_id, relays, publisher>>

Others ==
  /\ \E z \in Zaps : \/ Ledger!Open(z)
                     \/ Ledger!Reveal(z)
                     \/ Ledger!Cancel(z)
                     \/ Ledger!Announce(z)
  /\ UNCHANGED <<settled_at, now, event_id, relays, publisher>>

Tick ==
  /\ now < MaxTime
  /\ now' = now + 1
  /\ UNCHANGED <<settlement, event_id, relays, publisher>>

------------------------------------------------------------------------------
(* publish_pending.                                                         *)

\* The state of the invoice is not looked at.
Mutant_AnyState ==
  {z \in Zaps : event_id[z] = None /\ settled_at[z] + Window > now}

\* Only what has been settled since the last pass is loaded.
Mutant_NewOnly == {z \in Settled \ tried : event_id[z] = None}

get_unpublished_settled ==
  {z \in Settled : event_id[z] = None /\ settled_at[z] + Window > now}

\* The event is dated when it is built.
Mutant_DatedNow(z) == [zap |-> z, created_at |-> now]

build_zap_receipt(z) == [zap |-> z, created_at |-> settled_at[z]]

Query ==
  /\ pc = "query"
  /\ batch' = get_unpublished_settled
  /\ tried' = Settled
  /\ pc' = "publish"
  /\ UNCHANGED <<settlement, now, event_id, relays, current>>

\* A pass that fails is over; the rest of its batch waits for the next one.
QueryFails ==
  /\ pc = "query"
  /\ tried' = Settled
  /\ pc' = "wait"
  /\ UNCHANGED <<settlement, now, event_id, relays, batch, current>>

\* What was sent counts as published.
Mutant_SentIsPublished(z) ==
  /\ pc = "publish"
  /\ z \in batch
  /\ current' = build_zap_receipt(z)
  /\ batch' = batch \ {z}
  /\ pc' = "record"
  /\ UNCHANGED <<settlement, now, event_id, relays, tried>>

\* Some relay accepts the receipt and says so.
Publish(z) ==
  /\ pc = "publish"
  /\ z \in batch
  /\ relays' = relays \cup {build_zap_receipt(z)}
  /\ current' = build_zap_receipt(z)
  /\ batch' = batch \ {z}
  /\ pc' = "record"
  /\ UNCHANGED <<settlement, now, event_id, tried>>

\* No relay says that it has accepted the receipt, though one may have.
PublishFails(z) ==
  /\ pc = "publish"
  /\ z \in batch
  /\ relays' \in {relays, relays \cup {build_zap_receipt(z)}}
  /\ batch' = batch \ {z}
  /\ UNCHANGED <<settlement, now, event_id, pc, current, tried>>

set_event_id ==
  /\ pc = "record"
  /\ event_id' = [event_id EXCEPT ![current.zap] = current]
  /\ current' = None
  /\ pc' = "publish"
  /\ UNCHANGED <<settlement, now, relays, batch, tried>>

\* The database fails after the receipt is out; the pass is over.
RecordFails ==
  /\ pc = "record"
  /\ current' = None
  /\ batch' = {}
  /\ pc' = "wait"
  /\ UNCHANGED <<settlement, now, event_id, relays, tried>>

\* A wakeup that comes during a pass is not stored (notify_waiters).
Mutant_ForgetWakeup ==
  /\ pc = "publish"
  /\ batch = {}
  /\ wakeup' = FALSE
  /\ pc' = "wait"
  /\ UNCHANGED <<ledger, revealed, unannounced, settled_at, now, event_id,
                 relays, batch, current, tried>>

PassEnds ==
  /\ pc = "publish"
  /\ batch = {}
  /\ pc' = "wait"
  /\ UNCHANGED <<settlement, now, event_id, relays, batch, current, tried>>

\* The two branches of run's select.
Notified ==
  /\ pc = "wait"
  /\ Ledger!Wake
  /\ pc' = "query"
  /\ UNCHANGED <<settled_at, now, event_id, relays, batch, current, tried>>

Slept ==
  /\ pc = "wait"
  /\ pc' = "query"
  /\ UNCHANGED <<settlement, now, event_id, relays, batch, current, tried>>

Crash ==
  /\ Ledger!Restart
  /\ pc' = "query"
  /\ batch' = {}
  /\ current' = None
  /\ tried' = {}
  /\ UNCHANGED <<settled_at, now, event_id, relays>>

------------------------------------------------------------------------------
run ==
  \/ Query
  \/ \E z \in Zaps : Publish(z) \/ PublishFails(z)
  \/ set_event_id
  \/ PassEnds
  \/ Notified
  \/ Slept

Environment == (\E z \in Zaps : Settle(z)) \/ Others \/ Tick

Next == run \/ QueryFails \/ RecordFails \/ Crash \/ Environment

Spec == Init /\ [][Next]_vars

\* The loop of the publisher never ends; every await in it has a time limit.
PublisherRuns == WF_vars(run \/ QueryFails \/ RecordFails)

\* The database stops failing and the service stops crashing, some day.
FailuresEnd == <>[][run \/ Environment]_vars

\* Relays asked again and again accept a receipt some day.
RelaysAccept == \A z \in Zaps : SF_vars(Publish(z))

FairSpec == Spec /\ PublisherRuns /\ FailuresEnd /\ RelaysAccept

------------------------------------------------------------------------------
(* Invariants.                                                              *)

\* Every variable has its type, and the publisher has a published event in
\* hand exactly while it records it.
TypeOK ==
  /\ ledger \in [Zaps -> {"absent", "pending", "settled", "cancelled"}]
  /\ revealed \subseteq Zaps
  /\ unannounced \subseteq Zaps
  /\ wakeup \in BOOLEAN
  /\ now \in 0..MaxTime
  /\ settled_at \in [Zaps -> 0..MaxTime]
  /\ event_id \in [Zaps -> Events \cup {None}]
  /\ relays \subseteq Events
  /\ pc \in {"wait", "query", "publish", "record"}
  /\ batch \subseteq Zaps
  /\ current \in Events \cup {None}
  /\ tried \subseteq Zaps
  /\ current # None <=> pc = "record"

\* No relay ever holds the receipt of an invoice that is not settled: a receipt
\* is evidence of a payment, and it cannot be withdrawn.
ReceiptsOfSettled == \A e \in relays : e.zap \in Settled

\* Every receipt carries the time of its settlement.
ReceiptsDated == \A e \in relays : e.created_at = settled_at[e.zap]

\* A receipt may be sent many times, across failed passes, lost answers and
\* crashes, but it is always the same event (the comment of
\* build_zap_receipt): relays never hold two receipts of one zap.
OneEventPerZap == \A e, f \in relays : e.zap = f.zap => e = f

\* A zap whose receipt is recorded is never sent again: the event recorded is its
\* receipt, and some relay has it.
RecordedWasPublished ==
  /\ \A z \in Zaps :
       event_id[z] # None => event_id[z] \in relays /\ event_id[z].zap = z
  /\ current # None => current \in relays

\* What a pass still has to send is settled.
BatchSettled == batch \cup tried \subseteq Settled

\* A waiting publisher does not sleep through a settlement: a pass has begun
\* since, or its wakeup is still to come.  (notify_one stores the wakeup if
\* nobody waits; a restarted publisher begins with a pass.)
NoSettlementMissed ==
  pc = "wait" => \/ wakeup
                 \/ Settled \subseteq tried \cup unannounced

\* What the publisher has not seen settled, it will be told of or look for.
SettlementsKnown ==
  \A z \in Settled : z \in tried \cup unannounced \/ wakeup \/ pc = "query"

\* The inductive invariant.
IInv ==
  /\ TypeOK
  /\ ReceiptsOfSettled
  /\ ReceiptsDated
  /\ RecordedWasPublished
  /\ BatchSettled
  /\ SettlementsKnown

------------------------------------------------------------------------------
(* Liveness.                                                                *)

\* README: "Failed publishes are retried for 24 hours".  A settled zap gets a
\* receipt that is recorded, or its window passes.
PublishedInWindow ==
  \A z \in Zaps : z \in Settled ~> \/ event_id[z] # None
                                   \/ settled_at[z] + Window <= now
==============================================================================
