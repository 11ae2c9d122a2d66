--------------------------- MODULE CustomAddresses ---------------------------
(***************************************************************************)
(* The sale of custom names.                                               *)
(*                                                                         *)
(* A POST handler (a request) verifies the buyer, settles or cancels the   *)
(* purchase that may still hold the name, checks that the name is free,    *)
(* has barkd issue a fee invoice and inserts a pending purchase.  The fee  *)
(* may be paid over Lightning or by an Ark payment to the fee address.     *)
(* Three kinds of actors run claim_custom_address_invoice_if_paid at the   *)
(* same time: the 30 s poller, the GET handlers (viewers) and the POST     *)
(* handlers that find the name held.  A claim is two reads of barkd, each  *)
(* an await, and one database write made on what they returned; anything   *)
(* may happen in between, also a failure of the claim or of the service.   *)
(*                                                                         *)
(* A purchase is named by the request that inserts it.                     *)
(***************************************************************************)
EXTENDS Naturals, Barkd

CONSTANTS
  Requests,      \* POST handlers, and the purchases they may insert
  Viewers,       \* GET handlers
  Poller,        \* the background task
  Names,         \* custom names
  Owners,        \* Ark addresses a name may point to
  None,          \* no owner, no purchase
  Fee,           \* the price of a name
  Amounts,       \* what an Ark payment to a fee address may carry
  Reservation,   \* CUSTOM_ADDRESS_INVOICE_EXPIRY
  Lifetimes,     \* how long a BOLT11 invoice of barkd may be valid
  MaxTime        \* bound on the clock

Actors == Requests \cup Viewers \cup {Poller}

ASSUME ActorsAssumption ==
  /\ Requests \cap Viewers = {}
  /\ Poller \notin Requests \cup Viewers
  /\ None \notin Requests \cup Owners

ASSUME NumbersAssumption ==
  /\ Fee \in Nat
  /\ Amounts \subseteq Nat
  /\ Reservation \in Nat
  /\ Lifetimes \subseteq Nat
  /\ MaxTime \in Nat

VARIABLES
  now,          \* the clock of service, database and barkd
  receive,      \* [Requests -> Phases]: barkd's Lightning receive of the fee
  bolt_expiry,  \* [Requests -> Nat]: end of the fee invoice's own validity
  movements,    \* [Requests -> SUBSET Amounts]: Ark payments to its address
  name,         \* [Requests -> Names \cup {None}]: name asked for
  owner,        \* [Requests -> Owners \cup {None}]: address it shall point to
  state,        \* custom_address_invoice.state, "absent" before the insert
  via,          \* the rail a purchase was settled by
  expires_at,   \* [Requests -> Nat]: end of the reservation
  active,       \* [Names -> Owners \cup {None}]: the table custom_addresses
  pc,           \* where each actor is
  claim,        \* what each actor's claim works on and has read so far
  todo          \* the poller's snapshot of pending purchases

world == <<now, receive, bolt_expiry, movements>>
rows == <<name, owner, state, via, expires_at>>
vars == <<world, rows, active, pc, claim, todo>>

Claims ==
  [target : Requests \cup {None}, receive : Receive, ark : SUBSET Amounts]

NoClaim == [target |-> None, receive |-> NoReceive, ark |-> {}]

\* Program points inside claim_custom_address_invoice_if_paid.
Claiming == {"read_status", "read_history", "decide"}

\* Program points of a POST handler after its claim, if it made one.
Creating == {"check_active", "check_pending", "make_invoice", "insert"}

Init ==
  /\ now = 0
  /\ receive = [p \in Requests |-> "missing"]
  /\ bolt_expiry = [p \in Requests |-> 0]
  /\ movements = [p \in Requests |-> {}]
  /\ name = [p \in Requests |-> None]
  /\ owner = [p \in Requests |-> None]
  /\ state = [p \in Requests |-> "absent"]
  /\ via = [p \in Requests |-> "none"]
  /\ expires_at = [p \in Requests |-> 0]
  /\ active = [n \in Names |-> None]
  /\ pc = [a \in Actors |-> "idle"]
  /\ claim = [a \in Actors |-> NoClaim]
  /\ todo = {}

------------------------------------------------------------------------------
(* The database operations of models/custom_address.rs.                    *)

Pending(n) == {p \in Requests : name[p] = n /\ state[p] = "pending"}

\* UPDATE ... WHERE id = p AND state = Pending.
mark_cancelled(p) ==
  state' = [state EXCEPT ![p] = IF @ = "pending" THEN "cancelled" ELSE @]

\* The update without the insert of the active name.
Mutant_SettleOnly(p, rail) ==
  /\ state' = [state EXCEPT ![p] = IF @ = "pending" THEN "settled" ELSE @]
  /\ via' = [via EXCEPT ![p] = IF state[p] = "pending" THEN rail ELSE @]
  /\ UNCHANGED active

\* The update by id alone.
Mutant_SettleAnyState(p, rail) ==
  \/ /\ active[name[p]] # None
     /\ mark_cancelled(p)
     /\ UNCHANGED <<via, active>>
  \/ /\ active[name[p]] = None
     /\ state' = [state EXCEPT ![p] = "settled"]
     /\ via' = [via EXCEPT ![p] = rail]
     /\ active' = [active EXCEPT ![name[p]] = owner[p]]

\* No look at custom_addresses first: the insert fails on the unique name and
\* the transaction is rolled back.
Mutant_InsertConflict(p, rail) ==
  IF active[name[p]] = None /\ state[p] = "pending"
    THEN /\ state' = [state EXCEPT ![p] = "settled"]
         /\ via' = [via EXCEPT ![p] = rail]
         /\ active' = [active EXCEPT ![name[p]] = owner[p]]
    ELSE UNCHANGED <<state, via, active>>

\* One transaction: a purchase of an active name is cancelled, a pending one
\* is settled and its name activated, any other is left alone.
mark_settled_and_activate(p, rail) ==
  \/ /\ active[name[p]] # None
     /\ mark_cancelled(p)
     /\ UNCHANGED <<via, active>>
  \/ /\ active[name[p]] = None
     /\ state[p] = "pending"
     /\ state' = [state EXCEPT ![p] = "settled"]
     /\ via' = [via EXCEPT ![p] = rail]
     /\ active' = [active EXCEPT ![name[p]] = owner[p]]
  \/ /\ active[name[p]] = None
     /\ state[p] # "pending"
     /\ UNCHANGED <<state, via, active>>

\* A payment of any amount counts.
Mutant_AnyAmount(p) == movements[p]

\* One payment to the fee address must carry the whole fee: those that do.
received_ark_payment(p) == {amount \in movements[p] : amount >= Fee}

invoice_has_expired(p) ==
  \/ expires_at[p] <= now
  \/ bolt_expiry[p] < now

custom_address_invoice_expires_at(p) ==
  LET reserved_until == now + Reservation
  IN IF bolt_expiry[p] <= reserved_until THEN bolt_expiry[p]
                                         ELSE reserved_until

------------------------------------------------------------------------------
(* claim_custom_address_invoice_if_paid, run by any actor.                  *)

Goto(a, there) == pc' = [pc EXCEPT ![a] = there]

StartClaim(a, p) ==
  /\ Goto(a, "read_status")
  /\ claim' = [claim EXCEPT ![a] = [NoClaim EXCEPT !.target = p]]

\* The claim returns Ok: a POST handler goes on to its checks.
Return(a) ==
  /\ Goto(a, IF a \in Requests THEN "check_active" ELSE "idle")
  /\ claim' = [claim EXCEPT ![a] = NoClaim]

\* The claim returns an error, or its future is dropped: a POST handler
\* fails, a GET handler answers with an error, the poller takes the next row.
ClaimFails(a) ==
  /\ pc[a] \in Claiming
  /\ Goto(a, IF a \in Requests THEN "done" ELSE "idle")
  /\ claim' = [claim EXCEPT ![a] = NoClaim]
  /\ UNCHANGED <<world, rows, active, todo>>

\* The await of receive_status.
ReadStatus(a, answer) ==
  /\ pc[a] = "read_status"
  /\ answer \in receive_status(receive[claim[a].target])
  /\ claim' = [claim EXCEPT ![a].receive = answer]
  /\ Goto(a, "read_history")
  /\ UNCHANGED <<world, rows, active, todo>>

\* A revealed preimage settles the purchase at once.
SettleLightning(a) ==
  /\ pc[a] = "read_history"
  /\ revealed_preimage(claim[a].receive)
  /\ mark_settled_and_activate(claim[a].target, "lightning")
  /\ Return(a)
  /\ UNCHANGED <<world, name, owner, expires_at, todo>>

\* Any other answer is followed by the await of received_ark_payment.
ReadHistory(a) ==
  /\ pc[a] = "read_history"
  /\ ~revealed_preimage(claim[a].receive)
  /\ claim' = [claim EXCEPT ![a].ark = received_ark_payment(claim[a].target)]
  /\ Goto(a, "decide")
  /\ UNCHANGED <<world, rows, active, todo>>

SettleArk(a) ==
  /\ pc[a] = "decide"
  /\ claim[a].ark # {}
  /\ mark_settled_and_activate(claim[a].target, "ark")
  /\ Return(a)
  /\ UNCHANGED <<world, name, owner, expires_at, todo>>

\* cancel_custom_address_invoice_if_expired, where the receive allows it.
Expire(a) ==
  /\ pc[a] = "decide"
  /\ claim[a].ark = {}
  /\ MayExpire(claim[a].receive)
  /\ invoice_has_expired(claim[a].target)
  /\ mark_cancelled(claim[a].target)
  /\ Return(a)
  /\ UNCHANGED <<world, name, owner, via, expires_at, active, todo>>

Keep(a) ==
  /\ pc[a] = "decide"
  /\ claim[a].ark = {}
  /\ ~(MayExpire(claim[a].receive) /\ invoice_has_expired(claim[a].target))
  /\ Return(a)
  /\ UNCHANGED <<world, rows, active, todo>>

ClaimWorks(a) ==
  \/ \E answer \in Receive : ReadStatus(a, answer)
  \/ SettleLightning(a)
  \/ ReadHistory(a)
  \/ SettleArk(a)
  \/ Expire(a)
  \/ Keep(a)

Claim(a) == ClaimWorks(a) \/ ClaimFails(a)

------------------------------------------------------------------------------
(* create_custom_address_invoice_impl.                                      *)

\* The request is valid and its signature verified; the first look at the
\* database asks for the purchase that holds the name.
Begin(r, n, o) ==
  /\ pc[r] = "idle"
  /\ name' = [name EXCEPT ![r] = n]
  /\ owner' = [owner EXCEPT ![r] = o]
  /\ \/ \E p \in Pending(n) : StartClaim(r, p)
     \/ /\ Pending(n) = {}
        /\ Goto(r, "check_active")
        /\ UNCHANGED claim
  /\ UNCHANGED <<world, state, via, expires_at, active, todo>>

CheckActive(r) ==
  /\ pc[r] = "check_active"
  /\ Goto(r, IF active[name[r]] = None THEN "check_pending" ELSE "done")
  /\ UNCHANGED <<world, rows, active, claim, todo>>

CheckPending(r) ==
  /\ pc[r] = "check_pending"
  /\ Goto(r, IF Pending(name[r]) = {} THEN "make_invoice" ELSE "done")
  /\ UNCHANGED <<world, rows, active, claim, todo>>

\* The awaits of new_address and invoice_for_address.
MakeInvoice(r) ==
  /\ pc[r] = "make_invoice"
  /\ receive' = [receive EXCEPT ![r] = "awaiting-payment"]
  /\ \E lifetime \in Lifetimes :
       bolt_expiry' = [bolt_expiry EXCEPT ![r] = now + lifetime]
  /\ Goto(r, "insert")
  /\ UNCHANGED <<now, movements, rows, active, claim, todo>>

\* No unique index on the name of a pending purchase.
Mutant_InsertTwice(r) ==
  /\ pc[r] = "insert"
  /\ state' = [state EXCEPT ![r] = "pending"]
  /\ expires_at' = [expires_at EXCEPT
       ![r] = custom_address_invoice_expires_at(r)]
  /\ Goto(r, "done")
  /\ UNCHANGED <<world, name, owner, via, active, claim, todo>>

\* The insert; it fails if the name has a pending purchase by now.
Insert(r) ==
  /\ pc[r] = "insert"
  /\ \/ /\ Pending(name[r]) = {}
        /\ state' = [state EXCEPT ![r] = "pending"]
        /\ expires_at' = [expires_at EXCEPT
             ![r] = custom_address_invoice_expires_at(r)]
     \/ /\ Pending(name[r]) # {}
        /\ UNCHANGED <<state, expires_at>>
  /\ Goto(r, "done")
  /\ UNCHANGED <<world, name, owner, via, active, claim, todo>>

\* An error of barkd or the database, the request timeout, or a client that
\* went away.
RequestFails(r) ==
  /\ pc[r] \in Creating
  /\ Goto(r, "done")
  /\ UNCHANGED <<world, rows, active, claim, todo>>

Create(r) ==
  \/ \E n \in Names, o \in Owners : Begin(r, n, o)
  \/ CheckActive(r)
  \/ CheckPending(r)
  \/ MakeInvoice(r)
  \/ Insert(r)
  \/ RequestFails(r)

------------------------------------------------------------------------------
(* get_custom_address_invoice and the poller.                               *)

\* A GET handler reads a pending purchase and refreshes it.
View(v, p) ==
  /\ pc[v] = "idle"
  /\ state[p] = "pending"
  /\ StartClaim(v, p)
  /\ UNCHANGED <<world, rows, active, todo>>

\* The poller loads every pending purchase.
PollList ==
  /\ pc[Poller] = "idle"
  /\ todo = {}
  /\ todo' = {p \in Requests : state[p] = "pending"}
  /\ UNCHANGED <<world, rows, active, pc, claim>>

\* It takes the next one of its snapshot, whatever became of it since.
PollNext(p) ==
  /\ pc[Poller] = "idle"
  /\ p \in todo
  /\ todo' = todo \ {p}
  /\ StartClaim(Poller, p)
  /\ UNCHANGED <<world, rows, active>>

\* The service stops and is started again: the handlers are gone, the poller
\* begins anew, the tables and barkd stay.
Crash ==
  /\ pc' = [a \in Actors |->
              IF a \in Requests /\ pc[a] # "idle" THEN "done" ELSE "idle"]
  /\ claim' = [a \in Actors |-> NoClaim]
  /\ todo' = {}
  /\ UNCHANGED <<world, rows, active>>

------------------------------------------------------------------------------
(* The world outside.                                                       *)

Tick ==
  /\ now < MaxTime
  /\ now' = now + 1
  /\ UNCHANGED <<receive, bolt_expiry, movements, rows, active, pc, claim, todo>>

\* The receive of a fee invoice somebody may know of; a payment is accepted
\* only while the invoice is valid.
BarkdMoves(p) ==
  /\ state[p] # "absent"
  /\ \E phase \in NextPhases(receive[p]) :
       /\ receive[p] = "awaiting-payment" /\ phase \in InProgress
            => now <= bolt_expiry[p]
       /\ receive' = [receive EXCEPT ![p] = phase]
  /\ UNCHANGED <<now, bolt_expiry, movements, rows, active, pc, claim, todo>>

\* An Ark payment to the fee address of a purchase.
PayArk(p, amount) ==
  /\ state[p] # "absent"
  /\ movements' = [movements EXCEPT ![p] = @ \cup {amount}]
  /\ UNCHANGED <<now, receive, bolt_expiry, rows, active, pc, claim, todo>>

World ==
  \/ Tick
  \/ \E p \in Requests : BarkdMoves(p)
  \/ \E p \in Requests, amount \in Amounts : PayArk(p, amount)

------------------------------------------------------------------------------
Next ==
  \/ \E a \in Actors : Claim(a)
  \/ \E r \in Requests : Create(r)
  \/ \E v \in Viewers, p \in Requests : View(v, p)
  \/ PollList
  \/ \E p \in Requests : PollNext(p)
  \/ Crash
  \/ World

Spec == Init /\ [][Next]_vars

\* The poller's own steps, failed claims included.
Poll == PollList \/ (\E p \in Requests : PollNext(p)) \/ Claim(Poller)

\* The interval of the poller keeps ticking, and each of its awaits ends, at
\* the latest by barkd's client timeout.
PollerRuns == WF_vars(Poll)

\* Every step but a crash and a failing claim of the poller.
NothingFails ==
  \/ \E a \in Actors : ClaimWorks(a)
  \/ \E a \in Actors \ {Poller} : ClaimFails(a)
  \/ \E r \in Requests : Create(r)
  \/ \E v \in Viewers, p \in Requests : View(v, p)
  \/ PollList
  \/ \E p \in Requests : PollNext(p)
  \/ World

\* The service stops crashing, and the poller's claims stop failing, some day.
FailuresEnd == <>[][NothingFails]_vars

\* A barkd that answers the poller about a revealed receive without sending the
\* preimage stops doing so some day.
PreimageSent ==
  <>[](claim[Poller].receive.phase \in Revealed => claim[Poller].receive.preimage)

FairSpec == Spec /\ PollerRuns /\ FailuresEnd /\ PreimageSent

------------------------------------------------------------------------------
(* Invariants.                                                              *)

\* An actor is inside a claim exactly if its claim names a purchase, and only
\* a request is at the points of a POST handler's own code.
ActorsTypeOK ==
  /\ pc \in [Actors -> {"idle", "done"} \cup Claiming \cup Creating]
  /\ claim \in [Actors -> Claims]
  /\ \A a \in Actors :
       /\ claim[a].target # None <=> pc[a] \in Claiming
       /\ pc[a] \in Creating \cup {"done"} => a \in Requests

\* Every variable has its type, and claims fit the program points.
TypeOK ==
  /\ now \in 0..MaxTime
  /\ receive \in [Requests -> Phases]
  /\ bolt_expiry \in [Requests -> Nat]
  /\ movements \in [Requests -> SUBSET Amounts]
  /\ name \in [Requests -> Names \cup {None}]
  /\ owner \in [Requests -> Owners \cup {None}]
  /\ state \in [Requests -> {"absent", "pending", "settled", "cancelled"}]
  /\ via \in [Requests -> {"none", "lightning", "ark"}]
  /\ expires_at \in [Requests -> Nat]
  /\ active \in [Names -> Owners \cup {None}]
  /\ todo \subseteq Requests
  /\ ActorsTypeOK

\* Two purchases that are not the same never hold or own the same name, and
\* the name of a settled purchase is the buyer's; conversely a name is active
\* only because a settled purchase of its owner made it so.  (The transaction
\* of mark_settled_and_activate and the unique indexes of the two tables.)
ActiveIffSettled ==
  /\ \A p \in Requests : state[p] = "settled" => active[name[p]] = owner[p]
  /\ \A p, q \in Requests :
       state[p] = "settled" /\ state[q] = "settled" /\ name[p] = name[q]
         => p = q
  /\ \A n \in Names : active[n] # None =>
       \E p \in Requests : state[p] = "settled" /\ name[p] = n

\* A fee is paid if the preimage of its receive is out or if one Ark payment
\* to its address carried it.
PaidByLightning(p) == receive[p] \in Revealed

PaidByArk(p) == \E amount \in movements[p] : amount >= Fee

Paid(p) == PaidByLightning(p) \/ PaidByArk(p)

\* A name is never given away: a purchase that is settled, by whichever actor
\* and on whatever it had read, has been paid on the rail it is settled by.
SettledWasPaid ==
  \A p \in Requests : state[p] = "settled" =>
    \/ via[p] = "lightning" /\ PaidByLightning(p)
    \/ via[p] = "ark" /\ PaidByArk(p)

\* Where an actor is and what its purchase is: claims and the poller's
\* snapshot are of inserted purchases, a request has a name once it has
\* begun, and it is done when its purchase is in the table.
ActorsCoherent ==
  /\ \A a \in Actors : claim[a].target # None => state[claim[a].target] # "absent"
  /\ \A p \in todo : state[p] # "absent"
  /\ \A r \in Requests : pc[r] # "idle" => name[r] \in Names /\ owner[r] \in Owners
  /\ \A r \in Requests : state[r] # "absent" => pc[r] = "done"

\* What a claim has read of a payment is still true: payments are not undone.
SamplesSound ==
  \A a \in Actors : pc[a] \in Claiming =>
    /\ revealed_preimage(claim[a].receive) => PaidByLightning(claim[a].target)
    /\ claim[a].ark # {} => PaidByArk(claim[a].target)

\* The partial unique index on the name of a pending purchase.
OnePendingPerName ==
  \A p, q \in Requests :
    state[p] = "pending" /\ state[q] = "pending" /\ name[p] = name[q] => p = q

\* The inductive invariant.
IInv ==
  /\ TypeOK
  /\ ActorsCoherent
  /\ SamplesSound
  /\ OnePendingPerName
  /\ ActiveIffSettled
  /\ SettledWasPaid

------------------------------------------------------------------------------
(* Action properties and the refinement.                                    *)

\* A claim that has read that p may expire and has not acted on it yet.
ExpiryInFlight(p) ==
  \E a \in Actors : /\ pc[a] \in {"read_history", "decide"}
                    /\ claim[a].target = p
                    /\ MayExpire(claim[a].receive)

\* p holds its name, its Lightning payment has been accepted, and no claim
\* still works on an answer from before that.
Claimable(p) ==
  /\ state[p] = "pending"
  /\ active[name[p]] = None
  /\ receive[p] \in InProgress
  /\ ~ExpiryInFlight(p)

\* An accepted fee payment is safe from expiry, from competing requests for
\* the same name and from crashes: the purchase stays claimable until it is
\* settled or the payment itself has failed in barkd.
AcceptedPaymentSafe ==
  [][\A p \in Requests :
       Claimable(p) => \/ Claimable(p)'
                       \/ state'[p] = "settled"
                       \/ receive'[p] = "missing"]_vars

\* The holder of a name that is not active is the pending purchase of it.
HolderOf(n) ==
  {[purchase |-> p, owner |-> owner[p]] :
     p \in {q \in Pending(n) : active[n] = None}}

Reserved == [n \in Names |-> HolderOf(n)]

PaidPurchases == {p \in Requests : Paid(p)}

Registry == INSTANCE NameRegistry WITH
  Purchases <- Requests,
  owned <- active,
  reserved <- Reserved,
  paid <- PaidPurchases

\* The handlers, the poller and the two tables together are a name registry:
\* a name goes to the one purchase that holds it, paid, and stays with it.
ImplementsNameRegistry == Registry!Spec

------------------------------------------------------------------------------
(* Liveness.                                                                *)

\* A paid purchase does not stay pending: it is settled, or cancelled because
\* its name was taken.
PaidResolves ==
  \A p \in Requests : state[p] = "pending" /\ Paid(p) ~> state[p] # "pending"

\* A claimable purchase whose preimage is out is settled.
ClaimableActivates ==
  \A p \in Requests :
    Claimable(p) /\ PaidByLightning(p) ~> state[p] = "settled"

\* A reservation nobody pays for is released after its end, unless barkd has
\* accepted a late payment of the fee invoice.
LapsedReleased ==
  \A p \in Requests :
    state[p] = "pending" /\ invoice_has_expired(p)
      ~> state[p] # "pending" \/ receive[p] \in InProgress

------------------------------------------------------------------------------
(* What README.md says of the service and the code does not keep.           *)

\* README: "each name activates after its fee invoice is paid".  A purchase
\* whose fee has been paid within the reservation is not cancelled.
PaidInTimeNotCancelled ==
  [][\A p \in Requests :
       state[p] = "pending" /\ Paid(p) /\ ~invoice_has_expired(p)
         => state'[p] # "cancelled"]_vars

\* README: "If Bark has accepted the Lightning payment, the name stays
\* reserved until that payment resolves, even after invoice expiry."
AcceptedStaysReserved ==
  [][\A p \in Requests :
       state[p] = "pending" /\ receive[p] \in InProgress
         => state'[p] # "cancelled"]_vars
==============================================================================
