---------------------------- MODULE BarkInvoices ----------------------------
(***************************************************************************)
(* Lightning invoices for Bark addresses: get_invoice asks barkd for one   *)
(* and stores it; the 30 s poller and the verify handlers settle or cancel *)
(* it.                                                                     *)
(*                                                                         *)
(* The poller works in a batch: it loads the pending invoices, then lists  *)
(* barkd's receives, then applies the listed answer to each listed invoice *)
(* and asks barkd about every other one.  By the time an answer is applied *)
(* it may be as old as the whole batch.  A verify handler always asks.     *)
(* A settlement is a database write followed, in the same poll of the      *)
(* future, by a wakeup of the zap receipt publisher; only a crash comes    *)
(* between the two.                                                        *)
(*                                                                         *)
(* An invoice is named by the request that inserts it.                     *)
(***************************************************************************)
EXTENDS Naturals, Barkd

CONSTANTS
  Requests,    \* GET /get-invoice handlers, and the invoices they may insert
  Verifiers,   \* GET /verify handlers
  Poller,      \* the background task
  None,        \* no invoice
  Lifetimes,   \* how long a BOLT11 invoice of barkd may be valid
  MaxTime      \* bound on the clock

Claimers == Verifiers \cup {Poller}

Actors == Requests \cup Claimers

ASSUME ActorsAssumption ==
  /\ Requests \cap Verifiers = {}
  /\ Poller \notin Requests \cup Verifiers
  /\ None \notin Requests

ASSUME NumbersAssumption ==
  /\ Lifetimes \subseteq Nat
  /\ MaxTime \in Nat

VARIABLES
  now,          \* the clock of service, database and barkd
  receive,      \* [Requests -> Phases]: barkd's Lightning receive
  bolt_expiry,  \* [Requests -> Nat]: end of the BOLT11 invoice's validity
  state,        \* invoice.state, "absent" before the insert
  expires_at,   \* [Requests -> Nat]: invoice.expires_at
  wakeup,       \* the permit of State::zap_receipts (tokio's Notify)
  pc,           \* where each actor is
  claim,        \* [Claimers -> Claims]: what a claimer works on and has read
  todo,         \* the poller's snapshot of pending invoices
  listed        \* the poller's list of barkd's receives

world == <<now, receive, bolt_expiry>>
rows == <<state, expires_at>>
vars == <<world, rows, wakeup, pc, claim, todo, listed>>

Claims == [target : Requests \cup {None}, receive : Receive]

NoClaim == [target |-> None, receive |-> NoReceive]

Claiming == {"read_status", "apply", "announce"}

\* No receive listed: also what a failed listing leaves the poller with.
NothingListed == [p \in Requests |-> NoReceive]

Init ==
  /\ now = 0
  /\ receive = [p \in Requests |-> "missing"]
  /\ bolt_expiry = [p \in Requests |-> 0]
  /\ state = [p \in Requests |-> "absent"]
  /\ expires_at = [p \in Requests |-> 0]
  /\ wakeup = FALSE
  /\ pc = [a \in Actors |-> "idle"]
  /\ claim = [a \in Claimers |-> NoClaim]
  /\ todo = {}
  /\ listed = NothingListed

------------------------------------------------------------------------------
(* models/invoice.rs                                                        *)

\* UPDATE ... WHERE id = p AND state = Pending.
mark_cancelled(p) ==
  state' = [state EXCEPT ![p] = IF @ = "pending" THEN "cancelled" ELSE @]

\* The preimage a settled invoice stores is the one of its receive.
mark_settled(p) ==
  state' = [state EXCEPT ![p] = IF @ = "pending" THEN "settled" ELSE @]

\* Only the expiry column counts; it is the BOLT11 expiry itself.
invoice_has_expired(p) ==
  \/ expires_at[p] <= now
  \/ bolt_expiry[p] < now

------------------------------------------------------------------------------
(* get_invoice_impl, for a Bark address.                                     *)

Goto(a, there) == pc' = [pc EXCEPT ![a] = there]

\* The request is valid; the await of invoice_for_address.
MakeInvoice(r) ==
  /\ pc[r] = "idle"
  /\ receive' = [receive EXCEPT ![r] = "awaiting-payment"]
  /\ \E lifetime \in Lifetimes :
       bolt_expiry' = [bolt_expiry EXCEPT ![r] = now + lifetime]
  /\ Goto(r, "insert")
  /\ UNCHANGED <<now, rows, wakeup, claim, todo, listed>>

Insert(r) ==
  /\ pc[r] = "insert"
  /\ state' = [state EXCEPT ![r] = "pending"]
  /\ expires_at' = [expires_at EXCEPT ![r] = bolt_expiry[r]]
  /\ Goto(r, "done")
  /\ UNCHANGED <<world, wakeup, claim, todo, listed>>

\* An error of barkd or the database, the request timeout, or a client that
\* went away.
RequestFails(r) ==
  /\ pc[r] = "insert"
  /\ Goto(r, "done")
  /\ UNCHANGED <<world, rows, wakeup, claim, todo, listed>>

Create(r) == MakeInvoice(r) \/ Insert(r) \/ RequestFails(r)

------------------------------------------------------------------------------
(* claim_invoice_if_paid and apply_invoice_receive_status.                  *)

StartClaim(a, p, there, answer) ==
  /\ Goto(a, there)
  /\ claim' = [claim EXCEPT ![a] = [target |-> p, receive |-> answer]]

Return(a) ==
  /\ Goto(a, "idle")
  /\ claim' = [claim EXCEPT ![a] = NoClaim]

\* The await of receive_status.
ReadStatus(a, answer) ==
  /\ pc[a] = "read_status"
  /\ answer \in receive_status(receive[claim[a].target])
  /\ claim' = [claim EXCEPT ![a].receive = answer]
  /\ Goto(a, "apply")
  /\ UNCHANGED <<world, rows, wakeup, todo, listed>>

\* Settled, but nobody is told.
Mutant_SettleQuietly(a) ==
  /\ pc[a] = "apply"
  /\ revealed_preimage(claim[a].receive)
  /\ mark_settled(claim[a].target)
  /\ Return(a)
  /\ UNCHANGED <<world, expires_at, wakeup, todo, listed>>

\* Told whether or not the update found the invoice pending.
Mutant_SettleLoudly(a) ==
  /\ pc[a] = "apply"
  /\ revealed_preimage(claim[a].receive)
  /\ mark_settled(claim[a].target)
  /\ Goto(a, "announce")
  /\ UNCHANGED <<world, expires_at, wakeup, claim, todo, listed>>

\* A revealed preimage settles the invoice; the publisher is woken only if the
\* update found it pending.
Settle(a) ==
  /\ pc[a] = "apply"
  /\ revealed_preimage(claim[a].receive)
  /\ mark_settled(claim[a].target)
  /\ \/ /\ state[claim[a].target] = "pending"
        /\ Goto(a, "announce")
        /\ claim' = [claim EXCEPT ![a].receive = NoReceive]
     \/ /\ state[claim[a].target] # "pending"
        /\ Return(a)
  /\ UNCHANGED <<world, expires_at, wakeup, todo, listed>>

\* notify_one.
Announce(a) ==
  /\ pc[a] = "announce"
  /\ wakeup' = TRUE
  /\ Return(a)
  /\ UNCHANGED <<world, rows, todo, listed>>

\* cancel_invoice_if_expired, where the receive allows it.
Expire(a) ==
  /\ pc[a] = "apply"
  /\ MayExpire(claim[a].receive)
  /\ invoice_has_expired(claim[a].target)
  /\ mark_cancelled(claim[a].target)
  /\ Return(a)
  /\ UNCHANGED <<world, expires_at, wakeup, todo, listed>>

Keep(a) ==
  /\ pc[a] = "apply"
  /\ ~revealed_preimage(claim[a].receive)
  /\ ~(MayExpire(claim[a].receive) /\ invoice_has_expired(claim[a].target))
  /\ Return(a)
  /\ UNCHANGED <<world, rows, wakeup, todo, listed>>

\* barkd or the database fails, or a handler's future is dropped; it cannot be
\* dropped between the update and the wakeup.
ClaimFails(a) ==
  /\ pc[a] \in {"read_status", "apply"}
  /\ Return(a)
  /\ UNCHANGED <<world, rows, wakeup, todo, listed>>

ClaimWorks(a) ==
  \/ \E answer \in Receive : ReadStatus(a, answer)
  \/ Settle(a)
  \/ Announce(a)
  \/ Expire(a)
  \/ Keep(a)

Claim(a) == ClaimWorks(a) \/ ClaimFails(a)

------------------------------------------------------------------------------
(* verify and the poller.                                                   *)

\* A verify handler finds a pending invoice and refreshes it.
Verify(v, p) ==
  /\ pc[v] = "idle"
  /\ state[p] = "pending"
  /\ StartClaim(v, p, "read_status", NoReceive)
  /\ UNCHANGED <<world, rows, wakeup, todo, listed>>

\* The poller loads the pending invoices.
PollPending ==
  /\ pc[Poller] = "idle"
  /\ todo = {}
  /\ todo' = {p \in Requests : state[p] = "pending"}
  /\ listed' = NothingListed
  /\ Goto(Poller, "list")
  /\ UNCHANGED <<world, rows, wakeup, claim>>

\* The await of pending_receives: some receives are listed, each as it is now;
\* if the listing fails, none.
PollReceives(answers) ==
  /\ pc[Poller] = "list"
  /\ \A p \in Requests : answers[p] \in receive_status(receive[p]) \cup {NoReceive}
  /\ listed' = answers
  /\ Goto(Poller, "idle")
  /\ UNCHANGED <<world, rows, wakeup, claim, todo>>

\* A listed invoice is passed over.
Mutant_PollSkipsListed(p) ==
  /\ pc[Poller] = "idle"
  /\ p \in todo
  /\ listed[p] # NoReceive
  /\ todo' = todo \ {p}
  /\ UNCHANGED <<world, rows, wakeup, pc, claim, listed>>

\* A listed invoice is not asked about again.  Its entry of the list is not read
\* again either and is dropped here.
PollListed(p) ==
  /\ pc[Poller] = "idle"
  /\ p \in todo
  /\ listed[p] # NoReceive
  /\ todo' = todo \ {p}
  /\ StartClaim(Poller, p, "apply", listed[p])
  /\ listed' = [listed EXCEPT ![p] = NoReceive]
  /\ UNCHANGED <<world, rows, wakeup>>

\* Neither listed nor asked about, an invoice past its expiry is cancelled.
Mutant_PollUnasked(p) ==
  /\ pc[Poller] = "idle"
  /\ p \in todo
  /\ listed[p] = NoReceive
  /\ todo' = todo \ {p}
  /\ StartClaim(Poller, p, "apply", NoReceive)
  /\ UNCHANGED <<world, rows, wakeup, listed>>

PollUnlisted(p) ==
  /\ pc[Poller] = "idle"
  /\ p \in todo
  /\ listed[p] = NoReceive
  /\ todo' = todo \ {p}
  /\ StartClaim(Poller, p, "read_status", NoReceive)
  /\ UNCHANGED <<world, rows, wakeup, listed>>

Poll ==
  \/ PollPending
  \/ \E answers \in [Requests -> Receive] : PollReceives(answers)
  \/ \E p \in Requests : PollListed(p) \/ PollUnlisted(p)

\* The service stops and is started again; the stored wakeup is lost.
Crash ==
  /\ pc' = [a \in Actors |->
              IF a \in Requests /\ pc[a] # "idle" THEN "done" ELSE "idle"]
  /\ claim' = [a \in Claimers |-> NoClaim]
  /\ todo' = {}
  /\ listed' = NothingListed
  /\ wakeup' = FALSE
  /\ UNCHANGED <<world, rows>>

------------------------------------------------------------------------------
(* The world outside, and the publisher.                                    *)

Tick ==
  /\ now < MaxTime
  /\ now' = now + 1
  /\ UNCHANGED <<receive, bolt_expiry, rows, wakeup, pc, claim, todo, listed>>

BarkdMoves(p) ==
  /\ state[p] # "absent"
  /\ \E phase \in NextPhases(receive[p]) :
       /\ receive[p] = "awaiting-payment" /\ phase \in InProgress
            => now <= bolt_expiry[p]
       /\ receive' = [receive EXCEPT ![p] = phase]
  /\ UNCHANGED <<now, bolt_expiry, rows, wakeup, pc, claim, todo, listed>>

\* The publisher's notified() returns and consumes the permit.
PublisherWakes ==
  /\ wakeup
  /\ wakeup' = FALSE
  /\ UNCHANGED <<world, rows, pc, claim, todo, listed>>

World == Tick \/ (\E p \in Requests : BarkdMoves(p)) \/ PublisherWakes

------------------------------------------------------------------------------
Next ==
  \/ \E r \in Requests : Create(r)
  \/ \E a \in Claimers : Claim(a)
  \/ \E v \in Verifiers, p \in Requests : Verify(v, p)
  \/ Poll
  \/ Crash
  \/ World

Spec == Init /\ [][Next]_vars

\* The interval of the poller keeps ticking, and each of its awaits ends, at
\* the latest by barkd's client timeout.
PollerRuns == WF_vars(Poll \/ Claim(Poller))

\* Every step but a crash and a failing claim of the poller.
NothingFails ==
  \/ \E r \in Requests : Create(r)
  \/ \E a \in Claimers : ClaimWorks(a)
  \/ \E v \in Verifiers : ClaimFails(v) \/ \E p \in Requests : Verify(v, p)
  \/ Poll
  \/ World

\* The service stops crashing, and the poller's claims stop failing, some day.
FailuresEnd == <>[][NothingFails]_vars

\* An answer about a revealed receive that lacks the preimage.
Withheld(answer) == answer.phase \in Revealed /\ ~answer.preimage

\* A barkd that withholds preimages from the poller, in answers or in lists,
\* stops doing so some day.
PreimageSent ==
  <>[](/\ ~Withheld(claim[Poller].receive)
       /\ \A p \in Requests : ~Withheld(listed[p]))

FairSpec == Spec /\ PollerRuns /\ FailuresEnd /\ PreimageSent

------------------------------------------------------------------------------
(* Invariants.                                                              *)

\* Every variable has its type; a claimer is inside a claim exactly if its
\* claim names an invoice.
TypeOK ==
  /\ now \in 0..MaxTime
  /\ receive \in [Requests -> Phases]
  /\ bolt_expiry \in [Requests -> Nat]
  /\ state \in [Requests -> {"absent", "pending", "settled", "cancelled"}]
  /\ expires_at \in [Requests -> Nat]
  /\ wakeup \in BOOLEAN
  /\ pc \in [Actors -> {"idle", "insert", "done", "list"} \cup Claiming]
  /\ claim \in [Claimers -> Claims]
  /\ todo \subseteq Requests
  /\ listed \in [Requests -> Receive]
  /\ \A r \in Requests : pc[r] \in {"idle", "insert", "done"}
  /\ \A a \in Claimers : claim[a].target # None <=> pc[a] \in Claiming

\* Claims and the poller's snapshot are of inserted invoices, and a request is
\* done when its invoice is in the table.
ActorsCoherent ==
  /\ \A a \in Claimers : claim[a].target # None => state[claim[a].target] # "absent"
  /\ \A p \in todo : state[p] # "absent"
  /\ \A r \in Requests : state[r] # "absent" => pc[r] = "done"

\* A preimage a claim or the poller's list holds is still out.
SamplesSound ==
  /\ \A a \in Claimers : pc[a] \in Claiming =>
       (revealed_preimage(claim[a].receive) => receive[claim[a].target] \in Revealed)
  /\ \A p \in Requests :
       revealed_preimage(listed[p]) => receive[p] \in Revealed

\* An invoice about to be announced is settled, and announced by one claimer.
AnnouncesSettled ==
  /\ \A a \in Claimers : pc[a] = "announce" => state[claim[a].target] = "settled"
  /\ \A a, b \in Claimers :
       pc[a] = "announce" /\ pc[b] = "announce" /\ claim[a].target = claim[b].target
         => a = b

\* An invoice is settled only if the payer's preimage is out, even when it was
\* settled on an answer from the start of the poller's batch.
SettledWasPaid ==
  \A p \in Requests : state[p] = "settled" => receive[p] \in Revealed

\* The inductive invariant.
IInv ==
  /\ TypeOK
  /\ ActorsCoherent
  /\ SamplesSound
  /\ AnnouncesSettled
  /\ SettledWasPaid

------------------------------------------------------------------------------
(* Action properties and the refinement.                                    *)

\* Somebody holds an answer that lets p expire and has not acted on it yet: a
\* claim, or the list of the poller's batch.
ExpiryInFlight(p) ==
  \/ \E a \in Claimers : /\ pc[a] = "apply"
                         /\ claim[a].target = p
                         /\ MayExpire(claim[a].receive)
  \/ p \in todo /\ listed[p] # NoReceive /\ MayExpire(listed[p])

\* p is pending, its payment has been accepted, and every answer in flight
\* knows it.
Claimable(p) ==
  /\ state[p] = "pending"
  /\ receive[p] \in InProgress
  /\ ~ExpiryInFlight(p)

\* An accepted payment is safe: its invoice stays claimable through expiry,
\* failed listings and crashes until it is settled or barkd gives the payment up.
AcceptedPaymentSafe ==
  [][\A p \in Requests :
       Claimable(p) => \/ Claimable(p)'
                       \/ state'[p] = "settled"
                       \/ receive'[p] = "missing"]_vars

Ledger == INSTANCE InvoiceLedger WITH
  Invoices <- Requests,
  ledger <- state,
  revealed <- {p \in Requests : receive[p] \in Revealed},
  unannounced <- {p \in Requests :
                    \E a \in Claimers : pc[a] = "announce" /\ claim[a].target = p}

\* The poller's batches, the verify handlers and the crashes together keep the
\* ledger: one terminal state per invoice, paid before settled, one wakeup per
\* settlement.
ImplementsInvoiceLedger == Ledger!Spec

------------------------------------------------------------------------------
(* Liveness.                                                                *)

\* A claimable invoice whose preimage is out is settled, without any verify
\* request.
PaidSettles ==
  \A p \in Requests :
    Claimable(p) /\ receive[p] \in Revealed ~> state[p] = "settled"

\* An expired invoice does not stay pending, unless barkd has accepted a
\* payment of it.
LapsedCancelled ==
  \A p \in Requests :
    state[p] = "pending" /\ invoice_has_expired(p)
      ~> state[p] # "pending" \/ receive[p] \in InProgress

------------------------------------------------------------------------------
(* What README.md says of the service and the code does not keep.           *)

\* README: "Accepted Bark payments stay pending through invoice expiry and can
\* settle later."
AcceptedStaysPending ==
  [][\A p \in Requests :
       state[p] = "pending" /\ receive[p] \in InProgress
         => state'[p] # "cancelled"]_vars
==============================================================================
