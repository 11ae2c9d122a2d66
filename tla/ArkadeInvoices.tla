--------------------------- MODULE ArkadeInvoices ---------------------------
(***************************************************************************)
(* Lightning invoices for Arkade addresses.                                *)
(*                                                                         *)
(* An invoice belongs to a reverse swap: when the payer has paid, the swap *)
(* provider funds a VHTLC, and whoever claims it for the recipient reveals *)
(* the preimage, which completes the payment and cannot be undone.  The    *)
(* poller and the verify handlers look at an invoice in the same way: one  *)
(* past its expiry is cancelled without asking anybody; for any other they *)
(* have the SDK wait for the VHTLC and claim it, within a time limit.  The *)
(* claim in the Arkade network and the update of the row are two steps:    *)
(* the time limit, an error or a crash may come between them.              *)
(*                                                                         *)
(* When the poller gets to its Arkade pass is left to ClaimPaidInvoices.   *)
(*                                                                         *)
(* An invoice is named by the request that inserts it.                     *)
(***************************************************************************)
EXTENDS Naturals

CONSTANTS
  Requests,    \* GET /get-invoice handlers, and the invoices they may insert
  Verifiers,   \* GET /verify handlers
  Poller,      \* the background task
  None,        \* no invoice
  Lifetimes,   \* how long a BOLT11 invoice may be valid
  MaxTime      \* bound on the clock

Claimers == Verifiers \cup {Poller}

Actors == Requests \cup Claimers

ASSUME ActorsAssumption ==
  /\ Requests \cap Verifiers = {}
  /\ Poller \notin Requests \cup Verifiers
  /\ None \notin Requests

ASSUME NumbersAssumption ==
  /\ Lifetimes \subseteq Nat
  /\ MaxTime \in Nat

VARIABLES
  now,          \* the clock of service and database
  swap,         \* [Requests -> SwapStates]: the reverse swap of an invoice
  expires_at,   \* [Requests -> Nat]: arkade_invoice.expires_at, which is the
                \* end of the BOLT11 invoice's own validity
  state,        \* arkade_invoice.state, "absent" before the insert
  wakeup,       \* the permit of State::zap_receipts (tokio's Notify)
  pc,           \* where each actor is
  target,       \* [Claimers -> Requests \cup {None}]: the invoice looked at
  todo          \* the poller's snapshot of pending invoices

world == <<now, swap>>
rows == <<expires_at, state>>
vars == <<world, rows, wakeup, pc, target, todo>>

SwapStates == {"none", "created", "funded", "claimed", "lapsed"}

Refreshing == {"examine", "wait_for_vhtlc", "claimed", "announce"}

Init ==
  /\ now = 0
  /\ swap = [p \in Requests |-> "none"]
  /\ expires_at = [p \in Requests |-> 0]
  /\ state = [p \in Requests |-> "absent"]
  /\ wakeup = FALSE
  /\ pc = [a \in Actors |-> "idle"]
  /\ target = [a \in Claimers |-> None]
  /\ todo = {}

------------------------------------------------------------------------------
(* models/arkade_invoice.rs                                                 *)

\* UPDATE ... WHERE id = p AND state = Pending.
mark_cancelled(p) ==
  state' = [state EXCEPT ![p] = IF @ = "pending" THEN "cancelled" ELSE @]

\* The update by id alone.
Mutant_SettleAnyState(p) == state' = [state EXCEPT ![p] = "settled"]

mark_settled(p) ==
  state' = [state EXCEPT ![p] = IF @ = "pending" THEN "settled" ELSE @]

invoice_has_expired(p) == expires_at[p] <= now

------------------------------------------------------------------------------
(* get_invoice_impl, for an Arkade address.                                  *)

Goto(a, there) == pc' = [pc EXCEPT ![a] = there]

\* The request is valid; the await of invoice_for_address, which creates the
\* swap.
MakeInvoice(r) ==
  /\ pc[r] = "idle"
  /\ swap' = [swap EXCEPT ![r] = "created"]
  /\ \E lifetime \in Lifetimes :
       expires_at' = [expires_at EXCEPT ![r] = now + lifetime]
  /\ Goto(r, "insert")
  /\ UNCHANGED <<now, state, wakeup, target, todo>>

Insert(r) ==
  /\ pc[r] = "insert"
  /\ state' = [state EXCEPT ![r] = "pending"]
  /\ Goto(r, "done")
  /\ UNCHANGED <<world, expires_at, wakeup, target, todo>>

\* An error, the request timeout, or a client that went away.
RequestFails(r) ==
  /\ pc[r] = "insert"
  /\ Goto(r, "done")
  /\ UNCHANGED <<world, rows, wakeup, target, todo>>

Create(r) == MakeInvoice(r) \/ Insert(r) \/ RequestFails(r)

------------------------------------------------------------------------------
(* claim_paid_arkade_invoices_once and refresh_arkade_invoice_receive_status *)

Examine(a, p) ==
  /\ Goto(a, "examine")
  /\ target' = [target EXCEPT ![a] = p]

Return(a) ==
  /\ Goto(a, "idle")
  /\ target' = [target EXCEPT ![a] = None]

\* The row is left pending.
Mutant_ExpireSkips(a) ==
  /\ pc[a] = "examine"
  /\ invoice_has_expired(target[a])
  /\ Return(a)
  /\ UNCHANGED <<world, rows, wakeup, todo>>

Expire(a) ==
  /\ pc[a] = "examine"
  /\ invoice_has_expired(target[a])
  /\ mark_cancelled(target[a])
  /\ Return(a)
  /\ UNCHANGED <<world, expires_at, wakeup, todo>>

\* claim_receive begins to wait for the VHTLC of the swap.
AwaitVhtlc(a) ==
  /\ pc[a] = "examine"
  /\ ~invoice_has_expired(target[a])
  /\ Goto(a, "wait_for_vhtlc")
  /\ UNCHANGED <<world, rows, wakeup, target, todo>>

\* The SDK claims a funded VHTLC.
Claim(a) ==
  /\ pc[a] = "wait_for_vhtlc"
  /\ swap[target[a]] = "funded"
  /\ swap' = [swap EXCEPT ![target[a]] = "claimed"]
  /\ Goto(a, "claimed")
  /\ UNCHANGED <<now, rows, wakeup, target, todo>>

\* Asked about a VHTLC that has been claimed, the SDK may have the preimage.
ClaimedBefore(a) ==
  /\ pc[a] = "wait_for_vhtlc"
  /\ swap[target[a]] = "claimed"
  /\ Goto(a, "claimed")
  /\ UNCHANGED <<world, rows, wakeup, target, todo>>

\* The time limit is taken for a claim.
Mutant_TimeoutClaims(a) ==
  /\ pc[a] = "wait_for_vhtlc"
  /\ Goto(a, "claimed")
  /\ UNCHANGED <<world, rows, wakeup, target, todo>>

\* Without a time limit: only a claim that went through is given up.
Mutant_NoTimeLimit(a) ==
  /\ pc[a] = "claimed"
  /\ Return(a)
  /\ UNCHANGED <<world, rows, wakeup, todo>>

\* One invoice that is not paid yet ends the poller's pass.
Mutant_GiveUpEndsPass(a) ==
  /\ pc[a] \in {"wait_for_vhtlc", "claimed"}
  /\ Return(a)
  /\ todo' = IF a = Poller THEN {} ELSE todo
  /\ UNCHANGED <<world, rows, wakeup>>

\* The time limit of claim_receive or an error of the SDK, before the claim or
\* after it: the poller takes the next invoice, a handler answers.
ClaimGivesUp(a) ==
  /\ pc[a] \in {"wait_for_vhtlc", "claimed"}
  /\ Return(a)
  /\ UNCHANGED <<world, rows, wakeup, todo>>

Settle(a) ==
  /\ pc[a] = "claimed"
  /\ mark_settled(target[a])
  /\ \/ /\ state[target[a]] = "pending"
        /\ Goto(a, "announce")
        /\ UNCHANGED target
     \/ /\ state[target[a]] # "pending"
        /\ Return(a)
  /\ UNCHANGED <<world, expires_at, wakeup, todo>>

\* notify_one, in the same poll of the future as the update.
Announce(a) ==
  /\ pc[a] = "announce"
  /\ wakeup' = TRUE
  /\ Return(a)
  /\ UNCHANGED <<world, rows, todo>>

\* The database fails: a handler fails, the poller's pass is over.
DatabaseFails(a) ==
  /\ \/ pc[a] = "examine" /\ invoice_has_expired(target[a])
     \/ pc[a] = "claimed"
  /\ Return(a)
  /\ todo' = IF a = Poller THEN {} ELSE todo
  /\ UNCHANGED <<world, rows, wakeup>>

Refresh(a) ==
  \/ Expire(a)
  \/ AwaitVhtlc(a)
  \/ Claim(a)
  \/ ClaimedBefore(a)
  \/ ClaimGivesUp(a)
  \/ Settle(a)
  \/ Announce(a)
  \/ DatabaseFails(a)

------------------------------------------------------------------------------
\* A verify handler finds a pending invoice and refreshes it.
Verify(v, p) ==
  /\ pc[v] = "idle"
  /\ state[p] = "pending"
  /\ Examine(v, p)
  /\ UNCHANGED <<world, rows, wakeup, todo>>

PollPending ==
  /\ pc[Poller] = "idle"
  /\ todo = {}
  /\ todo' = {p \in Requests : state[p] = "pending"}
  /\ UNCHANGED <<world, rows, wakeup, pc, target>>

PollNext(p) ==
  /\ pc[Poller] = "idle"
  /\ p \in todo
  /\ todo' = todo \ {p}
  /\ Examine(Poller, p)
  /\ UNCHANGED <<world, rows, wakeup>>

\* A restart loses what is not stored.
Crash ==
  /\ pc' = [a \in Actors |->
              IF a \in Requests /\ pc[a] # "idle" THEN "done" ELSE "idle"]
  /\ target' = [a \in Claimers |-> None]
  /\ todo' = {}
  /\ wakeup' = FALSE
  /\ UNCHANGED <<world, rows>>

------------------------------------------------------------------------------
(* The world outside.                                                       *)

Tick ==
  /\ now < MaxTime
  /\ now' = now + 1
  /\ UNCHANGED <<swap, rows, wakeup, pc, target, todo>>

\* The provider funds a swap whose invoice is paid in time; a swap nobody
\* completes lapses.
SwapMoves(p) ==
  /\ state[p] # "absent"
  /\ \/ /\ swap[p] = "created"
        /\ now <= expires_at[p]
        /\ swap' = [swap EXCEPT ![p] = "funded"]
     \/ /\ swap[p] \in {"created", "funded"}
        /\ swap' = [swap EXCEPT ![p] = "lapsed"]
  /\ UNCHANGED <<now, rows, wakeup, pc, target, todo>>

PublisherWakes ==
  /\ wakeup
  /\ wakeup' = FALSE
  /\ UNCHANGED <<world, rows, pc, target, todo>>

World == Tick \/ (\E p \in Requests : SwapMoves(p)) \/ PublisherWakes

------------------------------------------------------------------------------
Next ==
  \/ \E r \in Requests : Create(r)
  \/ \E a \in Claimers : Refresh(a)
  \/ \E v \in Verifiers, p \in Requests : Verify(v, p)
  \/ PollPending
  \/ \E p \in Requests : PollNext(p)
  \/ Crash
  \/ World

Spec == Init /\ [][Next]_vars

------------------------------------------------------------------------------
(* Invariants.                                                              *)

\* Every variable has its type; a claimer looks at an invoice exactly while
\* it is refreshing one.
TypeOK ==
  /\ now \in 0..MaxTime
  /\ swap \in [Requests -> SwapStates]
  /\ expires_at \in [Requests -> Nat]
  /\ state \in [Requests -> {"absent", "pending", "settled", "cancelled"}]
  /\ wakeup \in BOOLEAN
  /\ pc \in [Actors -> {"idle", "insert", "done"} \cup Refreshing]
  /\ target \in [Claimers -> Requests \cup {None}]
  /\ todo \subseteq Requests
  /\ \A r \in Requests : pc[r] \in {"idle", "insert", "done"}
  /\ \A a \in Claimers : target[a] # None <=> pc[a] \in Refreshing

\* Claimers and the poller's snapshot are about inserted invoices, and a
\* request is done when its invoice is in the table.
ActorsCoherent ==
  /\ \A a \in Claimers : target[a] # None => state[target[a]] # "absent"
  /\ \A p \in todo : state[p] # "absent"
  /\ \A r \in Requests : state[r] # "absent" => pc[r] = "done"

\* A claimer that has a preimage has it of a claimed swap; one that is about to
\* wake the publisher is the only one that settled its invoice.
ClaimsSound ==
  /\ \A a \in Claimers :
       pc[a] \in {"claimed", "announce"} => swap[target[a]] = "claimed"
  /\ \A a \in Claimers : pc[a] = "announce" => state[target[a]] = "settled"
  /\ \A a, b \in Claimers :
       pc[a] = "announce" /\ pc[b] = "announce" /\ target[a] = target[b] => a = b

\* An invoice is settled only if its recipient has been paid, whatever time
\* limits and retries came between.
SettledWasClaimed ==
  \A p \in Requests : state[p] = "settled" => swap[p] = "claimed"

\* The inductive invariant.
IInv ==
  /\ TypeOK
  /\ ActorsCoherent
  /\ ClaimsSound
  /\ SettledWasClaimed

------------------------------------------------------------------------------
Ledger == INSTANCE InvoiceLedger WITH
  Invoices <- Requests,
  ledger <- state,
  revealed <- {p \in Requests : swap[p] = "claimed"},
  unannounced <- {p \in Requests :
                    \E a \in Claimers : pc[a] = "announce" /\ target[a] = p}

\* Arkade invoices keep the same ledger as Bark invoices: one terminal state,
\* paid before settled, one wakeup per settlement.
ImplementsInvoiceLedger == Ledger!Spec

------------------------------------------------------------------------------
(* What README.md says of the service and the code does not keep.           *)

\* README: "After the invoice is paid, a zap receipt ... is published".  It is
\* published of settled invoices only, and a cancelled one is never settled: an
\* invoice whose payment is complete must not be cancelled.
ClaimedNotCancelled ==
  [][\A p \in Requests :
       state[p] = "pending" /\ swap[p] = "claimed" => state'[p] # "cancelled"]_vars
==============================================================================
