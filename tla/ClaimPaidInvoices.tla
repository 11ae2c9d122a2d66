------------------------- MODULE ClaimPaidInvoices --------------------------
(***************************************************************************)
(* claim_paid_invoices, the background task: every 30 s it runs the pass   *)
(* over the pending purchases of names, then the pass over the Bark        *)
(* invoices, then the pass over the Arkade invoices.  An error of the      *)
(* database in a pass ends the tick: the later passes wait for the next    *)
(* one.  Within the Arkade pass the task waits for one swap after another, *)
(* and as long as it does, no purchase and no Bark invoice is looked at.   *)
(*                                                                         *)
(* The Arkade pass is the poller of ArkadeInvoices.  The other two are     *)
(* here only the time they take and the ways they end; what they do is in  *)
(* CustomAddresses and BarkInvoices.  Arkade support is enabled.           *)
(***************************************************************************)
EXTENDS ArkadeInvoices

VARIABLE
  tick    \* where the task is: waiting for the interval, in a pass, or in the
          \* Arkade pass with its invoices loaded

pollVars == <<vars, tick>>

Ticks == {"wait", "custom", "bark", "arkade", "claiming"}

PollInit == Init /\ tick = "wait"

------------------------------------------------------------------------------
(* The passes.                                                              *)

From(here, there) == tick = here /\ tick' = there

\* interval.tick()
StartTick == From("wait", "custom") /\ UNCHANGED vars

\* claim_paid_custom_address_invoices_once
CustomPass == From("custom", "bark") /\ UNCHANGED vars

\* The rest of claim_paid_bark_invoices_once
BarkPass == From("bark", "arkade") /\ UNCHANGED vars

\* The database fails while one of the passes loads its invoices.
PassFails ==
  /\ \E pass \in {"custom", "bark", "arkade"} : From(pass, "wait")
  /\ UNCHANGED vars

\* claim_paid_arkade_invoices_once
ArkadePass == From("arkade", "claiming") /\ PollPending

\* The loop takes the next invoice, whatever became of the one before.
NextInvoice == From("claiming", "claiming") /\ \E p \in Requests : PollNext(p)

RefreshWorks(a) ==
  \/ Expire(a)
  \/ AwaitVhtlc(a)
  \/ Claim(a)
  \/ ClaimedBefore(a)
  \/ ClaimGivesUp(a)
  \/ Settle(a)
  \/ Announce(a)

PollRefreshes == From("claiming", "claiming") /\ RefreshWorks(Poller)

\* A limit on the whole tick drops the pass wherever it is.
Mutant_TickDropped ==
  /\ From("claiming", "wait")
  /\ Return(Poller)
  /\ todo' = {}
  /\ UNCHANGED <<world, rows, wakeup>>

\* The error ends the pass, and with it the tick.
PollFails == From("claiming", "wait") /\ DatabaseFails(Poller)

PassEnds ==
  /\ From("claiming", "wait")
  /\ pc[Poller] = "idle"
  /\ todo = {}
  /\ UNCHANGED vars

\* Handlers and the world go on meanwhile.
Others ==
  /\ \/ \E r \in Requests : Create(r)
     \/ \E v \in Verifiers : Refresh(v) \/ \E p \in Requests : Verify(v, p)
     \/ World
  /\ UNCHANGED tick

Restart == Crash /\ tick' = "wait"

PollWorks ==
  \/ StartTick \/ CustomPass \/ BarkPass
  \/ ArkadePass \/ NextInvoice \/ PollRefreshes \/ PassEnds

PollNextState == PollWorks \/ PassFails \/ PollFails \/ Others \/ Restart

PollSpec == PollInit /\ [][PollNextState]_pollVars

------------------------------------------------------------------------------
\* The interval keeps ticking, the task keeps running, and each of its awaits
\* ends: those of the first two passes by barkd's client timeout, the wait for
\* a swap by its time limit.
PollerRuns == WF_pollVars(PollWorks \/ PassFails \/ PollFails)

\* The service stops crashing, and the database stops failing it, some day.
FailuresEnd == <>[][PollWorks \/ Others]_pollVars

\* An SDK that waits again and again for a VHTLC that is funded claims it.
FundedClaimable ==
  \A p \in Requests : SF_pollVars(target[Poller] = p /\ PollRefreshes /\ Claim(Poller))

FairSpec == PollSpec /\ PollerRuns /\ FailuresEnd /\ FundedClaimable

------------------------------------------------------------------------------
\* The types of ArkadeInvoices, and the poller works on Arkade invoices in the
\* Arkade pass only.
PollTypeOK ==
  /\ TypeOK
  /\ tick \in Ticks
  /\ tick # "claiming" => pc[Poller] = "idle" /\ todo = {}

\* The task is the poller of ArkadeInvoices, whose theorems are its own.
ImplementsArkadeInvoices == Spec

------------------------------------------------------------------------------
(* Liveness.                                                                *)

\* No pass starves another: a swap that nobody pays, or an invoice that cannot
\* be claimed, does not keep the task from purchases and Bark invoices, nor an
\* earlier pass from the Arkade invoices.
EveryPassRecurs == \A pass \in {"custom", "bark", "claiming"} : []<>(tick = pass)

\* An expired invoice does not stay pending.
LapsedCancelled ==
  \A p \in Requests :
    state[p] = "pending" /\ invoice_has_expired(p) ~> state[p] # "pending"

\* A funded swap is claimed without any verify request, unless it lapses or its
\* invoice expires first.
FundedClaimed ==
  \A p \in Requests :
    state[p] = "pending" /\ swap[p] = "funded"
      ~> swap[p] # "funded" \/ state[p] = "cancelled"
==============================================================================
