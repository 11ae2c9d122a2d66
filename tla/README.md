# A TLA+ development of arkzap-me

arkzap-me is a Lightning address (LNURL-pay) server. It has an external wallet
daemon, barkd, issue Lightning invoices for Bark addresses, keeps them in
Postgres, finds out when they are paid, publishes Nostr zap receipts, and sells
custom names for a fee. This directory models the parts of it in which several
handlers and background tasks act on the same rows while they wait for barkd, and what a
payer is told across requests, sales and restarts.

## 1. The system

| part | state | operations | interacts with |
|---|---|---|---|
| barkd client (`barkd.rs`) | none of its own; barkd keeps receives and movements | `invoice_for_address`, `new_address`, `receive_status`, `pending_receives`, `received_ark_payment`; `revealed_preimage`, `receive_allows_expiry` interpret an answer | every handler and the poller; each call is an await of at most 10 s |
| custom-name sale (`routes.rs`, `models/custom_address.rs`) | tables `custom_address_invoice` (purchases) and `custom_addresses` (active names), two unique indexes | POST and GET `/custom-addresses`, `claim_custom_address_invoice_if_paid`, `mark_settled_and_activate` | barkd client, poller |
| Bark invoices (`routes.rs`, `models/invoice.rs`) | table `invoice` | `get_invoice_impl`, `verify`, `claim_invoice_if_paid`, `apply_invoice_receive_status` | barkd client, poller, receipt publisher |
| background poller (`main.rs` 200-329) | the snapshot of pending rows it is working through | every 30 s: custom names, Bark invoices, Arkade invoices | all three tables |
| Arkade invoices (`routes.rs`, `models/arkade_invoice.rs`) | table `arkade_invoice` | issue, `claim_receive`, cancel at expiry | Arkade client, poller, publisher |
| Arkade client and swap storage (`arkade.rs`) | table `arkade_swap_storage` | insert, get, update, update_status, remove | Arkade SDK |
| receipt publisher (`zap_receipts.rs`) | tables `zaps`, `arkade_zaps`; a `Notify` permit | query unpublished settled zaps, publish, record the event id; woken or every 30 s | settlements, relays |
| request validation, name normalisation (`routes.rs`, `zap_receipts.rs`) | none | amount bounds, zap requests, names, signatures | the handlers |
| rate limiter (`rate_limit.rs`) | window and counter per client | `allow`, cleanup | middleware of every route |
| configuration, migrations, HTML page, health check, packaging | - | sequential, constant, or declarative | - |

What is hard about it:

* **Claims are reads, then a write.** A claim reads barkd (one or two awaits),
  then writes the row. The poller, GET handlers and competing POST handlers run
  claims of the same row at the same time, each on what it read earlier.
* **Creation is checks, then an insert**, with two awaits of barkd in between.
* **Time.** Reservations and invoices end while answers are in flight; a Lightning
  payment accepted before the end may complete long after it.
* **Failure.** barkd fails or times out, handlers are dropped with their client or
  by the request timeout, and the service restarts between any two steps.
* **Batches.** The poller applies one listing to many rows.

What makes each part correct:

* names: at most one owner, who paid, for life; a paying holder gets the name; a
  holder who does not pay loses it, one whose payment was accepted does not;
* invoices: settled only when the preimage is out, settled or cancelled once, and
  eventually; every settlement wakes the publisher;
* Arkade invoices: the same, with a claim that cannot be undone;
* payers: an offer is kept, a name reaches who bought it, a verify URL stays about its
  invoice, an answer is true and not older than the refresh it waited for;
* swap storage: a removed swap stays removed, a call nobody races is atomic;
* the poller: no pass starves another;
* receipts: at least once within the window, always under the same event id;
* rate limiter: never more than the limit in a window, cleanup notwithstanding; nobody is
  refused on account of a window that was not open and full while the request waited.

`PROJECT.json` lists the parts with their status, and every hazard at its line
with the properties that cover it.

## 2. Modules

| module | models |
|---|---|
| `Barkd` | the answers barkd may give about a Lightning receive, how a receive moves, and the two functions that read an answer |
| `CustomAddresses` | the sale of names: requests, viewers, poller, both tables, barkd, time, crashes |
| `NameRegistry` | abstract: what the sale promises about names, and what follows (`OneHolder`, `OwnedForEver`, `OnlyHoldersBuy`); `CustomAddresses` and `LnurlPay` refine it |
| `BarkInvoices` | Bark invoices: creation, verify, the batch poller, settlement and wakeup |
| `ArkadeInvoices` | Arkade invoices: creation, refresh by verify and poller, claims with a time limit |
| `ClaimPaidInvoices` | the background task: its interval and three passes, extending `ArkadeInvoices` |
| `InvoiceLedger` | abstract: what settlement promises about invoices and wakeups, and what follows (`SettledRevealed`, `EndsOnce`, `SettlementsWake`); `BarkInvoices`, `ArkadeInvoices`, `ClaimPaidInvoices` and `ZapReceipts` refine it |
| `ZapReceipts` | the receipt publisher, composed with `InvoiceLedger` |
| `ReceiveAddresses` | operators: addresses and names, normalisation, resolution, amount bounds, the signed message |
| `ZapRequests` | operators: validation of zap requests, the choice of relays |
| `LnurlPay` | the payer's three requests and the validation of purchases, composed with `NameRegistry`, `ReceiveAddresses` and `ZapRequests` |
| `SwapStorage` | the table of swaps and its calls of one or two statements |
| `RateLimiter` | the table of clients, its cleanup, and handlers that take the time before the lock |
| `FixedWindow` | abstract: a limiter that forgets nobody, and what follows (`LimitKept`, `PeriodsApart`); `RateLimiter` refines it |
| `MCLnurlPay` | texts, addresses, configurations and zap requests for TLC |
| `CustomAddresses_proofs`, `BarkInvoices_proofs`, `ArkadeInvoices_proofs`, `ClaimPaidInvoices_proofs`, `ZapReceipts_proofs`, `SwapStorage_proofs`, `RateLimiter_proofs`, `LnurlPay_proofs` | the theorems about each module |

### Barkd

A receive is reported as `[phase, preimage]`, the state string and whether a preimage
came with it. `"missing"` is the 404 that `receive_status` turns into `None`;
`"unknown-state"` stands for every string without a case in the code. Any phase may
come with or without a preimage (the field is optional), so `revealed_preimage` really
has to look at both. `NextPhases` is external: an accepted payment can still fail
(`missing`), a revealed preimage cannot be taken back. `Phases` lets a run leave out
phases the code treats alike: `htlcs-ready` and unknown states (neither revealed nor
expirable), and the three revealed ones.

### CustomAddresses

A purchase is named by the request that inserts it, so the table
`custom_address_invoice` is a set of functions on `Requests` (`name`, `owner`, `state`,
`via`, `expires_at`) and `custom_addresses` is `active`. `via` stands for the columns
`preimage` and `ark_payment_reference`, one of which a settlement fills. Barkd's side is
`receive`, `bolt_expiry` and `movements`. Each actor has a program counter and, inside a
claim, a record of what it has read.

| code | actions |
|---|---|
| `claim_custom_address_invoice_if_paid` (main.rs 472) | `ReadStatus` (await), `SettleLightning`, `ReadHistory` (await), `SettleArk`, `Expire`, `Keep`; `ClaimFails` for an error of either await or of the database, or a dropped future |
| `create_custom_address_invoice_impl` (routes.rs 817) | `Begin` (look for the holder and start its claim), `CheckActive`, `CheckPending`, `MakeInvoice` (both awaits), `Insert`; `RequestFails` |
| `get_custom_address_invoice` (routes.rs 800) | `View`, then a claim |
| `claim_paid_custom_address_invoices_once` (main.rs 262) | `PollList`, `PollNext`, then a claim |
| restart | `Crash` |
| barkd, payers, clock | `BarkdMoves`, `PayArk`, `Tick` |

A step is what runs between two awaits or between two statements that another actor
can observe. `mark_settled_and_activate` is one step: its transaction either commits
or leaves nothing behind, the row is updated under its state, and a concurrent
activation of the same name makes the insert fail on the unique index, which rolls it
back. Such a rollback is a `ClaimFails`. `CheckActive` and `CheckPending` are two
steps because they are two queries outside a transaction. The two awaits of
`MakeInvoice` write nothing anybody else sees, so they are one step. The poller takes
its snapshot in the order of ids; the model lets it take any order.

### BarkInvoices

`Create` is `MakeInvoice` (await) and `Insert`. The poller loads the pending invoices
(`PollPending`), lists barkd's receives (`PollReceives`, which also stands for a
failed listing: nothing listed), then handles each invoice: `PollListed` applies the
listed answer, `PollUnlisted` starts a claim of its own. `Verify` is the handler.
`Settle` and `Announce` are the update and `notify_one`: no await separates them, so
a dropped future cannot, but a crash can. `PublisherWakes` is the publisher's
`notified()`; what it does then is `ZapReceipts`.

### ArkadeInvoices

An invoice is named by the request that inserts it; `swap` is its reverse swap at the
provider, `state` and `expires_at` its row. `refresh_arkade_invoice_receive_status` and the
body of the poller's loop are the same steps, taken by any claimer: `Expire` or
`AwaitVhtlc`, then `Claim` (inside the await; it changes the swap), `ClaimedBefore`, or
`ClaimGivesUp` (the time limit or an SDK error, before or after the claim), then `Settle`
and `Announce`. `DatabaseFails` is an error of `get` or of an update: a verify handler
answers an error, the poller's pass ends (`?` in main.rs 298-311). What the SDK
answers about a swap that was claimed before is not known from this code:
`ClaimedBefore` may return the preimage, and `ClaimGivesUp` is possible too. An SDK that
claims and answers can never be told from one that claims while the await is being dropped, so
`Claim` comes before either. `expires_at` and the expiry of the BOLT11 invoice are the same moment
(routes.rs 453 computes the one from the other), so one variable stands for both.

### ClaimPaidInvoices

`tick` is where `claim_paid_invoices` is: waiting for the interval, in the pass over
purchases, over Bark invoices, or over Arkade invoices. `PassFails` and `PollFails` are the
`?` of main.rs 212-225 and 298-311, which end the tick and leave the later passes to the
next one; an error of the SDK does not (`ClaimGivesUp`). The Arkade pass is the poller of
`ArkadeInvoices`, which leaves open when it begins one; that the task is such a
poller is checked and proved (`ImplementsArkadeInvoices`). The other two passes are only the time they
take: what they do is in their own modules, whose pollers may pause for as long as they like. The
property that joins the three is `EveryPassRecurs`. Arkade support is enabled; without it, the
task is the first two passes alone.

### LnurlPay, ReceiveAddresses and ZapRequests

A text is a sequence of characters, of which the two cases of a letter, the marks of a name and the
blank are what the code tells apart (one letter in place of letters and digits, `-` for `-` and
`_`). A valid address is a record of its kind, its canonical text and its network, and is spelled in
that text or the same in capitals, as Bech32m is. `Option` and `Result` are sets of at most one.

| code | actions |
|---|---|
| `custom_address_auth_message` (routes.rs 766) and the owner's wallet | `Sign` |
| the validation in `create_custom_address_invoice_impl` (routes.rs 817-855) | `Reserve`, followed by the abstract purchase |
| the rest of the sale | `Sell`: payment, release, activation in `NameRegistry` |
| `get_lnurl_pay` | `get_lnurl_pay` |
| `get_invoice`, `get_invoice_impl` | `get_invoice`, with the amount check of routes.rs 444 against a server that may answer another amount |
| `verify` | `Verify` up to the await of the refresh, then `VerifyAnswers` or `VerifyFails` |
| settlement and expiry | `Resolves` |
| restart | `Restart`, with any configuration |

The payer takes one invoice; each request resolves its text against the configuration and the
names of that moment. `address` in an offer is history: it is what the payer meant. An offer is
forgotten when the configuration changes, since the code promises nothing across that. A
settled row always has its preimage (`mark_settled` writes both), so `settled` is one state.

`ZapRequests` reads of a Nostr event what the code reads. `RelayUrl` parses a text, in several
spellings of one URL; `with_relay` is the body of the loop of `zap_request_relays`, and `RelaysOf` the
reference without a loop that the result is compared with.

### SwapStorage

`insert`, `update_swap` and the reads are one statement each. `update_status` is
`BeginUpdateStatus` (a get that must find the swap) and `UpdateStatus` (the write of the whole
row); `remove` is `BeginRemove` and `Remove`. Each statement takes a connection of its own, and the SDK runs on several
threads, so anything may come between the two; `CallFails` is an error of the
second or the end of the process. The three families `submarine`, `reverse`, `chain` differ in
the type they write. `undisturbed` is history: the calls whose swap nobody has written since
their get. What the code does not keep, and no document promises, is that racing calls lose
nothing; `AloneIsAtomic` says what it does keep.

### ZapReceipts

`run` is the publisher: `Query` loads what is settled, unpublished and within the window;
`Publish` or `PublishFails` handles one receipt; `set_event_id` records it; `PassEnds`; then
`Notified` or `Slept`. `QueryFails` and `RecordFails` are the `?` of publish_pending, which end
the pass. `relays` is the set of events some relay has stored; in `PublishFails` a relay may
have stored the event although no answer says so. An event is its zap and its date:
everything else in it is copied from rows that do not change once settled. `zaps` and
`arkade_zaps` go through the same code one after the other and form one set; within a
set the query orders by settlement, the model lets the publisher take any order.
The settlement side is not repeated here but is the abstract `InvoiceLedger`, which the
two detailed modules implement, with the time of settlement added.

### RateLimiter

A handler takes the time (`Arrive`, rate_limit.rs 45) and then, under the lock, does everything else in
one step, `Allow` or `Deny`: the cleanup (`Kept`), the entry it finds or makes (`Current`), the
new entry (`Seen`). Between the two others may come first, with later times, which is the
interesting part. `Stall` bounds how long a handler waits for the lock: `Tick` lets no
waiting time grow beyond it. `known` is the set of keys of the table; the entry of a client that is
not known is kept as history only and read by no action, so that one can say when a forgotten
client's last window began.

A request is judged by the time it took, not by the time it gets the lock, and the
difference to `window_start` is never below zero (`duration_since`). So one that waits while
another handler opens the client's next window counts in that window, and is refused if
it has been filled by then, even if the window it came in had room. `JudgedByOpenWindow` says
that this is all the wait can cost: the window was open before the lock was taken, and full.

## 3. Runs

| run | configuration | shows |
|---|---|---|
| `custom_sale` | 2 requests for 1 name, 2 owners, poller, 4 phases, clock to 1, fairness | the inductive invariant, uniqueness of names, safety of accepted payments, refinement of `NameRegistry`, `PaidResolves`, `ClaimableActivates`, `LapsedReleased` |
| `custom_views` | 1 request, 1 viewer, poller, all 7 phases, payments of 1 and 2 for a fee of 2, clock to 2 | payment before settlement for every answer barkd can give |
| `bark` | 2 invoices, poller, 1 verify handler, 3 phases, clock to 1, fairness | the invariant, payment before settlement, safety of accepted payments, refinement of `InvoiceLedger`, `PaidSettles`, `LapsedCancelled` |
| `arkade` | 2 invoices, the task with its three passes, 1 verify handler, clock to 2, fairness | the invariant, refinement of `ArkadeInvoices` and `InvoiceLedger`, `EveryPassRecurs`, `LapsedCancelled`, `FundedClaimed` |
| `zaps` | 2 zaps, a window of 1, clock to 2, fairness | the invariant, one event per zap, recorded only if published, no settlement slept through, `PublishedInWindow` |
| `rate_limiter` | 2 clients, 2 handlers, limit 2, window 2, stall 1, clock from 3 to 9 | the invariant, refinement of `FixedWindow`, `JudgedByOpenWindow`, `AbsentForgotten` |
| `lnurl_pay` | 3 addresses, 16 texts, 3 configurations, 6 amounts, 16 zap requests, 1 purchase, 1 signature | the invariant, offers, verify URLs, names, signatures, stored zap requests, answers |
| `swap_storage` | 2 callers, 3 types that share 1 id, 2 statuses, 2 other values | the invariant, `OnlyInsertCreates`, `AloneIsAtomic` |
| `custom_paid_in_time`, `custom_accepted_reserved`, `bark_accepted_pending`, `arkade_claimed_cancelled` | the smallest instances that fail | the findings of section 6 |

Each `IInv` contains the module's `TypeOK` and its plain safety invariants (`SettledWasClaimed`,
`ReceiptsOfSettled`, `TypesReadable`, ...), which are therefore checked with it.

**Bounds.** Two requests are enough for every competition the code knows: holder
against newcomer, and two newcomers between check and insert; each request may still be
for either owner, so that giving the name to the wrong one shows. One name suffices
because no operation touches two. `Reservation` is 1; a `Lifetimes` of {1, 2} lets the fee
invoice end before, with or after the reservation, depending on when the insert
happens. `MaxTime` 2 lets both end while
claims are in flight; 1 is enough where one end is all that matters, as it is for the competition in
`custom_sale` and the batches in `bark`. `Amounts` {1, 2}
around a `Fee` of 2 are the boundary; where underpayment is not the question, {2}.
Two Arkade invoices let one be waited for while the other expires; a verify handler
beside the poller is the second claimer. Two zaps let a pass fail between them; a clock
that goes past the window lets one be abandoned while the other is published.
A clock of three windows lets a client be counted, stay away for two, be forgotten, come
back and use up another window, and a stall of half a window is the most that is allowed.
In `lnurl_pay` names are 2 to 3 characters long and 2 relays are the limit, so that each bound
is met from both sides; the texts hold an address in its three spellings, a name that differs
from an address by a blank, names in several spellings and texts that are neither; the
configurations differ in minimum, network and Arkade support, and the Arkade minimum lies above both.
One name at a time is sold, because two sales meet in `custom_sale`. In
`swap_storage` two callers are every race between a call of two statements and another, and types
that share an id are what a write to the wrong row needs. Symmetry is not used: most runs check liveness.

**Deadlock** is not checked: every request and viewer may finish, the clock is
bounded, and a service nobody calls may stand still. That the service never gets stuck
when there is something to do is what the liveness properties say.

**Fairness.** `PollerRuns`: the poller's loop never ends (an error of a pass is logged,
main.rs 205) and each of its awaits ends with an answer or barkd's 10 s client timeout,
so its steps are weakly fair; a failing claim counts as a step. `FailuresEnd`:
crashes of the service and failures of the poller's claims stop at some time (from then on every
step can be explained as one that is neither); without
it nothing can be promised. `PreimageSent`: a barkd that withholds preimages of revealed receives from the poller, in answers or
in lists, stops doing so some day; until then it may do so as often as it likes. In `ClaimPaidInvoices`, the awaits of the first two passes end by barkd's client timeout and
the wait for a swap by `claim_timeout`, and the database stops failing some day. `FundedClaimable`: an SDK that waits again and again for a
funded swap claims it; nothing is assumed of one already claimed. `RelaysAccept`: relays
that are offered a receipt again and again accept it; `PublisherRuns`, as for the poller,
since its loop never ends and each await on relays has a time limit (zap_receipts.rs 19).
Nothing is assumed of requests, viewers, payers or the
clock: all of them may stop for ever, so liveness rests on the poller alone.

**Refinement mappings.** `NameRegistry`: a name is reserved for the pending purchase of
it, unless it is active; a pending purchase of an active name (section 6) holds
nothing. `InvoiceLedger`: an invoice is revealed when its receive is, and unannounced
while a claimer stands between the update and `notify_one`. For Arkade, it is revealed when
its swap is claimed. `FixedWindow`: a client's period is its last window, forgotten or not.

Each property of a passing run has a mutant in `PROJECT.json`: a `Mutant_...`
definition beside the one it changes, under which the property fails.

## 4. Proofs

`CustomAddresses_proofs` proves, for every number of requests, viewers, names and
owners, every fee, set of amounts, reservation, lifetimes and clock bound:

* `TypeCorrect`: `Spec => []TypeOK`
* `Inductive`: `Spec => []IInv`
* `NamesGoToTheirBuyers`: `Spec => []ActiveIffSettled`
* `NothingIsGivenAway`: `Spec => []SettledWasPaid`
* `AcceptedPaymentsAreSafe`: `Spec => AcceptedPaymentSafe`
* `RefinesNameRegistry`: `Spec => ImplementsNameRegistry`

Assumed are only `ActorsAssumption` (the kinds of actors are disjoint, `None` is not one
of them), `NumbersAssumption` (numbers are naturals) and `PhasesAssumption`.

`SettledWasPaid` is not inductive: a claim settles on what it read earlier. `SamplesSound`
adds that what it read is still true, which holds because a revealed preimage and a
received payment are not undone. To apply it, the purchase a claim works on must be
in the table, and rows of the table must not change hands; `ActorsCoherent` says so.
`ActiveIffSettled` needs that a name is free and its purchase pending at the moment of
activation, which the transaction checks. `OnePendingPerName`, the unique index, makes
the holder of a name unique, which the refinement needs. `IInv` is the conjunction of
these with `TypeOK`.

The proof goes by actors: how one actor's step leaves the claims of all others sound
(`ActorKeepsSound`), and how each write leaves the tables in order (`SettleKeepsTables`,
`CancelKeepsTables`, `InsertKeepsTables`, `BeginKeepsTables`); each action then combines the
two. `AcceptedPaymentSafe` follows because a claimable purchase has no claim in flight
that may expire it (`NoNewExpiry`). The refinement has one more invariant,
`AbsentUnpaid` (nobody pays for a purchase that is not in the table yet), so that the
insert of a purchase changes the registry's reservation and nothing else.

What a reader wants to know of a name then follows from the registry's few actions, not
from the handlers: `OwnersAreForEver` (`Registry!OwnedForEver`: an active name is never freed or given
away) and `NamesAreBoughtByHolders` (`Registry!OnlyHoldersBuy`: it is activated only for the paid purchase that
held it, with the address that purchase asked for). `NamesHaveOneHolder` (`Registry!OneHolder`) rests on
`OnePendingPerName`. Of a purchase, `PurchasesEndOnce`: once settled or cancelled its row never
changes, by whichever claim, however old what the claim has read (`KeepsEnded`).
`CancellationsHaveCauses` (`CancelsForCause`) says what is left of the documented promise that finding 1
refutes: before its own end a purchase is cancelled only if another one, settled and paid, has the name.

`ZapReceipts_proofs` proves, for every number of zaps, every window and clock:
`Inductive`, `TypeCorrect`, `ReceiptsAreTrue` (`ReceiptsOfSettled`), `RepetitionsAreTheSame`
(`OneEventPerZap`), `NoReceiptIsLost` (`RecordedWasPublished`) and `NoWakeupIsLost`
(`NoSettlementMissed`). Two parts of `IInv` do the work: `ReceiptsDated`, from which two receipts of one
zap are equal, and `SettlementsKnown`, which extends `NoSettlementMissed` to the places where
the publisher is not waiting. That a settled invoice stays settled comes from
`InvoiceLedger`, whose actions the module uses. Assumed: numbers are naturals, and `None` is no event.

The publisher's side of the contract with the settlement is proved too. `KeepsLedger`
(`Spec => Ledger!Spec`): of its own it does nothing to the ledger but take the wakeup.
`ReceiptsAreEvidence` joins both sides: the preimage of every receipt's invoice is out, the
invoice is settled, and it stays settled. `RecordsAreFinal`: `set_event_id` overwrites, but never with
another event. It needs that a recorded event is of the row's own zap, which `RecordedWasPublished` says.

`RateLimiter_proofs` proves `Inductive`, `TypeCorrect`, `RefinesFixedWindow`, `RefusalsAreJustified`
(`JudgedByOpenWindow`) and `TableStaysSmall` (`AbsentForgotten`), for every limit and window, assuming that the
limit and the window are not 0 and that no handler stalls for more than half a window
(30 s, for a mutex that is never held across an await). `LimitIsKept` (`Limiter!LimitKept`) and
`PeriodsAreApart` (`Limiter!PeriodsApart`) carry the two promises of `FixedWindow` over to the
limiter: at most the limit in a period, counted one by one, and periods of one client at least a window apart. The key is `ForgottenAreOld`: a forgotten
client's last window began more than a window and a stall ago, so no handler that still holds an
older time can find it open. It needs the two windows of absence that the code asks
for; with one, the run finds a handler that gives a client a second window too early.
`RefusalsAreJustified` has the window's end from `CurrentEntry` and its beginning from
`EntriesCoherent`: no window begins ahead of the clock, however old the time that opened it.

`BarkInvoices_proofs` proves `Inductive`, `TypeCorrect`, `SettledIsPaid` (`SettledWasPaid`),
`AcceptedIsSafe` (`AcceptedPaymentSafe`) and `RefinesInvoiceLedger`, for every number of requests
and verify handlers, phases, lifetimes and clock. `SamplesSound` carries the argument: a preimage that a
claim or the poller's list holds is still out, because a receive whose preimage is out moves to such receives only
(`PhasesMove`). `AnnouncesSettled` makes the announcer of an invoice unique, which one wakeup per
settlement needs. One more invariant, `FreshReceives` (no receive before the request), keeps the
creation of an invoice from looking like a preimage. `AcceptedPaymentSafe` has a lemma per kind of
actor: claims (`ClaimLeavesClaimable`), the batch (`PollLeavesClaimable`), everybody else
(`OthersLeaveClaimable`). Three promises of the ledger are carried over by the refinement:
`InvoicesEndOnce` (`Ledger!EndsOnce`: never settled and cancelled, in any order),
`SettlementsAreAnnounced` (`Ledger!SettlementsWake`: no settlement is silent, and who stops announcing has
woken the publisher or stopped with the service) and `AnnouncementsAreTrue` (`Ledger!SettledRevealed`: what is
settled has its preimage out, and only what is settled is announced).

`ArkadeInvoices_proofs` proves `Inductive`, `TypeCorrect`, `SettledIsPaid` (`SettledWasClaimed`),
`RefinesInvoiceLedger` and the same three promises in the same way; `ClaimsSound` says that who has a preimage has it of a
claimed swap. `ClaimPaidInvoices_proofs` proves that the task refines the poller of `ArkadeInvoices`
(`TaskIsThePoller`): each of its steps is one of that module or changes nothing there. The
theorems of `ArkadeInvoices_proofs` then hold of the task (`TaskKeepsInvariant`,
`TaskSettlesTheClaimed`, `TaskKeepsLedger`, `TaskKeepsPromises`), and `TaskTypes` adds that outside the Arkade pass it holds no
Arkade invoice.

`SwapStorage_proofs` proves `Inductive`, `SwapsAreReadable` (`TypesReadable`), `RemovedStaysRemoved`
(`OnlyInsertCreates`) and `CallsAloneAreAtomic` (`AloneIsAtomic`), for every number of callers,
types and ids. `ReadsSound` is the key: what an undisturbed call has read is the row, and what any call has
read is of its own type.

`LnurlPay_proofs` proves `Inductive`, `OffersAreKept` (`OfferHonoured`), `UrlsAreStable` (`VerifyUrlStable`),
`NamesReachBuyers` (`NamesReachTheirTargets`), `SalesAreSigned` (`NamesAreSigned`), `AnswersAreTrue`
(`AnswersTrue`), `AnswersAreFresh` (`AnswersFresh`) and `ZapsArePublishable` (`StoredZapsPublishable`), for every set of texts over the classes of characters, every
set of addresses and configurations, and any number of names, purchases and signatures. It first proves of the
text operators that an address is read from its canonical text (`ParseCanonical`), that no spelling
of a name is an address (`SpellingIsNoAddress`) and that a name in normal form stands for itself
(`NameIsNormal`). A verify URL is stable because its text is either an address, which no sale can
turn into anything else, or a name that was sold before the invoice was made, which is never sold
again (`UrlsKnown`). `RefinesNameRegistry` shows that the validation in front of the sale and the handlers beside
it add nothing to the registry.

Three theorems say what a payer may rely on later. `MeaningsStay`: once a text resolves to a receiver, it
resolves to him for ever under that configuration, and to nobody else under any other. `InvoicesAreFinal`: what an
invoice is for never changes, nor its state once it has left `pending`. `SettlementsStayTold`: who has been
told of a settlement is not told otherwise for the same address; it needs all of
`AnswersTrue`, `AnswersFresh` and `InvoicesAreFinal`, since the answers it compares may be any number
of sales, restarts and refreshes apart.

`ZapsArePublishable` is about a loop: `zap_request_relays` goes through the listed texts and keeps a
public URL it has not kept yet, up to the limit. `with_relay` is one round of it, and the
loop is a recursive function, which `LoopExists` and `LoopSteps` show to be what its equation says. The
library's induction needs an operator for a parameter; `UpTo` is induction over an interval with the *set* of good
numbers in its place, proved from the least number outside (`HasLeast`, `Least`). With it, `RelaysByRank` says
what is kept after each round: the k-th relay is the one that as many distinct public URLs
come before in the list (`Ranks`, `ListedFirst`). Hence `RelaysAreFirst`, the equation with `RelaysOf`, and
`RelaysArePublicOnce`: public, distinct, within the limit. That a stored zap has passed the validation for its own
invoice's amount is the conjunct `ZapsValidated` of `IInv`. `RelayAssumption` gives a text at most
one URL, as a parser does; `RequestsAssumption` gives a request lists of texts for its relays tags.

Assumed are, besides these two, `AddressAssumption` (canonical texts are non-empty, of lower-case letters and
digits, and tell addresses apart), `TextsAssumption` and `ConfigsAssumption`.

Promises of an abstract module are operators of that module (`KeepsOwners`, `KeepsEnds`, ...) and are
proved of each module that refines it from its inductive invariant, which gives the types, and the abstract next-state
relation, which gives the rest; no action of the detailed module is opened again.

Every invariant and every safety property over steps that a passing run checks is stated by a theorem. Only model-checked is
liveness (`PaidResolves`, `ClaimableActivates`, `LapsedReleased`, `PaidSettles`, `LapsedCancelled`,
`EveryPassRecurs`, `FundedClaimed`, `PublishedInWindow`): it rests on fairness and `ENABLED`, for
which the prover has no rules here.

## 5. What is not modelled

* The length limits of the `nostr` parameter and of signatures (routes.rs 611, 824), and the form of a payment
  hash: they refuse a request before anything happens.
* The contents of invoices and of messages beyond what is compared, the parsers of addresses and
  URLs, and signature checks: libraries.
* The statements of the settlement transaction one by one: `mark_settled_and_activate` is one step, on the
  argument of section 2.
* That two adjacent windows of the rate limiter together let through twice the limit within a
  minute: `FixedWindow` is what the code does, and it allows that.
* That a request is never refused while its own window has room: one that waits for the lock
  across the beginning of the next window may be (section 2). config.rs 40 promises a
  maximum, not that the maximum is always granted.
* That a name is released while barkd reports a state the code does not know: the code holds it
  for as long as that lasts, and `LapsedReleased` exempts it.
* That a funded Arkade invoice gets its turn before it expires: the waits for unpaid swaps
  may take longer than it lives, and `FundedClaimed` allows for its expiry.
* The Arkade SDK beyond its answers and the calls it may make of the swap storage, relays beyond
  storing an event.
* `Invoice::cancel_expired_pending`, which only tests call.
* Rows written before the `payment_hash` and `expires_at` columns were required: both are set
  by every insert of this version.
* Information page, health check, configuration, migrations, packaging: no behaviour
  a model checker could say anything about.

## 6. Findings

1. **A paid purchase can be cancelled in time** (`custom_paid_in_time`). The checks of
   routes.rs 866-882 come before two awaits of barkd and the insert at 928 does not repeat
   them. r1 and r2 ask for the same name; r1's purchase is inserted after both passed
   the checks; its fee is paid and the name activated; r2's insert then succeeds,
   because the unique index covers pending purchases only. r2's buyer pays, and
   `mark_settled_and_activate` cancels the purchase. README.md 13-14: "each name
   activates after its fee invoice is paid to the service Bark wallet."
2. **A reservation with an accepted payment can be released** (`custom_accepted_reserved`).
   The receive status is read before the await of the wallet history; a payment accepted
   during that await is not seen by the decision at main.rs 533. README.md 312-314: "If
   Bark has accepted the Lightning payment, the name stays reserved until that payment
   resolves, even after invoice expiry."
3. **An invoice with an accepted payment can be cancelled** (`bark_accepted_pending`), on
   an answer from before the payment: in the batch as old as the listing, in a
   single claim as old as the await. README.md 330-331: "Accepted Bark payments stay
   pending through invoice expiry and can settle later."

4. **A claimed Arkade invoice can be cancelled** (`arkade_claimed_cancelled`). The claim of a
   swap completes the payment, the row follows in a second step, and expiry is
   decided without asking about the swap (main.rs 297, routes.rs 1278). In the run a
   claimer claims in time and its answer is lost or late; after the expiry the poller or
   another verify request cancels the row, and the late `mark_settled` does nothing. README.md 241-242:
   "After the invoice is paid, a zap receipt signed with `LNURL_NSEC` is published to up to
   10 of the listed relays"; this one never is, and verify answers `settled: false`.

`AcceptedPaymentSafe`, which is checked and proved, is what the code does keep: once no
answer from before the acceptance is in flight, the payment is safe. Of the promise in finding 1 it keeps
`CancellationsHaveCauses`: no buyer loses a name before the end of his reservation but to another who paid.

## 7. Open ends

What would come next is `SettleTransaction`: the statements of `mark_settled_and_activate` under READ COMMITTED,
refining the atomic step used here.
