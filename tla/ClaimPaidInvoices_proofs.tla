---------------------- MODULE ClaimPaidInvoices_proofs -----------------------
(***************************************************************************)
(* The background task is the poller of ArkadeInvoices: its three passes   *)
(* neither add a behaviour of the invoices nor touch them twice.           *)
(***************************************************************************)
EXTENDS ClaimPaidInvoices, ArkadeInvoices_proofs, TLAPS

\* A step of the task, of the handlers or of the world is one of the invoices.
LEMMA PollStepsAreSteps == [PollNextState]_pollVars => [Next]_vars
  <1>. SUFFICES ASSUME [PollNextState]_pollVars PROVE [Next]_vars
    OBVIOUS
  <1>1. Poller \in Claimers /\ Verifiers \subseteq Claimers
    BY DEF Claimers
  <1>2. CASE UNCHANGED pollVars
    BY <1>2 DEF pollVars
  <1>3. CASE StartTick \/ CustomPass \/ BarkPass \/ PassEnds \/ PassFails
    BY <1>3 DEF StartTick, CustomPass, BarkPass, PassEnds, PassFails
  <1>4. CASE ArkadePass \/ NextInvoice
    BY <1>4 DEF ArkadePass, NextInvoice, Next
  <1>5. CASE PollRefreshes
    BY <1>1, <1>5 DEF PollRefreshes, RefreshWorks, Refresh, Next
  <1>6. CASE PollFails
    BY <1>1, <1>6 DEF PollFails, Refresh, Next
  <1>7. CASE Others
    BY <1>1, <1>7 DEF Others, Next
  <1>8. CASE Restart
    BY <1>8 DEF Restart, Next
  <1>. QED
    BY <1>2, <1>3, <1>4, <1>5, <1>6, <1>7, <1>8 DEF PollNextState, PollWorks

\* The task with its ticks, passes and failures implements the poller that may
\* begin its Arkade pass at any time.
THEOREM TaskIsThePoller == PollSpec => ImplementsArkadeInvoices
  <1>1. PollInit => Init
    BY DEF PollInit
  <1>. QED
    BY <1>1, PollStepsAreSteps, PTL DEF PollSpec, ImplementsArkadeInvoices, Spec

\* The invariant of claimers and invoices, under the task's schedule.
THEOREM TaskKeepsInvariant == PollSpec => []IInv
  <1>1. Spec => []IInv
    BY Inductive
  <1>. QED
    BY <1>1, TaskIsThePoller, PTL DEF ImplementsArkadeInvoices

\* However ticks end, no invoice is settled before its recipient has been paid.
THEOREM TaskSettlesTheClaimed == PollSpec => []SettledWasClaimed
  BY TaskKeepsInvariant, PTL DEF IInv

\* The task's settlements are wakeups of the publisher, one each.
THEOREM TaskKeepsLedger == PollSpec => ImplementsInvoiceLedger
  <1>1. Spec => ImplementsInvoiceLedger
    BY RefinesInvoiceLedger
  <1>. QED
    BY <1>1, TaskIsThePoller, PTL DEF ImplementsArkadeInvoices

\* Under the task, as under any poller, an Arkade invoice ends once and its
\* settlement wakes the publisher, truly.
THEOREM TaskKeepsPromises ==
  PollSpec => Ledger!EndsOnce /\ Ledger!SettlementsWake /\ []Ledger!SettledRevealed
  <1>1. Spec => Ledger!EndsOnce /\ Ledger!SettlementsWake /\ []Ledger!SettledRevealed
    BY InvoicesEndOnce, SettlementsAreAnnounced, AnnouncementsAreTrue
  <1>. QED
    BY <1>1, TaskIsThePoller, PTL DEF ImplementsArkadeInvoices

------------------------------------------------------------------------------
\* A claimer other than the poller leaves the poller and its snapshot alone.
LEMMA OthersLeavePoller ==
  ASSUME IInv, Others
  PROVE  pc'[Poller] = pc[Poller] /\ todo' = todo /\ tick' = tick
  <1>. USE ActorsAssumption DEF Goto
  <1>1. /\ Poller \notin Requests
        /\ Poller \notin Verifiers
        /\ Poller \in Actors
    BY DEF Claimers, Actors
  <1>2. ASSUME NEW r \in Requests, Create(r)
        PROVE  pc'[Poller] = pc[Poller] /\ todo' = todo
    BY <1>1, <1>2 DEF Create, MakeInvoice, Insert, RequestFails, IInv, TypeOK
  <1>3. ASSUME NEW v \in Verifiers, Refresh(v)
        PROVE  pc'[Poller] = pc[Poller] /\ todo' = todo
    BY <1>1, <1>3
    DEF Refresh, Expire, AwaitVhtlc, Claim, ClaimedBefore, ClaimGivesUp, Settle,
        Announce, DatabaseFails, Return, IInv, TypeOK
  <1>4. ASSUME NEW v \in Verifiers, NEW p \in Requests, Verify(v, p)
        PROVE  pc'[Poller] = pc[Poller] /\ todo' = todo
    BY <1>1, <1>4 DEF Verify, Examine, IInv, TypeOK
  <1>5. ASSUME World PROVE pc'[Poller] = pc[Poller] /\ todo' = todo
    BY <1>5 DEF World, Tick, SwapMoves, PublisherWakes
  <1>. QED
    BY <1>2, <1>3, <1>4, <1>5 DEF Others

\* The poller works on Arkade invoices in the Arkade pass only.
LEMMA PollTypesInvariant ==
  IInv /\ IInv' /\ PollTypeOK /\ [PollNextState]_pollVars => PollTypeOK'
  <1>. SUFFICES ASSUME IInv, IInv', PollTypeOK, [PollNextState]_pollVars
                PROVE  PollTypeOK'
    OBVIOUS
  <1>. USE DEF PollTypeOK, Ticks, From
  <1>1. TypeOK'
    BY DEF IInv
  <1>2. CASE StartTick \/ CustomPass \/ BarkPass \/ PassEnds \/ PassFails
    BY <1>1, <1>2 DEF StartTick, CustomPass, BarkPass, PassEnds, PassFails, vars
  <1>3. CASE ArkadePass \/ NextInvoice \/ PollRefreshes
    BY <1>1, <1>3 DEF ArkadePass, NextInvoice, PollRefreshes
  <1>4. CASE PollFails
    BY <1>1, <1>4, ActorsAssumption
    DEF PollFails, DatabaseFails, Return, Goto, TypeOK, Actors, Claimers
  <1>5. CASE Others
    BY <1>1, <1>5, OthersLeavePoller
  <1>6. CASE Restart
    BY <1>1, <1>6, ActorsAssumption DEF Restart, Crash, Actors, Claimers
  <1>7. CASE UNCHANGED pollVars
    BY <1>1, <1>7 DEF pollVars, vars
  <1>. QED
    BY <1>2, <1>3, <1>4, <1>5, <1>6, <1>7 DEF PollNextState, PollWorks

\* The task's types: outside the Arkade pass the poller has no Arkade invoice.
THEOREM TaskTypes == PollSpec => []PollTypeOK
  <1>1. PollInit => PollTypeOK
    <2>1. Init => TypeOK
      BY InitInvariant DEF IInv
    <2>. QED
      BY <2>1, Distinct DEF PollInit, PollTypeOK, Ticks, Init
  <1>. QED
    BY <1>1, TaskKeepsInvariant, PollTypesInvariant, PTL DEF PollSpec
==============================================================================
