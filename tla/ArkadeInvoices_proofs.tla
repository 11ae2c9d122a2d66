------------------------ MODULE ArkadeInvoices_proofs ------------------------
(***************************************************************************)
(* What holds of Arkade invoices for every number of requests and verify   *)
(* handlers, every lifetime and every clock.                               *)
(***************************************************************************)
EXTENDS ArkadeInvoices, TLAPS

\* Requests and claimers are different actors, and no invoice is no request.
LEMMA Distinct ==
  /\ Requests \cap Claimers = {}
  /\ None \notin Requests
  /\ Poller \in Claimers
  /\ Claimers \subseteq Actors
  /\ Requests \subseteq Actors
  BY ActorsAssumption DEF Claimers, Actors

\* The invariant holds initially: nothing has been asked for.
LEMMA InitInvariant == Init => IInv
  <1>. SUFFICES ASSUME Init PROVE IInv
    OBVIOUS
  <1>1. TypeOK
    <2>1. /\ pc \in [Actors -> {"idle", "insert", "done"} \cup Refreshing]
          /\ \A a \in Actors : pc[a] = "idle"
      BY DEF Init
    <2>2. /\ target \in [Claimers -> Requests \cup {None}]
          /\ \A a \in Claimers : target[a] = None
      BY DEF Init
    <2>3. now \in 0..MaxTime /\ expires_at \in [Requests -> Nat]
      BY NumbersAssumption DEF Init
    <2>4. /\ swap \in [Requests -> SwapStates]
          /\ state \in [Requests -> {"absent", "pending", "settled", "cancelled"}]
          /\ wakeup \in BOOLEAN
          /\ todo \subseteq Requests
      BY DEF Init, SwapStates
    <2>5. /\ \A r \in Requests : pc[r] = "idle"
          /\ \A a \in Claimers : target[a] = None /\ pc[a] = "idle"
      BY <2>1, <2>2, Distinct
    <2>6. "idle" \notin Refreshing
      BY DEF Refreshing
    <2>. QED
      BY <2>1, <2>2, <2>3, <2>4, <2>5, <2>6 DEF TypeOK
  <1>2. ActorsCoherent /\ ClaimsSound /\ SettledWasClaimed
    BY Distinct DEF Init, ActorsCoherent, ClaimsSound, SettledWasClaimed, Actors
  <1>. QED
    BY <1>1, <1>2 DEF IInv

\* A step of a request: its invoice is not known to any claimer yet.
LEMMA CreateKeepsInvariant ==
  ASSUME IInv, NEW r \in Requests, Create(r)
  PROVE  IInv'
  <1>. USE Distinct DEF Goto, world, rows
  <1>1. /\ pc[r] \in {"idle", "insert"}
        /\ state[r] = "absent"
        /\ \A a \in Claimers : target[a] # r
        /\ r \notin todo
    BY DEF Create, MakeInvoice, Insert, RequestFails, IInv, ActorsCoherent
  <1>2. /\ UNCHANGED <<now, wakeup, target, todo>>
        /\ \A a \in Claimers : pc'[a] = pc[a]
    BY DEF Create, MakeInvoice, Insert, RequestFails, IInv, TypeOK
  <1>3. CASE MakeInvoice(r)
    <2>1. TypeOK'
      BY <1>1, <1>2, <1>3, NumbersAssumption
      DEF MakeInvoice, IInv, TypeOK, SwapStates, Refreshing
    <2>2. ActorsCoherent'
      BY <1>1, <1>2, <1>3 DEF MakeInvoice, IInv, TypeOK, ActorsCoherent
    <2>3. ClaimsSound' /\ SettledWasClaimed'
      BY <1>1, <1>2, <1>3
      DEF MakeInvoice, IInv, TypeOK, ClaimsSound, SettledWasClaimed, Refreshing
    <2>. QED
      BY <2>1, <2>2, <2>3 DEF IInv
  <1>4. CASE Insert(r)
    <2>1. TypeOK'
      BY <1>2, <1>4 DEF Insert, IInv, TypeOK
    <2>2. ActorsCoherent'
      BY <1>1, <1>2, <1>4 DEF Insert, IInv, TypeOK, ActorsCoherent
    <2>3. ClaimsSound' /\ SettledWasClaimed'
      BY <1>1, <1>2, <1>4
      DEF Insert, IInv, TypeOK, ClaimsSound, SettledWasClaimed, Refreshing
    <2>. QED
      BY <2>1, <2>2, <2>3 DEF IInv
  <1>5. CASE RequestFails(r)
    <2>1. TypeOK'
      BY <1>2, <1>5 DEF RequestFails, IInv, TypeOK
    <2>2. ActorsCoherent'
      BY <1>1, <1>2, <1>5 DEF RequestFails, IInv, TypeOK, ActorsCoherent
    <2>3. ClaimsSound' /\ SettledWasClaimed'
      BY <1>1, <1>2, <1>5 DEF RequestFails, IInv, TypeOK, ClaimsSound, SettledWasClaimed
    <2>. QED
      BY <2>1, <2>2, <2>3 DEF IInv
  <1>. QED
    BY <1>3, <1>4, <1>5 DEF Create

\* A claimer that is inside a refresh has an inserted invoice.
LEMMA RefreshedInvoice ==
  ASSUME IInv, NEW a \in Claimers, pc[a] \in Refreshing
  PROVE  target[a] \in Requests /\ target[a] # None /\ state[target[a]] # "absent"
  BY Distinct DEF IInv, TypeOK, ActorsCoherent

\* What a claimer that leaves its invoice must have kept.
LEMMA ReturnKeepsInvariant ==
  ASSUME IInv, NEW a \in Claimers, Return(a),
         UNCHANGED <<now, swap, expires_at>>,
         wakeup' \in BOOLEAN, todo' \subseteq todo,
         state' \in [Requests -> {"absent", "pending", "settled", "cancelled"}],
         \A p \in Requests :
           \/ state'[p] = state[p]
           \/ state[p] = "pending" /\ state'[p] = "cancelled"
  PROVE  IInv'
  <1>. USE Distinct DEF Goto
  <1>1. /\ \A b \in Actors : pc'[b] = IF b = a THEN "idle" ELSE pc[b]
        /\ \A b \in Claimers : target'[b] = IF b = a THEN None ELSE target[b]
    BY DEF Return, IInv, TypeOK
  <1>2. TypeOK'
    <2>1. /\ pc' \in [Actors -> {"idle", "insert", "done"} \cup Refreshing]
          /\ target' \in [Claimers -> Requests \cup {None}]
      BY DEF Return, IInv, TypeOK
    <2>2. /\ \A r \in Requests : pc'[r] \in {"idle", "insert", "done"}
          /\ \A b \in Claimers : target'[b] # None <=> pc'[b] \in Refreshing
      BY <1>1 DEF IInv, TypeOK, Refreshing
    <2>. QED
      BY <2>1, <2>2 DEF IInv, TypeOK
  <1>3. ActorsCoherent'
    BY <1>1 DEF IInv, TypeOK, ActorsCoherent
  <1>4. ClaimsSound'
    BY <1>1 DEF IInv, TypeOK, ClaimsSound, Refreshing
  <1>5. SettledWasClaimed'
    BY DEF IInv, SettledWasClaimed
  <1>. QED
    BY <1>2, <1>3, <1>4, <1>5 DEF IInv

\* A refresh settles what is claimed, cancels what is pending, and announces
\* once.
LEMMA RefreshKeepsInvariant ==
  ASSUME IInv, NEW a \in Claimers, Refresh(a)
  PROVE  IInv'
  <1>. USE Distinct DEF Goto, world, rows
  <1>. DEFINE p == target[a]
  <1>1. p \in Requests /\ p # None /\ state[p] # "absent"
    BY RefreshedInvoice
    DEF Refresh, Expire, AwaitVhtlc, Claim, ClaimedBefore, ClaimGivesUp, Settle,
        Announce, DatabaseFails, Refreshing
  <1>2. CASE Expire(a)
    <2>1. \A q \in Requests : \/ state'[q] = state[q]
                              \/ state[q] = "pending" /\ state'[q] = "cancelled"
      BY <1>1, <1>2 DEF Expire, mark_cancelled, IInv, TypeOK
    <2>2. state' \in [Requests -> {"absent", "pending", "settled", "cancelled"}]
      BY <1>2 DEF Expire, mark_cancelled, IInv, TypeOK
    <2>. QED
      BY <1>2, <2>1, <2>2, ReturnKeepsInvariant DEF Expire, IInv, TypeOK
  <1>3. CASE AwaitVhtlc(a)
    <2>1. TypeOK' /\ ActorsCoherent'
      BY <1>1, <1>3 DEF AwaitVhtlc, IInv, TypeOK, ActorsCoherent, Refreshing
    <2>2. ClaimsSound' /\ SettledWasClaimed'
      BY <1>1, <1>3 DEF AwaitVhtlc, IInv, TypeOK, ClaimsSound, SettledWasClaimed
    <2>. QED
      BY <2>1, <2>2 DEF IInv
  <1>4. CASE Claim(a)
    <2>1. TypeOK' /\ ActorsCoherent'
      BY <1>1, <1>4
      DEF Claim, IInv, TypeOK, ActorsCoherent, Refreshing, SwapStates
    <2>2. ClaimsSound' /\ SettledWasClaimed'
      BY <1>1, <1>4 DEF Claim, IInv, TypeOK, ClaimsSound, SettledWasClaimed, Refreshing
    <2>. QED
      BY <2>1, <2>2 DEF IInv
  <1>5. CASE ClaimedBefore(a)
    <2>1. TypeOK' /\ ActorsCoherent'
      BY <1>1, <1>5 DEF ClaimedBefore, IInv, TypeOK, ActorsCoherent, Refreshing
    <2>2. ClaimsSound' /\ SettledWasClaimed'
      BY <1>1, <1>5 DEF ClaimedBefore, IInv, TypeOK, ClaimsSound, SettledWasClaimed
    <2>. QED
      BY <2>1, <2>2 DEF IInv
  <1>6. CASE ClaimGivesUp(a)
    BY <1>6, ReturnKeepsInvariant DEF ClaimGivesUp, IInv, TypeOK
  <1>7. CASE Settle(a)
    <2>1. swap[p] = "claimed" /\ pc[a] = "claimed"
      BY <1>7 DEF Settle, IInv, ClaimsSound
    <2>2. CASE state[p] = "pending"
      <3>1. /\ pc' = [pc EXCEPT ![a] = "announce"]
            /\ state' = [state EXCEPT ![p] = "settled"]
            /\ UNCHANGED <<now, swap, expires_at, wakeup, target, todo>>
        BY <1>7, <2>2 DEF Settle, mark_settled
      <3>2. \A b \in Claimers : ~(pc[b] = "announce" /\ target[b] = p)
        BY <2>2 DEF IInv, ClaimsSound
      <3>3. TypeOK' /\ ActorsCoherent'
        BY <1>1, <2>1, <3>1 DEF IInv, TypeOK, ActorsCoherent, Refreshing
      <3>4. \A b \in Claimers : pc'[b] = IF b = a THEN "announce" ELSE pc[b]
        BY <3>1 DEF IInv, TypeOK
      <3>5. \A q \in Requests : state'[q] = IF q = p THEN "settled" ELSE state[q]
        BY <3>1 DEF IInv, TypeOK
      <3>6. \A b \in Claimers : pc[b] = "announce" => target[b] \in Requests
        BY RefreshedInvoice DEF Refreshing
      <3>7. ClaimsSound'
        <4>1. \A b \in Claimers :
                pc'[b] \in {"claimed", "announce"} => swap'[target'[b]] = "claimed"
          BY <2>1, <3>1, <3>4 DEF IInv, ClaimsSound
        <4>2. \A b \in Claimers : pc'[b] = "announce" => state'[target'[b]] = "settled"
          BY <1>1, <3>1, <3>4, <3>5, <3>6 DEF IInv, ClaimsSound
        <4>3. \A b, c \in Claimers :
                pc'[b] = "announce" /\ pc'[c] = "announce" /\ target'[b] = target'[c]
                  => b = c
          BY <3>1, <3>2, <3>4 DEF IInv, ClaimsSound
        <4>. QED
          BY <4>1, <4>2, <4>3 DEF ClaimsSound
      <3>8. SettledWasClaimed'
        BY <2>1, <3>1, <3>5 DEF IInv, SettledWasClaimed
      <3>. QED
        BY <3>3, <3>7, <3>8 DEF IInv
    <2>3. CASE state[p] # "pending"
      <3>1. Return(a) /\ state' = state /\ UNCHANGED <<now, swap, expires_at, wakeup, todo>>
        BY <1>1, <1>7, <2>3 DEF Settle, mark_settled, IInv, TypeOK
      <3>. QED
        BY <3>1, ReturnKeepsInvariant DEF IInv, TypeOK
    <2>. QED
      BY <2>2, <2>3
  <1>8. CASE Announce(a)
    BY <1>8, ReturnKeepsInvariant DEF Announce, IInv, TypeOK
  <1>9. CASE DatabaseFails(a)
    BY <1>9, ReturnKeepsInvariant DEF DatabaseFails, IInv, TypeOK
  <1>. QED
    BY <1>2, <1>3, <1>4, <1>5, <1>6, <1>7, <1>8, <1>9 DEF Refresh

\* A claimer turns to an inserted invoice.
LEMMA ExamineKeepsInvariant ==
  ASSUME IInv, NEW a \in Claimers, NEW p \in Requests,
         pc[a] = "idle", state[p] # "absent", Examine(a, p),
         UNCHANGED <<now, swap, expires_at, state, wakeup>>, todo' \subseteq todo
  PROVE  IInv'
  <1>. USE Distinct DEF Goto, Examine
  <1>1. TypeOK' /\ ActorsCoherent'
    BY DEF IInv, TypeOK, ActorsCoherent, Refreshing
  <1>2. ClaimsSound' /\ SettledWasClaimed'
    BY DEF IInv, TypeOK, ClaimsSound, SettledWasClaimed
  <1>. QED
    BY <1>1, <1>2 DEF IInv

\* The other steps.
LEMMA OtherKeepsInvariant ==
  ASSUME IInv,
         \/ \E v \in Verifiers, p \in Requests : Verify(v, p)
         \/ PollPending
         \/ \E p \in Requests : PollNext(p)
         \/ Crash
         \/ World
  PROVE  IInv'
  <1>. USE Distinct DEF world, rows
  <1>1. ASSUME NEW v \in Verifiers, NEW p \in Requests, Verify(v, p)
        PROVE  IInv'
    BY <1>1, ExamineKeepsInvariant DEF Verify, Claimers
  <1>2. CASE PollPending
    BY <1>2 DEF PollPending, IInv, TypeOK, ActorsCoherent, ClaimsSound, SettledWasClaimed
  <1>3. ASSUME NEW p \in Requests, PollNext(p)
        PROVE  IInv'
    <2>1. state[p] # "absent" /\ todo' \subseteq todo
      BY <1>3 DEF PollNext, IInv, ActorsCoherent
    <2>. QED
      BY <1>3, <2>1, ExamineKeepsInvariant DEF PollNext
  <1>4. CASE Crash
    <2>1. TypeOK' /\ ActorsCoherent'
      BY <1>4 DEF Crash, IInv, TypeOK, ActorsCoherent, Refreshing
    <2>2. ClaimsSound' /\ SettledWasClaimed'
      BY <1>4 DEF Crash, IInv, TypeOK, ClaimsSound, SettledWasClaimed
    <2>. QED
      BY <2>1, <2>2 DEF IInv
  <1>5. CASE Tick
    BY <1>5, NumbersAssumption
    DEF Tick, IInv, TypeOK, ActorsCoherent, ClaimsSound, SettledWasClaimed
  <1>6. ASSUME NEW p \in Requests, SwapMoves(p)
        PROVE  IInv'
    <2>1. TypeOK' /\ ActorsCoherent'
      BY <1>6 DEF SwapMoves, IInv, TypeOK, ActorsCoherent, SwapStates
    <2>2. swap[p] # "claimed" /\ \A q \in Requests : q # p => swap'[q] = swap[q]
      BY <1>6 DEF SwapMoves, IInv, TypeOK
    <2>3. \A a \in Claimers : pc[a] \in {"claimed", "announce"} => target[a] \in Requests
      BY RefreshedInvoice DEF Refreshing
    <2>4. ClaimsSound' /\ SettledWasClaimed'
      BY <1>6, <2>2, <2>3 DEF SwapMoves, IInv, ClaimsSound, SettledWasClaimed
    <2>. QED
      BY <2>1, <2>4 DEF IInv
  <1>7. CASE PublisherWakes
    BY <1>7
    DEF PublisherWakes, IInv, TypeOK, ActorsCoherent, ClaimsSound, SettledWasClaimed
  <1>. QED
    BY <1>1, <1>2, <1>3, <1>4, <1>5, <1>6, <1>7 DEF World

\* The invariant is inductive.
LEMMA NextInvariant == IInv /\ [Next]_vars => IInv'
  <1>. SUFFICES ASSUME IInv, [Next]_vars PROVE IInv'
    OBVIOUS
  <1>1. CASE UNCHANGED vars
    BY <1>1 DEF vars, world, rows, IInv, TypeOK, ActorsCoherent, ClaimsSound,
                SettledWasClaimed, Return
  <1>. QED
    BY <1>1, CreateKeepsInvariant, RefreshKeepsInvariant, OtherKeepsInvariant DEF Next

\* The invariant of the claimers and their invoices.
THEOREM Inductive == Spec => []IInv
  BY InitInvariant, NextInvariant, PTL DEF Spec

\* The types of all variables.
THEOREM TypeCorrect == Spec => []TypeOK
  BY Inductive, PTL DEF IInv

\* No invoice is settled before its recipient has been paid.
THEOREM SettledIsPaid == Spec => []SettledWasClaimed
  BY Inductive, PTL DEF IInv

------------------------------------------------------------------------------
(* The refinement.                                                          *)

\* The invoices that are settled and not announced.
Announcing == {p \in Requests : \E a \in Claimers : pc[a] = "announce" /\ target[a] = p}

Claimed == {p \in Requests : swap[p] = "claimed"}

\* A step that announces nothing new.
LEMMA SameAnnounced ==
  ASSUME IInv,
         \A a \in Claimers :
           (pc'[a] = "announce" /\ target'[a] \in Requests)
             <=> (pc[a] = "announce" /\ target[a] \in Requests),
         \A a \in Claimers : pc[a] = "announce" => target'[a] = target[a]
  PROVE  Announcing' = Announcing
  BY DEF Announcing

\* A refresh settles a claimed invoice, cancels a pending one, announces, or
\* does nothing the ledger sees.
LEMMA RefreshRefines ==
  ASSUME IInv, NEW a \in Claimers, Refresh(a)
  PROVE  [Ledger!Next]_(Ledger!vars)
  <1>. USE Distinct DEF Goto, world, rows
  <1>0. IInv'
    BY RefreshKeepsInvariant
  <1>1. PICK p \in Requests : p = target[a] /\ p # None /\ state[p] # "absent"
    BY RefreshedInvoice
    DEF Refresh, Expire, AwaitVhtlc, Claim, ClaimedBefore, ClaimGivesUp, Settle,
        Announce, DatabaseFails, Refreshing
  <1>2. CASE Expire(a)
    <2>1. Announcing' = Announcing
      BY <1>2, SameAnnounced DEF Expire, Return, IInv, TypeOK
    <2>2. Claimed' = Claimed /\ wakeup' = wakeup
      BY <1>2 DEF Expire, Claimed
    <2>3. CASE state[p] = "pending"
      <3>1. Ledger!Cancel(p)
        BY <1>1, <1>2, <2>1, <2>2, <2>3
        DEF Expire, mark_cancelled, Ledger!Cancel, Announcing, Claimed
      <3>. QED
        BY <1>1, <3>1 DEF Ledger!Next
    <2>4. CASE state[p] # "pending"
      <3>1. state' = state
        BY <1>1, <1>2, <2>4 DEF Expire, mark_cancelled, IInv, TypeOK
      <3>. QED
        BY <2>1, <2>2, <3>1 DEF Ledger!vars, Announcing, Claimed
    <2>. QED
      BY <2>3, <2>4
  <1>3. CASE AwaitVhtlc(a)
    <2>1. Announcing' = Announcing
      BY <1>3, SameAnnounced DEF AwaitVhtlc, IInv, TypeOK
    <2>. QED
      BY <1>3, <2>1 DEF AwaitVhtlc, Ledger!vars, Announcing
  <1>4. CASE Claim(a)
    <2>1. Announcing' = Announcing
      BY <1>4, SameAnnounced DEF Claim, IInv, TypeOK
    <2>2. Claimed' = Claimed \cup {p}
      BY <1>1, <1>4 DEF Claim, Claimed, IInv, TypeOK
    <2>3. Ledger!Reveal(p)
      BY <1>4, <2>1, <2>2 DEF Claim, Ledger!Reveal, Announcing, Claimed
    <2>. QED
      BY <1>1, <2>3 DEF Ledger!Next
  <1>5. CASE ClaimedBefore(a)
    <2>1. Announcing' = Announcing
      BY <1>5, SameAnnounced DEF ClaimedBefore, IInv, TypeOK
    <2>. QED
      BY <1>5, <2>1 DEF ClaimedBefore, Ledger!vars, Announcing
  <1>6. CASE ClaimGivesUp(a)
    <2>1. Announcing' = Announcing
      BY <1>6, SameAnnounced DEF ClaimGivesUp, Return, IInv, TypeOK
    <2>. QED
      BY <1>6, <2>1 DEF ClaimGivesUp, Ledger!vars, Announcing
  <1>7. CASE Settle(a)
    <2>1. p \in Claimed /\ Claimed' = Claimed /\ wakeup' = wakeup
      BY <1>1, <1>7 DEF Settle, IInv, ClaimsSound, Claimed
    <2>2. CASE state[p] = "pending"
      <3>1. Announcing' = Announcing \cup {p}
        <4>1. /\ \A b \in Claimers : pc'[b] = IF b = a THEN "announce" ELSE pc[b]
              /\ target' = target
              /\ pc[a] # "announce"
          BY <1>1, <1>7, <2>2 DEF Settle, IInv, TypeOK
        <4>. QED
          BY <1>1, <4>1 DEF Announcing
      <3>2. state' = [state EXCEPT ![p] = "settled"]
        BY <1>1, <1>7, <2>2 DEF Settle, mark_settled
      <3>3. Ledger!Settle(p)
        BY <2>1, <2>2, <3>1, <3>2 DEF Ledger!Settle, Announcing, Claimed
      <3>. QED
        BY <1>1, <3>3 DEF Ledger!Next
    <2>3. CASE state[p] # "pending"
      <3>1. Announcing' = Announcing
        BY <1>1, <1>7, <2>3, SameAnnounced DEF Settle, Return, IInv, TypeOK
      <3>2. state' = state
        BY <1>1, <1>7, <2>3 DEF Settle, mark_settled, IInv, TypeOK
      <3>. QED
        BY <2>1, <3>1, <3>2 DEF Ledger!vars, Announcing, Claimed
    <2>. QED
      BY <2>2, <2>3
  <1>8. CASE Announce(a)
    <2>1. p \in Announcing
      BY <1>1, <1>8 DEF Announce, Announcing
    <2>2. Announcing' = Announcing \ {p}
      <3>1. \A b \in Claimers : pc[b] = "announce" /\ target[b] = p => b = a
        BY <1>1, <1>8 DEF Announce, IInv, ClaimsSound
      <3>2. /\ \A b \in Claimers : b # a => pc'[b] = pc[b] /\ target'[b] = target[b]
            /\ pc'[a] = "idle"
        BY <1>8 DEF Announce, Return, IInv, TypeOK
      <3>. QED
        BY <1>1, <1>8, <3>1, <3>2 DEF Announce, Announcing
    <2>3. Ledger!Announce(p)
      BY <1>8, <2>1, <2>2 DEF Announce, Ledger!Announce, Announcing
    <2>. QED
      BY <1>1, <2>3 DEF Ledger!Next
  <1>9. CASE DatabaseFails(a)
    <2>1. Announcing' = Announcing
      BY <1>9, SameAnnounced DEF DatabaseFails, Return, IInv, TypeOK
    <2>. QED
      BY <1>9, <2>1 DEF DatabaseFails, Ledger!vars, Announcing
  <1>. QED
    BY <1>2, <1>3, <1>4, <1>5, <1>6, <1>7, <1>8, <1>9 DEF Refresh

\* The swap of an invoice is made by the request, and not before.
FreshSwaps == \A r \in Requests : pc[r] = "idle" => swap[r] = "none"

LEMMA FreshSwapsInvariant ==
  IInv /\ FreshSwaps /\ [Next]_vars => FreshSwaps'
  <1>. SUFFICES ASSUME IInv, FreshSwaps, [Next]_vars PROVE FreshSwaps'
    OBVIOUS
  <1>. USE Distinct DEF Goto, world, rows
  <1>1. \A r \in Requests : state[r] # "absent" => pc[r] = "done"
    BY DEF IInv, ActorsCoherent
  <1>2. ASSUME NEW r \in Requests, Create(r) PROVE FreshSwaps'
    BY <1>2 DEF Create, MakeInvoice, Insert, RequestFails, FreshSwaps, IInv, TypeOK
  <1>3. ASSUME NEW a \in Claimers, Refresh(a) PROVE FreshSwaps'
    <2>1. \A r \in Requests : pc'[r] = pc[r]
      BY <1>3
      DEF Refresh, Expire, AwaitVhtlc, Claim, ClaimedBefore, ClaimGivesUp, Settle,
          Announce, DatabaseFails, Return, IInv, TypeOK
    <2>2. CASE Claim(a)
      <3>1. target[a] \in Requests /\ state[target[a]] # "absent"
        BY <2>2, RefreshedInvoice DEF Claim, Refreshing
      <3>2. \A r \in Requests : r # target[a] => swap'[r] = swap[r]
        BY <2>2 DEF Claim, IInv, TypeOK
      <3>. QED
        BY <1>1, <2>1, <3>1, <3>2 DEF FreshSwaps
    <2>3. CASE ~Claim(a)
      <3>1. swap' = swap
        BY <1>3, <2>3
        DEF Refresh, Expire, AwaitVhtlc, ClaimedBefore, ClaimGivesUp, Settle,
            Announce, DatabaseFails
      <3>. QED
        BY <2>1, <3>1 DEF FreshSwaps
    <2>. QED
      BY <2>2, <2>3
  <1>4. ASSUME NEW v \in Verifiers, NEW p \in Requests, Verify(v, p)
        PROVE  FreshSwaps'
    BY <1>4 DEF Verify, Examine, FreshSwaps, IInv, TypeOK, Claimers
  <1>5. ASSUME NEW p \in Requests, PollNext(p) PROVE FreshSwaps'
    BY <1>5 DEF PollNext, Examine, FreshSwaps, IInv, TypeOK
  <1>6. CASE Crash
    <2>1. \A r \in Requests : pc'[r] = "idle" => pc[r] = "idle"
      BY <1>6 DEF Crash, IInv, TypeOK
    <2>. QED
      BY <1>6, <2>1 DEF Crash, FreshSwaps
  <1>7. ASSUME NEW p \in Requests, SwapMoves(p) PROVE FreshSwaps'
    BY <1>1, <1>7 DEF SwapMoves, FreshSwaps, IInv, TypeOK
  <1>8. CASE UNCHANGED vars \/ PollPending \/ Tick \/ PublisherWakes
    BY <1>8 DEF vars, PollPending, Tick, PublisherWakes, FreshSwaps
  <1>. QED
    BY <1>2, <1>3, <1>4, <1>5, <1>6, <1>7, <1>8 DEF Next, World

\* A request opens its invoice.
LEMMA CreateRefines ==
  ASSUME IInv, FreshSwaps, NEW r \in Requests, Create(r)
  PROVE  [Ledger!Next]_(Ledger!vars)
  <1>. USE Distinct DEF Goto, world, rows
  <1>1. Announcing' = Announcing /\ wakeup' = wakeup
    BY SameAnnounced DEF Create, MakeInvoice, Insert, RequestFails, IInv, TypeOK
  <1>2. Claimed' = Claimed
    BY DEF Create, MakeInvoice, Insert, RequestFails, FreshSwaps, Claimed, IInv, TypeOK
  <1>3. CASE Insert(r)
    <2>1. state[r] = "absent" /\ state' = [state EXCEPT ![r] = "pending"]
      BY <1>3 DEF Insert, IInv, ActorsCoherent, TypeOK
    <2>2. Ledger!Open(r)
      BY <1>1, <1>2, <2>1 DEF Ledger!Open, Announcing, Claimed
    <2>. QED
      BY <2>2 DEF Ledger!Next
  <1>4. CASE MakeInvoice(r) \/ RequestFails(r)
    BY <1>1, <1>2, <1>4
    DEF MakeInvoice, RequestFails, Ledger!vars, Announcing, Claimed
  <1>. QED
    BY <1>3, <1>4 DEF Create

\* The other steps: a restart, a wakeup taken, and what the ledger does not see.
LEMMA OtherRefines ==
  ASSUME IInv,
         \/ \E v \in Verifiers, p \in Requests : Verify(v, p)
         \/ PollPending
         \/ \E p \in Requests : PollNext(p)
         \/ Crash
         \/ World
         \/ UNCHANGED vars
  PROVE  [Ledger!Next]_(Ledger!vars)
  <1>. USE Distinct DEF Goto, world, rows
  <1>1. ASSUME NEW v \in Verifiers, NEW p \in Requests, Verify(v, p)
        PROVE  UNCHANGED Ledger!vars
    <2>1. Announcing' = Announcing
      BY <1>1, SameAnnounced DEF Verify, Examine, IInv, TypeOK, Claimers
    <2>. QED
      BY <1>1, <2>1 DEF Verify, Ledger!vars, Announcing
  <1>2. ASSUME NEW p \in Requests, PollNext(p) PROVE UNCHANGED Ledger!vars
    <2>1. Announcing' = Announcing
      BY <1>2, SameAnnounced DEF PollNext, Examine, IInv, TypeOK
    <2>. QED
      BY <1>2, <2>1 DEF PollNext, Ledger!vars, Announcing
  <1>3. CASE PollPending \/ Tick \/ UNCHANGED vars
    BY <1>3 DEF PollPending, Tick, vars, Ledger!vars
  <1>4. CASE Crash
    <2>1. \A a \in Claimers : pc'[a] # "announce"
      BY <1>4 DEF Crash
    <2>2. Announcing' = {}
      BY <2>1 DEF Announcing
    <2>3. Ledger!Restart
      BY <1>4, <2>2 DEF Crash, Ledger!Restart, Announcing
    <2>. QED
      BY <2>3 DEF Ledger!Next
  <1>5. ASSUME NEW p \in Requests, SwapMoves(p) PROVE UNCHANGED Ledger!vars
    <2>1. Claimed' = Claimed
      BY <1>5 DEF SwapMoves, Claimed, IInv, TypeOK
    <2>. QED
      BY <1>5, <2>1 DEF SwapMoves, Ledger!vars, Claimed
  <1>6. CASE PublisherWakes
    <2>1. Ledger!Wake
      BY <1>6 DEF PublisherWakes, Ledger!Wake
    <2>. QED
      BY <2>1 DEF Ledger!Next
  <1>. QED
    BY <1>1, <1>2, <1>3, <1>4, <1>5, <1>6 DEF World

\* FreshSwaps holds always.
LEMMA SwapsAreFresh == Spec => []FreshSwaps
  <1>1. Init => FreshSwaps
    BY Distinct DEF Init, FreshSwaps
  <1>. QED
    BY <1>1, Inductive, FreshSwapsInvariant, PTL DEF Spec

\* Every step is one of the ledger, or nothing to it.
LEMMA StepRefines == IInv /\ FreshSwaps /\ [Next]_vars => [Ledger!Next]_(Ledger!vars)
  BY CreateRefines, RefreshRefines, OtherRefines DEF Next

\* Whatever poller, verify handlers and requests do, the ledger of invoices
\* sees one settlement or cancellation, a preimage before it, and a wakeup
\* after it.
THEOREM RefinesInvoiceLedger == Spec => ImplementsInvoiceLedger
  <1>1. Init => Ledger!Init
    BY Distinct DEF Init, Ledger!Init
  <1>. QED
    BY <1>1, StepRefines, Inductive, SwapsAreFresh, PTL
    DEF Spec, ImplementsInvoiceLedger, Ledger!Spec

\* A settled Arkade invoice is never cancelled and a cancelled one never settled,
\* whoever of the poller and the verify handlers claims its swap.
THEOREM InvoicesEndOnce == Spec => Ledger!EndsOnce
  <1>1. IInv /\ [Ledger!Next]_(Ledger!vars) => [Ledger!KeepsEnds]_(Ledger!vars)
    BY DEF IInv, TypeOK, Ledger!Next, Ledger!vars, Ledger!Open, Ledger!Reveal, Ledger!Settle,
      Ledger!Cancel, Ledger!Announce, Ledger!Wake, Ledger!Restart, Ledger!KeepsEnds
  <1>. QED
    BY <1>1, StepRefines, Inductive, SwapsAreFresh, PTL DEF Spec, Ledger!EndsOnce

\* Whoever settles an Arkade invoice wakes the publisher afterwards, unless the
\* service stops in between.
THEOREM SettlementsAreAnnounced == Spec => Ledger!SettlementsWake
  <1>1. IInv /\ [Ledger!Next]_(Ledger!vars) => [Ledger!KeepsAnnouncing]_(Ledger!vars)
    BY DEF IInv, TypeOK, Ledger!Next, Ledger!vars, Ledger!Open, Ledger!Reveal, Ledger!Settle,
      Ledger!Cancel, Ledger!Announce, Ledger!Wake, Ledger!Restart, Ledger!KeepsAnnouncing
  <1>. QED
    BY <1>1, StepRefines, Inductive, SwapsAreFresh, PTL DEF Spec, Ledger!SettlementsWake

\* Nobody announces a settlement that is not in the table, or settles an invoice
\* whose preimage is not out: what the publisher sends receipts of is paid.
THEOREM AnnouncementsAreTrue == Spec => []Ledger!SettledRevealed
  <1>1. IInv /\ Ledger!Init => Ledger!SettledRevealed
    BY DEF IInv, TypeOK, Ledger!Init, Ledger!SettledRevealed
  <1>2. IInv /\ Ledger!SettledRevealed /\ [Ledger!Next]_(Ledger!vars)
          => Ledger!SettledRevealed'
    BY DEF IInv, TypeOK, Ledger!SettledRevealed, Ledger!Next, Ledger!vars, Ledger!Open,
      Ledger!Reveal, Ledger!Settle, Ledger!Cancel, Ledger!Announce, Ledger!Wake, Ledger!Restart
  <1>. QED
    BY <1>1, <1>2, RefinesInvoiceLedger, Inductive, PTL
    DEF ImplementsInvoiceLedger, Ledger!Spec
==============================================================================
