-------------------------- MODULE ZapReceipts_proofs --------------------------
(***************************************************************************)
(* What holds of receipts for every number of zaps, every window and every *)
(* clock, whatever relays, database and crashes do.                        *)
(***************************************************************************)
EXTENDS ZapReceipts, TLAPS

\* A receipt of a zap is an event.
LEMMA ReceiptType ==
  ASSUME TypeOK, NEW z \in Zaps
  PROVE  /\ build_zap_receipt(z) \in Events
         /\ build_zap_receipt(z) # None
         /\ build_zap_receipt(z).zap = z
         /\ build_zap_receipt(z).created_at = settled_at[z]
  BY NoneAssumption DEF TypeOK, build_zap_receipt, Events

\* The invariant holds initially: there are no invoices and no receipts.
LEMMA InitInvariant == Init => IInv
  <1>. SUFFICES ASSUME Init PROVE IInv
    OBVIOUS
  <1>1. TypeOK
    <2>1. 0 \in 0..MaxTime
      BY NumbersAssumption
    <2>2. current # None <=> pc = "record"
      BY DEF Init
    <2>3. /\ ledger \in [Zaps -> {"absent", "pending", "settled", "cancelled"}]
          /\ settled_at \in [Zaps -> 0..MaxTime]
          /\ event_id \in [Zaps -> Events \cup {None}]
      BY <2>1 DEF Init, Ledger!Init
    <2>. QED
      BY <2>1, <2>2, <2>3 DEF Init, TypeOK, Ledger!Init
  <1>2. Settled = {}
    BY DEF Init, Settled, Ledger!Init
  <1>3. /\ ReceiptsOfSettled /\ ReceiptsDated /\ RecordedWasPublished
        /\ BatchSettled /\ SettlementsKnown
    BY <1>2
    DEF Init, ReceiptsOfSettled, ReceiptsDated, RecordedWasPublished, BatchSettled,
        SettlementsKnown
  <1>. QED
    BY <1>1, <1>3 DEF IInv

\* A settlement is new: no receipt, no pass and no record is about it yet.
LEMMA SettleKeepsInvariant ==
  ASSUME IInv, NEW z \in Zaps, Settle(z)
  PROVE  IInv'
  <1>1. /\ ledger[z] = "pending"
        /\ ledger' = [ledger EXCEPT ![z] = "settled"]
        /\ unannounced' = unannounced \cup {z}
        /\ settled_at' = [settled_at EXCEPT ![z] = now]
        /\ UNCHANGED <<revealed, wakeup, now, event_id, relays, pc, batch, current, tried>>
    BY DEF Settle, Ledger!Settle, publisher
  <1>2. Settled' = Settled \cup {z} /\ z \notin Settled
    BY <1>1 DEF IInv, TypeOK, Settled
  <1>3. TypeOK'
    BY <1>1 DEF IInv, TypeOK
  <1>4. \A e \in relays : e.zap # z
    BY <1>2 DEF IInv, ReceiptsOfSettled
  <1>5. ReceiptsOfSettled' /\ ReceiptsDated'
    BY <1>1, <1>2, <1>4 DEF IInv, TypeOK, Events, ReceiptsOfSettled, ReceiptsDated
  <1>6. RecordedWasPublished'
    BY <1>1 DEF IInv, RecordedWasPublished
  <1>7. BatchSettled' /\ SettlementsKnown'
    BY <1>1, <1>2 DEF IInv, BatchSettled, SettlementsKnown
  <1>. QED
    BY <1>3, <1>5, <1>6, <1>7 DEF IInv

\* The rest of the life of an invoice settles nothing, and an announcement is
\* a wakeup.
LEMMA OthersKeepInvariant ==
  ASSUME IInv, Others
  PROVE  IInv'
  <1>1. UNCHANGED <<settled_at, now, event_id, relays, pc, batch, current, tried>>
    BY DEF Others, publisher
  <1>2. PICK z \in Zaps : \/ Ledger!Open(z)
                          \/ Ledger!Reveal(z)
                          \/ Ledger!Cancel(z)
                          \/ Ledger!Announce(z)
    BY DEF Others
  <1>3. Settled' = Settled
    BY <1>2 DEF IInv, TypeOK, Settled, Ledger!Open, Ledger!Reveal, Ledger!Cancel,
                Ledger!Announce
  <1>4. /\ unannounced' \subseteq unannounced
        /\ wakeup' = TRUE \/ (wakeup' = wakeup /\ unannounced' = unannounced)
    <2>1. CASE Ledger!Announce(z)
      BY <2>1 DEF Ledger!Announce
    <2>2. CASE Ledger!Open(z) \/ Ledger!Reveal(z) \/ Ledger!Cancel(z)
      BY <2>2 DEF Ledger!Open, Ledger!Reveal, Ledger!Cancel
    <2>. QED
      BY <1>2, <2>1, <2>2
  <1>5. /\ ledger' \in [Zaps -> {"absent", "pending", "settled", "cancelled"}]
        /\ revealed' \subseteq Zaps
        /\ wakeup' \in BOOLEAN
    BY <1>2 DEF IInv, TypeOK, Ledger!Open, Ledger!Reveal, Ledger!Cancel, Ledger!Announce
  <1>6. TypeOK'
    BY <1>1, <1>4, <1>5 DEF IInv, TypeOK
  <1>7. ReceiptsOfSettled' /\ ReceiptsDated' /\ RecordedWasPublished' /\ BatchSettled'
    BY <1>1, <1>3
    DEF IInv, ReceiptsOfSettled, ReceiptsDated, RecordedWasPublished, BatchSettled
  <1>8. SettlementsKnown'
    BY <1>1, <1>3, <1>4 DEF IInv, SettlementsKnown
  <1>. QED
    BY <1>6, <1>7, <1>8 DEF IInv

\* An event that reaches a relay is the receipt of a settled zap.
LEMMA SentReceipt ==
  ASSUME IInv, NEW z \in batch
  PROVE  /\ z \in Settled
         /\ z \in Zaps
         /\ build_zap_receipt(z) \in Events
         /\ build_zap_receipt(z) # None
         /\ build_zap_receipt(z).zap \in Settled
         /\ build_zap_receipt(z).created_at = settled_at[build_zap_receipt(z).zap]
  <1>1. z \in Settled /\ z \in Zaps
    BY DEF IInv, TypeOK, BatchSettled
  <1>. QED
    BY <1>1, ReceiptType DEF IInv

\* The publisher's own steps.
LEMMA PublisherKeepsInvariant ==
  ASSUME IInv, run \/ QueryFails \/ RecordFails
  PROVE  IInv'
  <1>. USE DEF settlement
  <1>1. CASE Query
    <2>1. batch' \subseteq Settled
      BY <1>1 DEF Query, get_unpublished_settled
    <2>2. Settled' = Settled /\ Settled \subseteq Zaps
      BY <1>1 DEF Query, Settled
    <2>3. TypeOK'
      BY <1>1, <2>1, <2>2 DEF Query, IInv, TypeOK
    <2>4. ReceiptsOfSettled' /\ ReceiptsDated' /\ RecordedWasPublished'
      BY <1>1, <2>2
      DEF Query, IInv, ReceiptsOfSettled, ReceiptsDated, RecordedWasPublished
    <2>5. BatchSettled' /\ SettlementsKnown'
      BY <1>1, <2>1, <2>2 DEF Query, BatchSettled, SettlementsKnown
    <2>. QED
      BY <2>3, <2>4, <2>5 DEF IInv
  <1>2. CASE QueryFails
    <2>1. Settled' = Settled /\ Settled \subseteq Zaps
      BY <1>2 DEF QueryFails, Settled
    <2>2. TypeOK'
      BY <1>2, <2>1 DEF QueryFails, IInv, TypeOK
    <2>3. ReceiptsOfSettled' /\ ReceiptsDated' /\ RecordedWasPublished'
      BY <1>2, <2>1
      DEF QueryFails, IInv, ReceiptsOfSettled, ReceiptsDated, RecordedWasPublished
    <2>4. BatchSettled' /\ SettlementsKnown'
      BY <1>2, <2>1 DEF QueryFails, IInv, BatchSettled, SettlementsKnown
    <2>. QED
      BY <2>2, <2>3, <2>4 DEF IInv
  <1>3. ASSUME NEW z \in Zaps, Publish(z)
        PROVE  IInv'
    <2>. DEFINE receipt == build_zap_receipt(z)
    <2>1. /\ z \in batch
          /\ pc = "publish"
          /\ pc' = "record"
          /\ relays' = relays \cup {receipt}
          /\ current' = receipt
          /\ batch' = batch \ {z}
          /\ UNCHANGED <<ledger, revealed, unannounced, wakeup, settled_at, now, event_id, tried>>
      BY <1>3 DEF Publish
    <2>2. /\ receipt \in Events
          /\ receipt # None
          /\ receipt.zap \in Settled
          /\ receipt.created_at = settled_at[receipt.zap]
      BY <2>1, SentReceipt
    <2>. HIDE DEF receipt
    <2>3. Settled' = Settled
      BY <2>1 DEF Settled
    <2>4. TypeOK'
      BY <2>1, <2>2 DEF IInv, TypeOK
    <2>5. ReceiptsOfSettled' /\ ReceiptsDated' /\ RecordedWasPublished'
      BY <2>1, <2>2, <2>3
      DEF IInv, ReceiptsOfSettled, ReceiptsDated, RecordedWasPublished
    <2>6. BatchSettled' /\ SettlementsKnown'
      BY <2>1, <2>3 DEF IInv, BatchSettled, SettlementsKnown
    <2>. QED
      BY <2>4, <2>5, <2>6 DEF IInv
  <1>4. ASSUME NEW z \in Zaps, PublishFails(z)
        PROVE  IInv'
    <2>. DEFINE receipt == build_zap_receipt(z)
    <2>1. /\ z \in batch
          /\ relays' \in {relays, relays \cup {receipt}}
          /\ batch' = batch \ {z}
          /\ UNCHANGED <<ledger, revealed, unannounced, wakeup, settled_at, now, event_id,
                         pc, current, tried>>
      BY <1>4 DEF PublishFails
    <2>2. /\ receipt \in Events
          /\ receipt.zap \in Settled
          /\ receipt.created_at = settled_at[receipt.zap]
      BY <2>1, SentReceipt
    <2>. HIDE DEF receipt
    <2>3. Settled' = Settled
      BY <2>1 DEF Settled
    <2>4. TypeOK'
      BY <2>1, <2>2 DEF IInv, TypeOK
    <2>5. ReceiptsOfSettled' /\ ReceiptsDated' /\ RecordedWasPublished'
      BY <2>1, <2>2, <2>3
      DEF IInv, ReceiptsOfSettled, ReceiptsDated, RecordedWasPublished
    <2>6. BatchSettled' /\ SettlementsKnown'
      BY <2>1, <2>3 DEF IInv, BatchSettled, SettlementsKnown
    <2>. QED
      BY <2>4, <2>5, <2>6 DEF IInv
  <1>5. CASE set_event_id
    <2>1. current \in Events /\ current \in relays /\ current.zap \in Zaps
      BY <1>5 DEF set_event_id, IInv, TypeOK, RecordedWasPublished, Events
    <2>2. event_id' = [event_id EXCEPT ![current.zap] = current]
      BY <1>5 DEF set_event_id
    <2>3. Settled' = Settled
      BY <1>5 DEF set_event_id, Settled
    <2>4. TypeOK'
      BY <1>5, <2>1 DEF set_event_id, IInv, TypeOK
    <2>5. RecordedWasPublished'
      BY <1>5, <2>1, <2>2 DEF set_event_id, IInv, TypeOK, RecordedWasPublished
    <2>6. ReceiptsOfSettled' /\ ReceiptsDated' /\ BatchSettled' /\ SettlementsKnown'
      BY <1>5, <2>3
      DEF set_event_id, IInv, ReceiptsOfSettled, ReceiptsDated, BatchSettled,
          SettlementsKnown
    <2>. QED
      BY <2>4, <2>5, <2>6 DEF IInv
  <1>6. CASE RecordFails \/ PassEnds \/ Slept
    <2>1. Settled' = Settled
      BY <1>6 DEF RecordFails, PassEnds, Slept, Settled
    <2>2. TypeOK'
      BY <1>6 DEF RecordFails, PassEnds, Slept, IInv, TypeOK
    <2>3. ReceiptsOfSettled' /\ ReceiptsDated' /\ RecordedWasPublished'
      BY <1>6, <2>1
      DEF RecordFails, PassEnds, Slept, IInv, ReceiptsOfSettled, ReceiptsDated,
          RecordedWasPublished
    <2>4. BatchSettled' /\ SettlementsKnown'
      BY <1>6, <2>1
      DEF RecordFails, PassEnds, Slept, IInv, BatchSettled, SettlementsKnown
    <2>. QED
      BY <2>2, <2>3, <2>4 DEF IInv
  <1>7. CASE Notified
    <2>1. Settled' = Settled
      BY <1>7 DEF Notified, Ledger!Wake, Settled
    <2>2. TypeOK'
      BY <1>7 DEF Notified, Ledger!Wake, IInv, TypeOK
    <2>3. ReceiptsOfSettled' /\ ReceiptsDated' /\ RecordedWasPublished'
      BY <1>7, <2>1
      DEF Notified, IInv, ReceiptsOfSettled, ReceiptsDated, RecordedWasPublished
    <2>4. BatchSettled' /\ SettlementsKnown'
      BY <1>7, <2>1 DEF Notified, IInv, BatchSettled, SettlementsKnown
    <2>. QED
      BY <2>2, <2>3, <2>4 DEF IInv
  <1>. QED
    BY <1>1, <1>2, <1>3, <1>4, <1>5, <1>6, <1>7 DEF run

\* Every step keeps the invariant.
LEMMA NextInvariant == IInv /\ [Next]_vars => IInv'
  <1>. SUFFICES ASSUME IInv, [Next]_vars PROVE IInv'
    OBVIOUS
  <1>1. CASE Tick
    <2>1. TypeOK'
      BY <1>1, NumbersAssumption DEF Tick, settlement, publisher, IInv, TypeOK
    <2>2. /\ ReceiptsOfSettled' /\ ReceiptsDated' /\ RecordedWasPublished'
          /\ BatchSettled' /\ SettlementsKnown'
      BY <1>1
      DEF Tick, settlement, publisher, IInv, ReceiptsOfSettled, ReceiptsDated,
          RecordedWasPublished, BatchSettled, SettlementsKnown, Settled
    <2>. QED
      BY <2>1, <2>2 DEF IInv
  <1>2. CASE Crash
    <2>1. Settled' = Settled
      BY <1>2 DEF Crash, Ledger!Restart, Settled
    <2>2. TypeOK'
      BY <1>2 DEF Crash, Ledger!Restart, IInv, TypeOK
    <2>3. ReceiptsOfSettled' /\ ReceiptsDated' /\ RecordedWasPublished'
      BY <1>2, <2>1
      DEF Crash, IInv, ReceiptsOfSettled, ReceiptsDated, RecordedWasPublished
    <2>4. BatchSettled' /\ SettlementsKnown'
      BY <1>2 DEF Crash, BatchSettled, SettlementsKnown
    <2>. QED
      BY <2>2, <2>3, <2>4 DEF IInv
  <1>3. CASE UNCHANGED vars
    BY <1>3 DEF vars, settlement, publisher, IInv, TypeOK, ReceiptsOfSettled,
                ReceiptsDated, RecordedWasPublished, BatchSettled, SettlementsKnown,
                Settled
  <1>. QED
    BY <1>1, <1>2, <1>3, SettleKeepsInvariant, OthersKeepInvariant,
       PublisherKeepsInvariant
    DEF Next, Environment

\* The invariant of the publisher.
THEOREM Inductive == Spec => []IInv
  BY InitInvariant, NextInvariant, PTL DEF Spec

\* The types, and an event in hand exactly while it is recorded.
THEOREM TypeCorrect == Spec => []TypeOK
  <1>1. IInv => TypeOK
    BY DEF IInv
  <1>. QED
    BY <1>1, Inductive, PTL

\* No relay holds a receipt of an invoice that is not settled.
THEOREM ReceiptsAreTrue == Spec => []ReceiptsOfSettled
  <1>1. IInv => ReceiptsOfSettled
    BY DEF IInv
  <1>. QED
    BY <1>1, Inductive, PTL

\* Two events of one zap have its time of settlement, and are the same.
LEMMA OneEvent ==
  ASSUME IInv, NEW e \in relays, NEW f \in relays, e.zap = f.zap
  PROVE  e = f
  <1>1. e \in Events /\ f \in Events
    BY DEF IInv, TypeOK
  <1>2. e.created_at = f.created_at
    BY DEF IInv, ReceiptsDated
  <1>. QED
    BY <1>1, <1>2 DEF Events

\* However often a receipt is sent, relays see one event.
THEOREM RepetitionsAreTheSame == Spec => []OneEventPerZap
  <1>1. IInv => OneEventPerZap
    BY OneEvent DEF OneEventPerZap
  <1>. QED
    BY <1>1, Inductive, PTL

\* What is never sent again is with some relay.
THEOREM NoReceiptIsLost == Spec => []RecordedWasPublished
  <1>1. IInv => RecordedWasPublished
    BY DEF IInv
  <1>. QED
    BY <1>1, Inductive, PTL

\* The publisher does not sleep through a settlement.
THEOREM NoWakeupIsLost == Spec => []NoSettlementMissed
  <1>1. IInv => NoSettlementMissed
    BY DEF IInv, SettlementsKnown, NoSettlementMissed
  <1>. QED
    BY <1>1, Inductive, PTL

------------------------------------------------------------------------------
(* The publisher and the ledger.                                            *)

\* Every step is one of the ledger, or nothing to it.
LEMMA StepKeepsLedger == [Next]_vars => [Ledger!Next]_(Ledger!vars)
  <1>. SUFFICES ASSUME [Next]_vars
                PROVE  Ledger!Next \/ UNCHANGED <<ledger, revealed, unannounced, wakeup>>
    BY DEF Ledger!vars
  <1>1. CASE Environment
    BY <1>1 DEF Environment, Settle, Others, Tick, settlement, Ledger!Next
  <1>2. CASE Notified \/ Crash
    BY <1>2 DEF Notified, Crash, Ledger!Next
  <1>3. CASE \/ Query \/ set_event_id \/ PassEnds \/ Slept \/ QueryFails \/ RecordFails
             \/ \E z \in Zaps : Publish(z) \/ PublishFails(z)
    BY <1>3 DEF Query, set_event_id, PassEnds, Slept, QueryFails, RecordFails, Publish,
      PublishFails, settlement
  <1>4. CASE UNCHANGED vars
    BY <1>4 DEF vars, settlement
  <1>. QED
    BY <1>1, <1>2, <1>3, <1>4 DEF Next, run

\* The publisher leaves the ledger to those who keep it: of its own it takes the
\* wakeup, and nothing else.
THEOREM KeepsLedger == Spec => Ledger!Spec
  <1>1. Init => Ledger!Init
    BY DEF Init
  <1>. QED
    BY <1>1, StepKeepsLedger, PTL DEF Spec, Ledger!Spec

\* Every receipt on a relay is evidence: the preimage of its invoice is out, and
\* the invoice is settled, and stays so.
THEOREM ReceiptsAreEvidence ==
  Spec => []((\A e \in relays : e.zap \in revealed) /\ ReceiptsOfSettled) /\ Ledger!EndsOnce
  <1>1. Init => Ledger!SettledRevealed
    BY DEF Init, Ledger!Init, Ledger!SettledRevealed
  <1>2. IInv /\ Ledger!SettledRevealed /\ [Ledger!Next]_(Ledger!vars)
          => Ledger!SettledRevealed'
    BY DEF IInv, TypeOK, Ledger!SettledRevealed, Ledger!Next, Ledger!vars, Ledger!Open,
      Ledger!Reveal, Ledger!Settle, Ledger!Cancel, Ledger!Announce, Ledger!Wake, Ledger!Restart
  <1>3. IInv /\ [Ledger!Next]_(Ledger!vars) => [Ledger!KeepsEnds]_(Ledger!vars)
    BY DEF IInv, TypeOK, Ledger!Next, Ledger!vars, Ledger!Open, Ledger!Reveal, Ledger!Settle,
      Ledger!Cancel, Ledger!Announce, Ledger!Wake, Ledger!Restart, Ledger!KeepsEnds
  <1>4. IInv /\ Ledger!SettledRevealed => \A e \in relays : e.zap \in revealed
    BY DEF IInv, ReceiptsOfSettled, Settled, Ledger!SettledRevealed
  <1>5. IInv => ReceiptsOfSettled
    BY DEF IInv
  <1>. QED
    BY <1>1, <1>2, <1>3, <1>4, <1>5, StepKeepsLedger, Inductive, PTL DEF Spec, Ledger!EndsOnce

\* The recorded event of a zap never changes, though set_event_id overwrites it:
\* what is recorded again after a crash is the same event.
THEOREM RecordsAreFinal ==
  Spec => [][\A z \in Zaps : event_id[z] # None => event_id'[z] = event_id[z]]_vars
  <1>1. IInv /\ [Next]_vars
          => [\A z \in Zaps : event_id[z] # None => event_id'[z] = event_id[z]]_vars
    <2>. SUFFICES ASSUME IInv, Next, NEW z \in Zaps, event_id[z] # None
                  PROVE  event_id'[z] = event_id[z]
      OBVIOUS
    <2>1. CASE set_event_id
      <3>1. /\ current \in relays /\ event_id[z] \in relays
            /\ event_id' = [event_id EXCEPT ![current.zap] = current]
        BY <2>1 DEF set_event_id, IInv, TypeOK, RecordedWasPublished
      <3>2. CASE current.zap = z
        <4>1. event_id[z].zap = z
          BY DEF IInv, RecordedWasPublished
        <4>2. event_id[z] = current
          BY <3>1, <3>2, <4>1, OneEvent
        <4>. QED
          BY <3>1, <3>2, <4>2 DEF IInv, TypeOK
      <3>3. CASE current.zap # z
        BY <3>1, <3>3 DEF IInv, TypeOK
      <3>. QED
        BY <3>2, <3>3
    <2>2. CASE ~ set_event_id
      BY <2>2 DEF Next, run, Query, PassEnds, Notified, Slept, QueryFails, RecordFails, Crash,
        Publish, PublishFails, Environment, Settle, Others, Tick
    <2>. QED
      BY <2>1, <2>2
  <1>. QED
    BY <1>1, Inductive, PTL DEF Spec
==============================================================================
