---------------------------- MODULE InvoiceLedger ----------------------------
(***************************************************************************)
(* What the settlement of invoices promises, to payers and to the          *)
(* publisher of zap receipts: an invoice is settled or cancelled once and   *)
(* for good, it is settled only when its preimage is out, and whoever       *)
(* settles it wakes the publisher, unless the service stops in between.     *)
(***************************************************************************)

CONSTANT Invoices

VARIABLES
  ledger,        \* [Invoices -> {"absent", "pending", "settled", "cancelled"}]
  revealed,      \* the invoices whose preimage is out
  unannounced,   \* settled, and the publisher not woken yet
  wakeup         \* the publisher's stored wakeup

vars == <<ledger, revealed, unannounced, wakeup>>

Init ==
  /\ ledger = [i \in Invoices |-> "absent"]
  /\ revealed = {}
  /\ unannounced = {}
  /\ wakeup = FALSE

Open(i) ==
  /\ ledger[i] = "absent"
  /\ ledger' = [ledger EXCEPT ![i] = "pending"]
  /\ UNCHANGED <<revealed, unannounced, wakeup>>

Reveal(i) ==
  /\ revealed' = revealed \cup {i}
  /\ UNCHANGED <<ledger, unannounced, wakeup>>

Settle(i) ==
  /\ ledger[i] = "pending"
  /\ i \in revealed
  /\ ledger' = [ledger EXCEPT ![i] = "settled"]
  /\ unannounced' = unannounced \cup {i}
  /\ UNCHANGED <<revealed, wakeup>>

Cancel(i) ==
  /\ ledger[i] = "pending"
  /\ ledger' = [ledger EXCEPT ![i] = "cancelled"]
  /\ UNCHANGED <<revealed, unannounced, wakeup>>

Announce(i) ==
  /\ i \in unannounced
  /\ unannounced' = unannounced \ {i}
  /\ wakeup' = TRUE
  /\ UNCHANGED <<ledger, revealed>>

\* The publisher takes the wakeup.
Wake ==
  /\ wakeup
  /\ wakeup' = FALSE
  /\ UNCHANGED <<ledger, revealed, unannounced>>

\* The service restarts: wakeups are not persisted.
Restart ==
  /\ unannounced' = {}
  /\ wakeup' = FALSE
  /\ UNCHANGED <<ledger, revealed>>

Next ==
  \/ \E i \in Invoices :
       Open(i) \/ Reveal(i) \/ Settle(i) \/ Cancel(i) \/ Announce(i)
  \/ Wake
  \/ Restart

Spec == Init /\ [][Next]_vars

------------------------------------------------------------------------------
(* What follows for whoever keeps a ledger.                                 *)

\* Nothing is settled without its preimage, and only settlements are announced.
SettledRevealed ==
  /\ \A i \in Invoices : ledger[i] = "settled" => i \in revealed
  /\ \A i \in unannounced : ledger[i] = "settled"

\* A settled invoice is not cancelled and a cancelled one is not settled, ever.
KeepsEnds ==
  \A i \in Invoices :
    ledger[i] \in {"settled", "cancelled"} => ledger'[i] = ledger[i]

EndsOnce == [][KeepsEnds]_vars

\* No settlement is silent: it is announced later, with a wakeup, unless the
\* service stops and forgets all that it has not announced.
KeepsAnnouncing ==
  /\ \A i \in Invoices :
       ledger'[i] = "settled" => ledger[i] = "settled" \/ i \in unannounced'
  /\ unannounced \ unannounced' # {} => wakeup' \/ unannounced' = {}

SettlementsWake == [][KeepsAnnouncing]_vars
==============================================================================
