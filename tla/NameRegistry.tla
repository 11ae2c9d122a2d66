---------------------------- MODULE NameRegistry ----------------------------
(***************************************************************************)
(* What the custom address service promises about names, without its       *)
(* handlers, its poller or its tables: a name has at most one holder at a  *)
(* time, only its holder can own it, only after paying for it, and an      *)
(* owned name is owned for ever.                                           *)
(***************************************************************************)

CONSTANTS Names, Owners, Purchases, None

VARIABLES
  owned,      \* [Names -> Owners \cup {None}]: the owner of a name
  reserved,   \* [Names -> SUBSET Holders]: the holder of a name, if any
  paid        \* the purchases whose fee has been paid

vars == <<owned, reserved, paid>>

Holders == [purchase : Purchases, owner : Owners]

Init ==
  /\ owned = [n \in Names |-> None]
  /\ reserved = [n \in Names |-> {}]
  /\ paid = {}

\* Money moves on its own: before, during and after a reservation.
Pay(p) ==
  /\ paid' = paid \cup {p}
  /\ UNCHANGED <<owned, reserved>>

Reserve(n, h) ==
  /\ owned[n] = None
  /\ reserved[n] = {}
  /\ reserved' = [reserved EXCEPT ![n] = {h}]
  /\ UNCHANGED <<owned, paid>>

Release(n) ==
  /\ reserved' = [reserved EXCEPT ![n] = {}]
  /\ UNCHANGED <<owned, paid>>

\* The holder has paid, and the name becomes its owner's.
Activate(n, h) ==
  /\ owned[n] = None
  /\ reserved[n] = {h}
  /\ h.purchase \in paid
  /\ owned' = [owned EXCEPT ![n] = h.owner]
  /\ reserved' = [reserved EXCEPT ![n] = {}]
  /\ UNCHANGED paid

Next ==
  \/ \E p \in Purchases : Pay(p)
  \/ \E n \in Names : \/ Release(n)
                      \/ \E h \in Holders : Reserve(n, h) \/ Activate(n, h)

Spec == Init /\ [][Next]_vars

------------------------------------------------------------------------------
(* What follows for a name.                                                 *)

\* A name has at most one holder, and none once it is owned.
OneHolder ==
  \A n \in Names : /\ \A h, i \in reserved[n] : h = i
                   /\ owned[n] # None => reserved[n] = {}

\* An owned name is neither freed nor given to another owner.
KeepsOwners == \A n \in Names : owned[n] # None => owned'[n] = owned[n]

OwnedForEver == [][KeepsOwners]_vars

\* A name that gets an owner gets the one its holder has paid for.
SellsToHolders ==
  \A n \in Names : owned'[n] # owned[n] =>
    \E h \in reserved[n] : h.purchase \in paid /\ owned'[n] = h.owner

OnlyHoldersBuy == [][SellsToHolders]_vars

=============================================================================
