----------------------- MODULE CustomAddresses_proofs -----------------------
(* What holds of the sale of custom names for every number of requests,     *)
(* viewers, names and owners, every fee, every clock.                       *)
EXTENDS CustomAddresses, TLAPS

------------------------------------------------------------------------------
(* Claims and their updates.                                                *)

\* The answer of receive_status goes into the reading actor's claim and
\* nowhere else.
LEMMA ReceiveUpdate ==
  ASSUME NEW f \in [Actors -> Claims], NEW a \in Actors, NEW answer \in Receive
  PROVE  /\ [f EXCEPT ![a].receive = answer] \in [Actors -> Claims]
         /\ [f EXCEPT ![a].receive = answer][a].target = f[a].target
         /\ [f EXCEPT ![a].receive = answer][a].receive = answer
         /\ [f EXCEPT ![a].receive = answer][a].ark = f[a].ark
         /\ \A b \in Actors \ {a} : [f EXCEPT ![a].receive = answer][b] = f[b]
BY DEF Claims

\* So does what received_ark_payment found.
LEMMA ArkUpdate ==
  ASSUME NEW f \in [Actors -> Claims], NEW a \in Actors, NEW seen \in SUBSET Amounts
  PROVE  /\ [f EXCEPT ![a].ark = seen] \in [Actors -> Claims]
         /\ [f EXCEPT ![a].ark = seen][a].target = f[a].target
         /\ [f EXCEPT ![a].ark = seen][a].receive = f[a].receive
         /\ [f EXCEPT ![a].ark = seen][a].ark = seen
         /\ \A b \in Actors \ {a} : [f EXCEPT ![a].ark = seen][b] = f[b]
BY DEF Claims

\* An actor outside claim_custom_address_invoice_if_paid works on nothing.
LEMMA NoClaimType == NoClaim \in Claims /\ NoClaim.target = None
BY PhasesAssumption DEF NoClaim, Claims, NoReceive, Receive

\* A claim that has just started has read nothing.
LEMMA FreshClaim ==
  ASSUME NEW p \in Requests
  PROVE  /\ [NoClaim EXCEPT !.target = p] \in Claims
         /\ [NoClaim EXCEPT !.target = p].target = p
         /\ [NoClaim EXCEPT !.target = p].receive = NoReceive
         /\ [NoClaim EXCEPT !.target = p].ark = {}
BY PhasesAssumption DEF NoClaim, Claims, NoReceive, Receive

\* An actor moves on, and its claim fits the place it goes to.
LEMMA ActorMoves ==
  ASSUME ActorsTypeOK, NEW a \in Actors,
         NEW there \in {"idle", "done"} \cup Claiming \cup Creating,
         Goto(a, there),
         claim' \in [Actors -> Claims],
         \A b \in Actors \ {a} : claim'[b] = claim[b],
         claim'[a].target # None <=> there \in Claiming,
         there \in Creating \cup {"done"} => a \in Requests
  PROVE  ActorsTypeOK'
<1>1. pc' \in [Actors -> {"idle", "done"} \cup Claiming \cup Creating]
  BY DEF ActorsTypeOK, Goto
<1>2. ASSUME NEW b \in Actors
      PROVE  /\ claim'[b].target # None <=> pc'[b] \in Claiming
             /\ pc'[b] \in Creating \cup {"done"} => b \in Requests
  <2>1. CASE b = a
    BY <2>1 DEF ActorsTypeOK, Goto
  <2>2. CASE b # a
    <3>1. claim'[b] = claim[b] /\ pc'[b] = pc[b]
      BY <2>2 DEF ActorsTypeOK, Goto
    <3> QED BY <3>1 DEF ActorsTypeOK
  <2> QED BY <2>1, <2>2
<1> QED BY <1>1, <1>2 DEF ActorsTypeOK

\* The end of a claim, successful or not.
LEMMA ClaimEnds ==
  ASSUME ActorsTypeOK, NEW a \in Actors,
         Return(a) \/ ClaimFails(a)
  PROVE  ActorsTypeOK'
<1>1. claim' = [claim EXCEPT ![a] = NoClaim]
  BY DEF Return, ClaimFails
<1>2. /\ claim' \in [Actors -> Claims]
      /\ claim'[a].target = None
      /\ \A b \in Actors \ {a} : claim'[b] = claim[b]
  BY <1>1, NoClaimType DEF ActorsTypeOK
<1>3. PICK there \in {"idle", "done", "check_active"} :
        Goto(a, there) /\ (there \in {"done", "check_active"} => a \in Requests)
  BY DEF Return, ClaimFails
<1> QED BY <1>2, <1>3, ActorMoves DEF Claiming, Creating

\* The claim an actor starts fits the place it goes to.
LEMMA StartClaimType ==
  ASSUME ActorsTypeOK, NEW a \in Actors, NEW p \in Requests, StartClaim(a, p)
  PROVE  /\ ActorsTypeOK'
         /\ claim'[a].target = p
         /\ claim'[a].receive = NoReceive
         /\ claim'[a].ark = {}
         /\ \A b \in Actors \ {a} : claim'[b] = claim[b]
<1>1. /\ claim' \in [Actors -> Claims]
      /\ claim'[a].target = p
      /\ claim'[a].receive = NoReceive
      /\ claim'[a].ark = {}
      /\ \A b \in Actors \ {a} : claim'[b] = claim[b]
  <2> DEFINE fresh == [NoClaim EXCEPT !.target = p]
  <2>1. claim' = [claim EXCEPT ![a] = fresh] /\ claim \in [Actors -> Claims]
    BY DEF StartClaim, ActorsTypeOK
  <2>2. /\ fresh \in Claims
        /\ fresh.target = p /\ fresh.receive = NoReceive /\ fresh.ark = {}
    BY FreshClaim
  <2> HIDE DEF fresh
  <2> QED BY <2>1, <2>2
<1> QED BY <1>1, ActorMoves, ActorsAssumption DEF StartClaim, Claiming, Creating

------------------------------------------------------------------------------
(* Type correctness.                                                        *)

\* ... of what the transaction writes,
LEMMA SettleType ==
  ASSUME TypeOK, NEW p \in Requests, NEW rail \in {"lightning", "ark"},
         mark_settled_and_activate(p, rail)
  PROVE  /\ state' \in [Requests -> {"absent", "pending", "settled", "cancelled"}]
         /\ via' \in [Requests -> {"none", "lightning", "ark"}]
         /\ active' \in [Names -> Owners \cup {None}]
<1>1. CASE active[name[p]] # None /\ mark_cancelled(p) /\ UNCHANGED <<via, active>>
  BY <1>1 DEF mark_cancelled, TypeOK
<1>2. CASE /\ state' = [state EXCEPT ![p] = "settled"]
           /\ via' = [via EXCEPT ![p] = rail]
           /\ active' = [active EXCEPT ![name[p]] = owner[p]]
  BY <1>2 DEF TypeOK
<1>3. CASE UNCHANGED <<state, via, active>>
  BY <1>3 DEF TypeOK
<1> QED BY <1>1, <1>2, <1>3 DEF mark_settled_and_activate

\* ... is preserved by a step of a claim,
LEMMA ClaimType ==
  ASSUME TypeOK, NEW a \in Actors, Claim(a)
  PROVE  TypeOK'
<1>1. ASSUME NEW answer \in Receive, ReadStatus(a, answer) PROVE TypeOK'
  <2>1. /\ claim' \in [Actors -> Claims]
        /\ claim'[a].target = claim[a].target
        /\ \A b \in Actors \ {a} : claim'[b] = claim[b]
    BY <1>1, ReceiveUpdate DEF ReadStatus, TypeOK, ActorsTypeOK
  <2>2. claim[a].target # None /\ Goto(a, "read_history")
    BY <1>1 DEF ReadStatus, TypeOK, ActorsTypeOK, Claiming
  <2>3. ActorsTypeOK'
    BY <2>1, <2>2, ActorMoves DEF TypeOK, Claiming, Creating
  <2> QED BY <1>1, <2>3 DEF ReadStatus, TypeOK, world, rows
<1>2. CASE SettleLightning(a)
  <2>1. ActorsTypeOK'
    BY <1>2, ClaimEnds DEF SettleLightning, TypeOK
  <2>2. claim[a].target \in Requests
    BY <1>2 DEF SettleLightning, TypeOK, ActorsTypeOK, Claiming, Claims
  <2>3. /\ state' \in [Requests -> {"absent", "pending", "settled", "cancelled"}]
        /\ via' \in [Requests -> {"none", "lightning", "ark"}]
        /\ active' \in [Names -> Owners \cup {None}]
    BY <1>2, <2>2, SettleType DEF SettleLightning
  <2> QED BY <1>2, <2>1, <2>3 DEF SettleLightning, TypeOK, world
<1>3. CASE ReadHistory(a)
  <2>1. claim[a].target \in Requests
    BY <1>3 DEF ReadHistory, TypeOK, ActorsTypeOK, Claiming, Claims
  <2>2. received_ark_payment(claim[a].target) \in SUBSET Amounts
    BY <2>1 DEF received_ark_payment, TypeOK
  <2>3. /\ claim' \in [Actors -> Claims]
        /\ claim'[a].target = claim[a].target
        /\ \A b \in Actors \ {a} : claim'[b] = claim[b]
    <3> DEFINE found == received_ark_payment(claim[a].target)
    <3>1. claim' = [claim EXCEPT ![a].ark = found]
      BY <1>3 DEF ReadHistory
    <3>2. found \in SUBSET Amounts /\ claim \in [Actors -> Claims]
      BY <2>2 DEF TypeOK, ActorsTypeOK
    <3> HIDE DEF found
    <3> QED BY <3>1, <3>2, ArkUpdate
  <2>4. ActorsTypeOK'
    BY <1>3, <2>1, <2>3, ActorMoves, ActorsAssumption
       DEF ReadHistory, TypeOK, Claiming, Creating
  <2> QED BY <1>3, <2>4 DEF ReadHistory, TypeOK, world, rows
<1>4. CASE SettleArk(a)
  <2>1. ActorsTypeOK'
    BY <1>4, ClaimEnds DEF SettleArk, TypeOK
  <2>2. claim[a].target \in Requests
    BY <1>4 DEF SettleArk, TypeOK, ActorsTypeOK, Claiming, Claims
  <2>3. /\ state' \in [Requests -> {"absent", "pending", "settled", "cancelled"}]
        /\ via' \in [Requests -> {"none", "lightning", "ark"}]
        /\ active' \in [Names -> Owners \cup {None}]
    BY <1>4, <2>2, SettleType DEF SettleArk
  <2> QED BY <1>4, <2>1, <2>3 DEF SettleArk, TypeOK, world
<1>5. CASE Expire(a)
  <2>1. ActorsTypeOK'
    BY <1>5, ClaimEnds DEF Expire, TypeOK
  <2> QED BY <1>5, <2>1 DEF Expire, mark_cancelled, TypeOK, world
<1>6. CASE Keep(a)
  <2>1. ActorsTypeOK'
    BY <1>6, ClaimEnds DEF Keep, TypeOK
  <2> QED BY <1>6, <2>1 DEF Keep, TypeOK, world, rows
<1>7. CASE ClaimFails(a)
  <2>1. ActorsTypeOK'
    BY <1>7, ClaimEnds DEF TypeOK
  <2> QED BY <1>7, <2>1 DEF ClaimFails, TypeOK, world, rows
<1> QED BY <1>1, <1>2, <1>3, <1>4, <1>5, <1>6, <1>7 DEF Claim, ClaimWorks

\* ... by a step of a POST handler,
LEMMA CreateType ==
  ASSUME TypeOK, NEW r \in Requests, Create(r)
  PROVE  TypeOK'
<1>0. r \in Actors
  BY DEF Actors
\* A step that only moves the handler, from and to its own program points.
<1>1. ASSUME pc[r] \in Creating \cup {"idle"}, UNCHANGED claim,
             NEW there \in Creating \cup {"done"}, Goto(r, there)
      PROVE  ActorsTypeOK'
  BY <1>0, <1>1, ActorMoves DEF TypeOK, ActorsTypeOK, Claiming, Creating
<1>2. ASSUME NEW n \in Names, NEW o \in Owners, Begin(r, n, o) PROVE TypeOK'
  <2>1. ASSUME NEW p \in Pending(n), StartClaim(r, p) PROVE ActorsTypeOK'
    BY <1>0, <2>1, StartClaimType DEF Pending, TypeOK
  <2>2. ASSUME Goto(r, "check_active"), UNCHANGED claim PROVE ActorsTypeOK'
    BY <1>1, <1>2, <2>2 DEF Begin, Creating
  <2>3. ActorsTypeOK'
    BY <1>2, <2>1, <2>2 DEF Begin
  <2> QED BY <1>2, <2>3 DEF Begin, TypeOK, world
<1>3. CASE CheckActive(r)
  BY <1>1, <1>3 DEF CheckActive, TypeOK, Creating, world, rows
<1>4. CASE CheckPending(r)
  BY <1>1, <1>4 DEF CheckPending, TypeOK, Creating, world, rows
<1>5. CASE MakeInvoice(r)
  <2>1. ActorsTypeOK'
    BY <1>1, <1>5 DEF MakeInvoice, Creating
  <2> QED
    BY <1>5, <2>1, PhasesAssumption, NumbersAssumption DEF MakeInvoice, TypeOK, rows
<1>6. CASE Insert(r)
  <2>1. ActorsTypeOK'
    BY <1>1, <1>6 DEF Insert, Creating
  <2>2. custom_address_invoice_expires_at(r) \in Nat
    BY NumbersAssumption DEF custom_address_invoice_expires_at, TypeOK
  <2> QED BY <1>6, <2>1, <2>2 DEF Insert, TypeOK, world
<1>7. CASE RequestFails(r)
  BY <1>1, <1>7 DEF RequestFails, TypeOK, Creating, world, rows
<1> QED BY <1>2, <1>3, <1>4, <1>5, <1>6, <1>7 DEF Create

\* ... and by every other step.
LEMMA OtherType ==
  ASSUME TypeOK,
         \/ \E v \in Viewers, p \in Requests : View(v, p)
         \/ PollList
         \/ \E p \in Requests : PollNext(p)
         \/ Crash
         \/ World
  PROVE  TypeOK'
<1>1. ASSUME NEW v \in Viewers, NEW p \in Requests, View(v, p) PROVE TypeOK'
  <2>1. ActorsTypeOK'
    BY <1>1, StartClaimType DEF View, TypeOK, Actors
  <2> QED BY <1>1, <2>1 DEF View, TypeOK, world, rows
<1>2. CASE PollList
  BY <1>2 DEF PollList, TypeOK, ActorsTypeOK, world, rows
<1>3. ASSUME NEW p \in Requests, PollNext(p) PROVE TypeOK'
  <2>1. ActorsTypeOK'
    BY <1>3, StartClaimType DEF PollNext, TypeOK, Actors
  <2> QED BY <1>3, <2>1 DEF PollNext, TypeOK, world, rows
<1>4. CASE Crash
  <2>1. /\ claim' \in [Actors -> Claims]
        /\ \A a \in Actors : claim'[a].target = None
    BY <1>4, NoClaimType DEF Crash
  <2>2. /\ pc' \in [Actors -> {"idle", "done"}]
        /\ \A a \in Actors : pc'[a] = "done" => a \in Requests
    BY <1>4 DEF Crash
  <2>3. ActorsTypeOK'
    BY <2>1, <2>2 DEF ActorsTypeOK, Claiming, Creating
  <2> QED BY <1>4, <2>3 DEF Crash, TypeOK, world, rows
<1>5. CASE Tick
  BY <1>5, NumbersAssumption DEF Tick, TypeOK, ActorsTypeOK, rows
<1>6. ASSUME NEW p \in Requests, BarkdMoves(p) PROVE TypeOK'
  BY <1>6 DEF BarkdMoves, NextPhases, TypeOK, ActorsTypeOK, rows
<1>7. ASSUME NEW p \in Requests, NEW amount \in Amounts, PayArk(p, amount)
      PROVE TypeOK'
  BY <1>7 DEF PayArk, TypeOK, ActorsTypeOK, rows
<1> QED BY <1>1, <1>2, <1>3, <1>4, <1>5, <1>6, <1>7 DEF World

\* Type correctness of the service, for every value of the constants: also
\* that claims and program points always fit together.
THEOREM TypeCorrect == Spec => []TypeOK
<1>1. Init => TypeOK
  BY PhasesAssumption, NumbersAssumption, NoClaimType, ActorsAssumption
     DEF Init, TypeOK, ActorsTypeOK, Claiming, Creating, Actors
<1>2. TypeOK /\ [Next]_vars => TypeOK'
  <2> SUFFICES ASSUME TypeOK, [Next]_vars PROVE TypeOK'
    OBVIOUS
  <2>1. CASE UNCHANGED vars
    BY <2>1 DEF TypeOK, ActorsTypeOK, vars, world, rows
  <2> QED BY <2>1, ClaimType, CreateType, OtherType DEF Next
<1> QED BY <1>1, <1>2, PTL DEF Spec

------------------------------------------------------------------------------
(* The inductive invariant: the tables.                                     *)

Tables == OnePendingPerName /\ ActiveIffSettled /\ SettledWasPaid

\* A purchase that is in the table stays in it.
RowsStay == \A p \in Requests : state[p] # "absent" => state'[p] # "absent"

\* What has been paid for a purchase in the table stays paid.
PaymentsStay ==
  \A p \in Requests : state[p] # "absent" =>
    /\ PaidByLightning(p) => PaidByLightning(p)'
    /\ PaidByArk(p) => PaidByArk(p)'

\* Steps that write neither table nor take a payment back.
LEMMA TablesKept ==
  ASSUME IInv, UNCHANGED <<name, owner, state, via, active>>, PaymentsStay
  PROVE  Tables' /\ RowsStay
<1>1. OnePendingPerName' /\ RowsStay
  BY DEF IInv, OnePendingPerName, RowsStay
<1>2. ActiveIffSettled'
  BY DEF IInv, ActiveIffSettled
<1>3. SettledWasPaid'
  BY DEF IInv, SettledWasPaid, PaymentsStay
<1> QED BY <1>1, <1>2, <1>3 DEF Tables

\* Payments stay if barkd does nothing.
LEMMA PaymentsKept ==
  ASSUME UNCHANGED <<receive, movements>>
  PROVE  PaymentsStay
BY DEF PaymentsStay, PaidByLightning, PaidByArk

\* Cancelling a purchase takes no name from its owner.
LEMMA CancelKeepsTables ==
  ASSUME IInv, NEW p \in Requests, mark_cancelled(p),
         UNCHANGED <<name, owner, via, active, receive, movements>>
  PROVE  Tables' /\ RowsStay
<1>1. \A q \in Requests :
        state'[q] = IF q = p /\ state[q] = "pending" THEN "cancelled" ELSE state[q]
  BY DEF mark_cancelled, IInv, TypeOK
<1>2. OnePendingPerName' /\ RowsStay
  BY <1>1 DEF IInv, OnePendingPerName, RowsStay
<1>3. ActiveIffSettled'
  BY <1>1 DEF IInv, ActiveIffSettled
<1>4. SettledWasPaid'
  BY <1>1 DEF IInv, SettledWasPaid, PaidByLightning, PaidByArk
<1> QED BY <1>2, <1>3, <1>4 DEF Tables

\* The transaction keeps the tables in order if the fee has been paid on the
\* rail it settles by.
LEMMA SettleKeepsTables ==
  ASSUME IInv, NEW p \in Requests, NEW rail \in {"lightning", "ark"},
         state[p] # "absent",
         rail = "lightning" => PaidByLightning(p),
         rail = "ark" => PaidByArk(p),
         mark_settled_and_activate(p, rail),
         UNCHANGED <<name, owner, receive, movements>>
  PROVE  Tables' /\ RowsStay
<1>1. CASE active[name[p]] # None /\ mark_cancelled(p) /\ UNCHANGED <<via, active>>
  BY <1>1, CancelKeepsTables
<1>2. CASE UNCHANGED <<state, via, active>>
  BY <1>2, TablesKept, PaymentsKept
<1>3. CASE /\ active[name[p]] = None
           /\ state[p] = "pending"
           /\ state' = [state EXCEPT ![p] = "settled"]
           /\ via' = [via EXCEPT ![p] = rail]
           /\ active' = [active EXCEPT ![name[p]] = owner[p]]
  <2>1. name[p] \in Names /\ owner[p] \in Owners
    BY <1>3 DEF IInv, ActorsCoherent
  <2>2. \A q \in Requests : state'[q] = IF q = p THEN "settled" ELSE state[q]
    BY <1>3 DEF IInv, TypeOK
  <2>3. \A q \in Requests : via'[q] = IF q = p THEN rail ELSE via[q]
    BY <1>3 DEF IInv, TypeOK
  <2>4. \A n \in Names : active'[n] = IF n = name[p] THEN owner[p] ELSE active[n]
    BY <1>3 DEF IInv, TypeOK
  \* No settled purchase has this name: it would be active.
  <2>5. \A q \in Requests : state[q] = "settled" => name[q] # name[p] /\ name[q] \in Names
    <3> SUFFICES ASSUME NEW q \in Requests, state[q] = "settled"
                 PROVE  name[q] # name[p] /\ name[q] \in Names
      OBVIOUS
    <3>1. active[name[q]] = owner[q]
      BY DEF IInv, ActiveIffSettled
    <3>2. name[q] \in Names /\ owner[q] \in Owners
      BY DEF IInv, ActorsCoherent
    <3> QED BY <1>3, <3>1, <3>2, ActorsAssumption
  <2>6. OnePendingPerName' /\ RowsStay
    BY <2>2 DEF IInv, OnePendingPerName, RowsStay
  <2>7. ActiveIffSettled'
    <3>1. \A q \in Requests : state'[q] = "settled" => active'[name[q]] = owner[q]
      BY <2>1, <2>2, <2>4, <2>5 DEF IInv, ActiveIffSettled
    <3>2. \A q, r \in Requests :
            state'[q] = "settled" /\ state'[r] = "settled" /\ name[q] = name[r] => q = r
      BY <2>2, <2>5 DEF IInv, ActiveIffSettled
    <3>3. \A n \in Names : active'[n] # None =>
            \E q \in Requests : state'[q] = "settled" /\ name[q] = n
      BY <2>2, <2>4 DEF IInv, ActiveIffSettled
    <3> QED BY <3>1, <3>2, <3>3 DEF ActiveIffSettled
  <2>8. SettledWasPaid'
    BY <2>2, <2>3 DEF IInv, SettledWasPaid, PaidByLightning, PaidByArk
  <2> QED BY <2>6, <2>7, <2>8 DEF Tables
<1> QED BY <1>1, <1>2, <1>3 DEF mark_settled_and_activate

\* The insert keeps the tables in order thanks to the unique index.
LEMMA InsertKeepsTables ==
  ASSUME IInv, NEW r \in Requests, Insert(r)
  PROVE  Tables' /\ RowsStay
<1>1. CASE Pending(name[r]) # {} /\ UNCHANGED state
  BY <1>1, TablesKept, PaymentsKept DEF Insert, world
<1>2. CASE Pending(name[r]) = {} /\ state' = [state EXCEPT ![r] = "pending"]
  <2>1. \A q \in Requests : state'[q] = IF q = r THEN "pending" ELSE state[q]
    BY <1>2 DEF IInv, TypeOK
  <2>2. state[r] = "absent"
    BY DEF Insert, IInv, TypeOK, ActorsCoherent
  <2>3. UNCHANGED <<name, owner, via, active, receive, movements>>
    BY DEF Insert, world
  <2>4. OnePendingPerName'
    BY <1>2, <2>1, <2>3 DEF IInv, OnePendingPerName, Pending
  <2>5. ActiveIffSettled' /\ RowsStay
    BY <2>1, <2>2, <2>3 DEF IInv, ActiveIffSettled, RowsStay
  <2>6. SettledWasPaid'
    BY <2>1, <2>2, <2>3 DEF IInv, SettledWasPaid, PaidByLightning, PaidByArk
  <2> QED BY <2>4, <2>5, <2>6 DEF Tables
<1> QED BY <1>1, <1>2 DEF Insert

\* A request writes its name before its purchase is in the table.
LEMMA BeginKeepsTables ==
  ASSUME IInv, NEW r \in Requests, NEW n \in Names, NEW o \in Owners, Begin(r, n, o)
  PROVE  /\ Tables' /\ RowsStay
         /\ \A q \in Requests \ {r} : name'[q] = name[q] /\ owner'[q] = owner[q]
         /\ name'[r] = n /\ owner'[r] = o
<1>1. state[r] = "absent"
  BY DEF Begin, IInv, ActorsCoherent
<1>2. /\ \A q \in Requests \ {r} : name'[q] = name[q] /\ owner'[q] = owner[q]
      /\ name'[r] = n /\ owner'[r] = o
  BY DEF Begin, IInv, TypeOK
<1>3. UNCHANGED <<state, via, active, receive, movements>>
  BY DEF Begin, world
<1>4. OnePendingPerName' /\ RowsStay
  BY <1>1, <1>2, <1>3 DEF IInv, OnePendingPerName, RowsStay
<1>5. ActiveIffSettled'
  BY <1>1, <1>2, <1>3 DEF IInv, ActiveIffSettled
<1>6. SettledWasPaid'
  BY <1>3 DEF IInv, SettledWasPaid, PaidByLightning, PaidByArk
<1> QED BY <1>2, <1>4, <1>5, <1>6 DEF Tables

------------------------------------------------------------------------------
(* The inductive invariant: the actors.                                     *)

\* What a claim may have in hand at a program point.
ClaimSound(c, place) ==
  /\ c.target # None => state[c.target] # "absent"
  /\ place \in Claiming =>
       /\ revealed_preimage(c.receive) => PaidByLightning(c.target)
       /\ c.ark # {} => PaidByArk(c.target)

\* One actor moves; the others rely on rows and payments that stay.
LEMMA ActorKeepsSound ==
  ASSUME IInv, RowsStay, PaymentsStay, TypeOK',
         NEW a \in Actors, NEW there, Goto(a, there),
         \A b \in Actors \ {a} : claim'[b] = claim[b],
         ClaimSound(claim[a], there)',
         \A p \in todo' : state'[p] # "absent",
         a \in Requests => /\ there # "idle"
                           /\ name'[a] \in Names /\ owner'[a] \in Owners
                           /\ state'[a] # "absent" => there = "done",
         \A r \in Requests \ {a} : /\ name'[r] = name[r] /\ owner'[r] = owner[r]
                                   /\ state'[r] # "absent" => state[r] # "absent"
  PROVE  ActorsCoherent' /\ SamplesSound'
<1>1. \A b \in Actors : pc'[b] = IF b = a THEN there ELSE pc[b]
  BY DEF Goto, IInv, TypeOK, ActorsTypeOK
<1>2. ASSUME NEW b \in Actors PROVE ClaimSound(claim[b], pc[b])'
  <2>1. CASE b = a
    BY <1>1, <2>1 DEF ClaimSound
  <2>2. CASE b # a
    <3>1. claim'[b] = claim[b] /\ pc'[b] = pc[b]
      BY <1>1, <2>2
    <3>2. claim[b].target # None =>
            /\ claim[b].target \in Requests
            /\ state[claim[b].target] # "absent"
            /\ state'[claim[b].target] # "absent"
      BY DEF IInv, TypeOK, ActorsTypeOK, Claims, ActorsCoherent, RowsStay
    <3>3. pc[b] \in Claiming =>
            /\ claim[b].target # None
            /\ revealed_preimage(claim[b].receive) => PaidByLightning(claim[b].target)
            /\ claim[b].ark # {} => PaidByArk(claim[b].target)
      BY DEF IInv, TypeOK, ActorsTypeOK, SamplesSound
    <3>4. pc[b] \in Claiming =>
            /\ PaidByLightning(claim[b].target) => PaidByLightning(claim[b].target)'
            /\ PaidByArk(claim[b].target) => PaidByArk(claim[b].target)'
      BY <3>1, <3>2, <3>3 DEF PaymentsStay, PaidByLightning, PaidByArk
    <3> QED BY <3>1, <3>2, <3>3, <3>4 DEF ClaimSound, PaidByLightning, PaidByArk, revealed_preimage
  <2> QED BY <2>1, <2>2
<1>3. SamplesSound'
  BY <1>2 DEF ClaimSound, SamplesSound
<1>4. \A r \in Requests : /\ pc'[r] # "idle" => name'[r] \in Names /\ owner'[r] \in Owners
                          /\ state'[r] # "absent" => pc'[r] = "done"
  BY <1>1 DEF IInv, ActorsCoherent, Actors
<1>5. ActorsCoherent'
  BY <1>2, <1>4 DEF ClaimSound, ActorsCoherent
<1> QED BY <1>3, <1>5

\* No actor moves.
LEMMA WorldKeepsSound ==
  ASSUME IInv, PaymentsStay, UNCHANGED <<rows, pc, claim, todo>>
  PROVE  ActorsCoherent' /\ SamplesSound'
<1>1. ActorsCoherent'
  BY DEF IInv, ActorsCoherent, rows
<1>2. ASSUME NEW a \in Actors, pc[a] \in Claiming
      PROVE  /\ revealed_preimage(claim[a].receive) => PaidByLightning(claim[a].target)'
             /\ claim[a].ark # {} => PaidByArk(claim[a].target)'
  <2>1. claim[a].target \in Requests /\ state[claim[a].target] # "absent"
    BY <1>2 DEF IInv, TypeOK, ActorsTypeOK, Claims, ActorsCoherent
  <2> QED BY <1>2, <2>1 DEF PaymentsStay, IInv, SamplesSound, PaidByLightning, PaidByArk
<1>3. SamplesSound'
  BY <1>2 DEF SamplesSound, PaidByLightning, PaidByArk, revealed_preimage
<1> QED BY <1>1, <1>3

------------------------------------------------------------------------------
(* The inductive invariant is preserved by a step of a claim,               *)

\* The end of a claim, once it is known that rows and payments stay.
LEMMA ReturnKeepsSound ==
  ASSUME IInv, RowsStay, PaymentsStay, TypeOK', NEW a \in Actors,
         Return(a) \/ ClaimFails(a), pc[a] \in Claiming,
         UNCHANGED <<name, owner, todo>>,
         \A r \in Requests : state'[r] # "absent" => state[r] # "absent"
  PROVE  ActorsCoherent' /\ SamplesSound'
<1>1. PICK there \in {"idle", "done", "check_active"} :
        Goto(a, there) /\ (a \in Requests => there # "idle")
  BY DEF Return, ClaimFails
<1>2. \A b \in Actors : claim'[b] = IF b = a THEN NoClaim ELSE claim[b]
  BY DEF Return, ClaimFails, IInv, TypeOK, ActorsTypeOK
<1>3. ClaimSound(claim[a], there)'
  BY <1>2, NoClaimType DEF ClaimSound, Claiming
<1>4. a \in Requests => /\ name'[a] \in Names /\ owner'[a] \in Owners
                        /\ state'[a] = "absent"
  BY DEF IInv, TypeOK, ActorsCoherent, Claiming
<1>5. \A p \in todo' : state'[p] # "absent"
  BY DEF IInv, TypeOK, ActorsCoherent, RowsStay
<1>6. \A b \in Actors \ {a} : claim'[b] = claim[b]
  BY <1>2
<1> QED BY <1>1, <1>3, <1>4, <1>5, <1>6, ActorKeepsSound

\* One case per step of a claim: the two settlements rely on what the claim
\* has read (SamplesSound), the others write at most a cancellation.
LEMMA ClaimKeepsIInv ==
  ASSUME IInv, NEW a \in Actors, Claim(a)
  PROVE  IInv'
<1>0. TypeOK'
  BY ClaimType DEF IInv
<1>1. ASSUME pc[a] \in Claiming PROVE claim[a].target \in Requests /\ state[claim[a].target] # "absent"
  BY <1>1 DEF IInv, TypeOK, ActorsTypeOK, Claims, ActorsCoherent
\* The two reads.
<1>2. ASSUME UNCHANGED <<world, rows, active, todo>>, pc[a] \in Claiming,
             NEW there \in Claiming, Goto(a, there),
             \A b \in Actors \ {a} : claim'[b] = claim[b],
             claim'[a].target = claim[a].target,
             revealed_preimage(claim'[a].receive) => PaidByLightning(claim[a].target),
             claim'[a].ark # {} => PaidByArk(claim[a].target)
      PROVE  IInv'
  <2>1. Tables' /\ RowsStay /\ PaymentsStay
    BY <1>2, TablesKept, PaymentsKept DEF world, rows
  <2>2. ClaimSound(claim[a], there)'
    BY <1>1, <1>2 DEF ClaimSound, revealed_preimage, PaidByLightning, PaidByArk, world, rows
  <2>3. a \in Requests => /\ there # "idle"
                          /\ name'[a] \in Names /\ owner'[a] \in Owners
                          /\ state'[a] # "absent" => there = "done"
    BY <1>2 DEF IInv, ActorsCoherent, Claiming, rows
  <2>4. \A p \in todo' : state'[p] # "absent"
    BY <1>2 DEF IInv, ActorsCoherent, rows
  <2>5. ActorsCoherent' /\ SamplesSound'
    BY <1>0, <1>2, <2>1, <2>2, <2>3, <2>4, ActorKeepsSound DEF rows
  <2> QED BY <1>0, <2>1, <2>5 DEF IInv, Tables
<1>3. ASSUME NEW answer \in Receive, ReadStatus(a, answer) PROVE IInv'
  <2>1. /\ claim'[a].target = claim[a].target
        /\ claim'[a].receive = answer
        /\ claim'[a].ark = claim[a].ark
        /\ \A b \in Actors \ {a} : claim'[b] = claim[b]
    BY <1>3, ReceiveUpdate DEF ReadStatus, IInv, TypeOK, ActorsTypeOK
  <2>2. pc[a] \in Claiming /\ Goto(a, "read_history") /\ "read_history" \in Claiming
    BY <1>3 DEF ReadStatus, Claiming
  <2>3. revealed_preimage(answer) => PaidByLightning(claim[a].target)
    BY <1>3 DEF ReadStatus, receive_status, NoReceive, revealed_preimage, PaidByLightning, Revealed
  <2>4. claim[a].ark # {} => PaidByArk(claim[a].target)
    BY <2>2 DEF IInv, SamplesSound
  <2> QED BY <1>2, <1>3, <2>1, <2>2, <2>3, <2>4 DEF ReadStatus
<1>4. CASE ReadHistory(a)
  <2>1. pc[a] \in Claiming /\ Goto(a, "decide") /\ "decide" \in Claiming
    BY <1>4 DEF ReadHistory, Claiming
  <2> DEFINE found == received_ark_payment(claim[a].target)
  <2>2. found \in SUBSET Amounts
    BY <1>1, <2>1 DEF received_ark_payment, IInv, TypeOK
  <2>3. claim' = [claim EXCEPT ![a].ark = found] /\ claim \in [Actors -> Claims]
    BY <1>4 DEF ReadHistory, IInv, TypeOK, ActorsTypeOK
  <2>4. found # {} => PaidByArk(claim[a].target)
    BY DEF received_ark_payment, PaidByArk
  <2>5. revealed_preimage(claim[a].receive) => PaidByLightning(claim[a].target)
    BY <2>1 DEF IInv, SamplesSound
  <2> HIDE DEF found
  <2>6. /\ claim'[a].target = claim[a].target
        /\ claim'[a].receive = claim[a].receive
        /\ claim'[a].ark = found
        /\ \A b \in Actors \ {a} : claim'[b] = claim[b]
    BY <2>2, <2>3, ArkUpdate
  <2> QED BY <1>2, <1>4, <2>1, <2>4, <2>5, <2>6 DEF ReadHistory
\* The two ways to settle.
<1>5. ASSUME pc[a] \in Claiming, NEW rail \in {"lightning", "ark"},
             rail = "lightning" => PaidByLightning(claim[a].target),
             rail = "ark" => PaidByArk(claim[a].target),
             mark_settled_and_activate(claim[a].target, rail), Return(a),
             UNCHANGED <<world, name, owner, todo>>
      PROVE  IInv'
  <2>1. Tables' /\ RowsStay /\ PaymentsStay
    BY <1>1, <1>5, SettleKeepsTables, PaymentsKept DEF world
  <2>2. \A r \in Requests : state'[r] # "absent" => state[r] # "absent"
    BY <1>1, <1>5 DEF mark_settled_and_activate, mark_cancelled, IInv, TypeOK
  <2>3. ActorsCoherent' /\ SamplesSound'
    BY <1>0, <1>5, <2>1, <2>2, ReturnKeepsSound
  <2> QED BY <1>0, <2>1, <2>3 DEF IInv, Tables
<1>6. CASE SettleLightning(a)
  <2>1. pc[a] \in Claiming
    BY <1>6 DEF SettleLightning, Claiming
  <2>2. PaidByLightning(claim[a].target)
    BY <1>6, <2>1 DEF SettleLightning, IInv, SamplesSound
  <2> QED BY <1>5, <1>6, <2>1, <2>2 DEF SettleLightning
<1>7. CASE SettleArk(a)
  <2>1. pc[a] \in Claiming
    BY <1>7 DEF SettleArk, Claiming
  <2>2. PaidByArk(claim[a].target)
    BY <1>7, <2>1 DEF SettleArk, IInv, SamplesSound
  <2> QED BY <1>5, <1>7, <2>1, <2>2 DEF SettleArk
<1>8. CASE Expire(a)
  <2>1. pc[a] \in Claiming
    BY <1>8 DEF Expire, Claiming
  <2>2. Tables' /\ RowsStay /\ PaymentsStay
    BY <1>1, <1>8, <2>1, CancelKeepsTables, PaymentsKept DEF Expire, world
  <2>3. \A r \in Requests : state'[r] # "absent" => state[r] # "absent"
    BY <1>1, <1>8, <2>1 DEF Expire, mark_cancelled, IInv, TypeOK
  <2>4. ActorsCoherent' /\ SamplesSound'
    BY <1>0, <1>8, <2>1, <2>2, <2>3, ReturnKeepsSound DEF Expire
  <2> QED BY <1>0, <2>2, <2>4 DEF IInv, Tables
\* The two ways to leave without a write.
<1>9. ASSUME pc[a] \in Claiming, Return(a) \/ ClaimFails(a),
             UNCHANGED <<world, rows, active, todo>>
      PROVE  IInv'
  <2>1. Tables' /\ RowsStay /\ PaymentsStay
    BY <1>9, TablesKept, PaymentsKept DEF world, rows
  <2>2. ActorsCoherent' /\ SamplesSound'
    BY <1>0, <1>9, <2>1, ReturnKeepsSound DEF rows
  <2> QED BY <1>0, <2>1, <2>2 DEF IInv, Tables
<1>10. CASE Keep(a)
  BY <1>9, <1>10 DEF Keep, Claiming
<1>11. CASE ClaimFails(a)
  BY <1>9, <1>11 DEF ClaimFails
<1> QED BY <1>3, <1>4, <1>6, <1>7, <1>8, <1>10, <1>11 DEF Claim, ClaimWorks

------------------------------------------------------------------------------
(* by the start of a claim and by a step of a POST handler,                 *)

\* A claim that has read nothing yet is sound.
LEMMA StartKeepsSound ==
  ASSUME IInv, TypeOK', NEW a \in Actors, NEW p \in Requests, StartClaim(a, p),
         pc[a] = "idle", state[p] # "absent",
         UNCHANGED <<state, receive, movements>>, todo' \subseteq todo,
         a \in Requests => name'[a] \in Names /\ owner'[a] \in Owners,
         \A r \in Requests \ {a} : name'[r] = name[r] /\ owner'[r] = owner[r]
  PROVE  ActorsCoherent' /\ SamplesSound'
<1>1. /\ claim'[a].target = p
      /\ claim'[a].receive = NoReceive
      /\ claim'[a].ark = {}
      /\ \A b \in Actors \ {a} : claim'[b] = claim[b]
  BY StartClaimType DEF IInv, TypeOK
<1>2. ClaimSound(claim[a], "read_status")'
  BY <1>1 DEF ClaimSound, revealed_preimage, NoReceive, Revealed
<1>3. RowsStay /\ PaymentsStay
  BY PaymentsKept DEF RowsStay
<1>4. a \in Requests => state'[a] = "absent"
  BY DEF IInv, ActorsCoherent
<1>5. \A q \in todo' : state'[q] # "absent"
  BY DEF IInv, ActorsCoherent
<1> QED BY <1>1, <1>2, <1>3, <1>4, <1>5, ActorKeepsSound DEF StartClaim

\* One case per step of create_custom_address_invoice_impl.
LEMMA CreateKeepsIInv ==
  ASSUME IInv, NEW r \in Requests, Create(r)
  PROVE  IInv'
<1>0. TypeOK' /\ r \in Actors
  BY CreateType DEF IInv, Actors
\* A handler that claims nothing moves to one of its own program points.
<1>1. ASSUME pc[r] \in Creating \cup {"idle"},
             NEW there \in Creating \cup {"done"}, Goto(r, there),
             UNCHANGED <<claim, todo>>, RowsStay, PaymentsStay,
             name'[r] \in Names /\ owner'[r] \in Owners,
             state'[r] # "absent" => there = "done",
             \A q \in Requests \ {r} : /\ name'[q] = name[q] /\ owner'[q] = owner[q]
                                       /\ state'[q] # "absent" => state[q] # "absent"
      PROVE  ActorsCoherent' /\ SamplesSound'
  <2>1. pc[r] \notin Claiming /\ claim[r].target = None
    BY <1>0, <1>1 DEF Claiming, Creating, IInv, TypeOK, ActorsTypeOK
  <2>2. ClaimSound(claim[r], there)'
    BY <1>1, <2>1 DEF ClaimSound, Claiming, Creating
  <2>3. \A p \in todo' : state'[p] # "absent"
    BY <1>1 DEF IInv, TypeOK, ActorsCoherent, RowsStay
  <2>4. there # "idle"
    BY DEF Creating
  <2> QED BY <1>0, <1>1, <2>2, <2>3, <2>4, ActorKeepsSound
<1>2. ASSUME pc[r] \in Creating
      PROVE  name[r] \in Names /\ owner[r] \in Owners /\ state[r] = "absent"
  BY <1>2 DEF IInv, TypeOK, ActorsCoherent, Creating
\* ... and writes nothing but barkd's record of its own receive.
<1>3. ASSUME pc[r] \in Creating, NEW there \in Creating \cup {"done"}, Goto(r, there),
             UNCHANGED <<rows, active, claim, todo>>, PaymentsStay
      PROVE  IInv'
  <2>1. Tables' /\ RowsStay
    BY <1>3, TablesKept DEF rows
  <2>2. ActorsCoherent' /\ SamplesSound'
    BY <1>1, <1>2, <1>3, <2>1 DEF rows
  <2> QED BY <1>0, <2>1, <2>2 DEF IInv, Tables
<1>4. ASSUME NEW n \in Names, NEW o \in Owners, Begin(r, n, o) PROVE IInv'
  <2>1. /\ Tables' /\ RowsStay
        /\ \A q \in Requests \ {r} : name'[q] = name[q] /\ owner'[q] = owner[q]
        /\ name'[r] = n /\ owner'[r] = o
    BY <1>4, BeginKeepsTables
  <2>2. pc[r] = "idle" /\ UNCHANGED <<state, receive, movements, todo>>
    BY <1>4 DEF Begin, world
  <2>3. ASSUME NEW p \in Pending(n), StartClaim(r, p)
        PROVE  ActorsCoherent' /\ SamplesSound'
    <3>1. p \in Requests /\ state[p] # "absent"
      BY DEF Pending
    <3> QED BY <1>0, <2>1, <2>2, <2>3, <3>1, StartKeepsSound
  <2>4. ASSUME Goto(r, "check_active"), UNCHANGED claim
        PROVE  ActorsCoherent' /\ SamplesSound'
    <3>1. state'[r] = "absent" /\ PaymentsStay
      BY <2>2, PaymentsKept DEF IInv, ActorsCoherent
    <3>2. "check_active" \in Creating
      BY DEF Creating
    <3> QED BY <1>1, <2>1, <2>2, <2>4, <3>1, <3>2
  <2>5. ActorsCoherent' /\ SamplesSound'
    BY <1>4, <2>3, <2>4 DEF Begin
  <2> QED BY <1>0, <2>1, <2>5 DEF IInv, Tables
<1>5. CASE CheckActive(r)
  BY <1>3, <1>5, PaymentsKept DEF CheckActive, Creating, world
<1>6. CASE CheckPending(r)
  BY <1>3, <1>6, PaymentsKept DEF CheckPending, Creating, world
<1>7. CASE RequestFails(r)
  BY <1>3, <1>7, PaymentsKept DEF RequestFails, world
<1>8. CASE MakeInvoice(r)
  <2>1. state[r] = "absent" /\ pc[r] \in Creating
    BY <1>2, <1>8 DEF MakeInvoice, Creating
  <2>2. PaymentsStay
    BY <1>8, <2>1 DEF MakeInvoice, PaymentsStay, PaidByLightning, PaidByArk, IInv, TypeOK
  <2> QED BY <1>3, <1>8, <2>1, <2>2 DEF MakeInvoice, Creating
<1>9. CASE Insert(r)
  <2>1. Tables' /\ RowsStay
    BY <1>9, InsertKeepsTables
  <2>2. pc[r] \in Creating /\ Goto(r, "done") /\ UNCHANGED <<name, owner, claim, todo>>
    BY <1>9 DEF Insert, Creating
  <2>3. PaymentsStay
    BY <1>9, PaymentsKept DEF Insert, world
  <2>4. \A q \in Requests \ {r} : state'[q] = state[q]
    BY <1>9 DEF Insert, IInv, TypeOK
  <2>5. ActorsCoherent' /\ SamplesSound'
    BY <1>1, <1>2, <2>1, <2>2, <2>3, <2>4
  <2> QED BY <1>0, <2>1, <2>5 DEF IInv, Tables
<1> QED BY <1>4, <1>5, <1>6, <1>7, <1>8, <1>9 DEF Create

------------------------------------------------------------------------------
(* and by every other step.                                                 *)

\* A view, the poller's steps, a restart, time, and money that moves.
LEMMA OtherKeepsIInv ==
  ASSUME IInv,
         \/ \E v \in Viewers, p \in Requests : View(v, p)
         \/ PollList
         \/ \E p \in Requests : PollNext(p)
         \/ Crash
         \/ World
  PROVE  IInv'
<1>0. TypeOK'
  BY OtherType DEF IInv
<1>1. ASSUME UNCHANGED <<world, rows, active>>
      PROVE  Tables' /\ RowsStay /\ PaymentsStay
  BY <1>1, TablesKept, PaymentsKept DEF world, rows
<1>2. ASSUME NEW v \in Viewers, NEW p \in Requests, View(v, p) PROVE IInv'
  <2>1. v \in Actors /\ v \notin Requests
    BY ActorsAssumption DEF Actors
  <2>2. ActorsCoherent' /\ SamplesSound'
    BY <1>0, <1>2, <2>1, StartKeepsSound DEF View, world, rows
  <2> QED BY <1>0, <1>1, <1>2, <2>2 DEF View, IInv, Tables
<1>3. CASE PollList
  <2>1. ActorsCoherent' /\ SamplesSound'
    BY <1>3 DEF PollList, IInv, ActorsCoherent, SamplesSound, world, rows,
                PaidByLightning, PaidByArk, revealed_preimage
  <2> QED BY <1>0, <1>1, <1>3, <2>1 DEF PollList, IInv, Tables
<1>4. ASSUME NEW p \in Requests, PollNext(p) PROVE IInv'
  <2>1. Poller \in Actors /\ Poller \notin Requests
    BY ActorsAssumption DEF Actors
  <2>2. state[p] # "absent" /\ todo' \subseteq todo
    BY <1>4 DEF PollNext, IInv, ActorsCoherent
  <2>3. ActorsCoherent' /\ SamplesSound'
    BY <1>0, <1>4, <2>1, <2>2, StartKeepsSound DEF PollNext, world, rows
  <2> QED BY <1>0, <1>1, <1>4, <2>3 DEF PollNext, IInv, Tables
<1>5. CASE Crash
  <2>1. \A a \in Actors : claim'[a].target = None /\ pc'[a] \notin Claiming
    BY <1>5, NoClaimType DEF Crash, Claiming
  <2>2. \A r \in Requests : /\ pc'[r] # "idle" => pc[r] # "idle"
                            /\ pc[r] = "done" => pc'[r] = "done"
    BY <1>5 DEF Crash, Actors
  <2>3. ActorsCoherent' /\ SamplesSound'
    BY <1>5, <2>1, <2>2 DEF Crash, IInv, ActorsCoherent, SamplesSound, rows
  <2> QED BY <1>0, <1>1, <1>5, <2>3 DEF Crash, IInv, Tables
\* The world only adds payments.
<1>6. ASSUME UNCHANGED <<rows, active, pc, claim, todo>>, PaymentsStay PROVE IInv'
  <2>1. Tables'
    BY <1>6, TablesKept DEF rows
  <2>2. ActorsCoherent' /\ SamplesSound'
    BY <1>6, WorldKeepsSound
  <2> QED BY <1>0, <2>1, <2>2 DEF IInv, Tables
<1>7. CASE Tick
  BY <1>6, <1>7, PaymentsKept DEF Tick
<1>8. ASSUME NEW p \in Requests, BarkdMoves(p) PROVE IInv'
  <2>1. PICK phase \in NextPhases(receive[p]) : receive' = [receive EXCEPT ![p] = phase]
    BY <1>8 DEF BarkdMoves
  <2>2. receive[p] \in Revealed => phase \in Revealed
    BY <2>1 DEF NextPhases, Accepted, Revealed
  <2>3. PaymentsStay
    BY <1>8, <2>1, <2>2 DEF BarkdMoves, PaymentsStay, PaidByLightning, PaidByArk, IInv, TypeOK
  <2> QED BY <1>6, <1>8, <2>3 DEF BarkdMoves
<1>9. ASSUME NEW p \in Requests, NEW amount \in Amounts, PayArk(p, amount) PROVE IInv'
  <2>1. \A q \in Requests : movements[q] \subseteq movements'[q]
    BY <1>9 DEF PayArk, IInv, TypeOK
  <2>2. PaymentsStay
    BY <1>9, <2>1 DEF PayArk, PaymentsStay, PaidByLightning, PaidByArk
  <2> QED BY <1>6, <1>9, <2>2 DEF PayArk
<1> QED BY <1>2, <1>3, <1>4, <1>5, <1>7, <1>8, <1>9 DEF World

------------------------------------------------------------------------------
\* The invariant holds in every state of the service, for every number of
\* competing requests, viewers, names and owners.
THEOREM Inductive == Spec => []IInv
<1>1. Init => IInv
  <2> SUFFICES ASSUME Init PROVE IInv
    OBVIOUS
  <2>1. TypeOK
    BY PhasesAssumption, NumbersAssumption, NoClaimType, ActorsAssumption
       DEF Init, TypeOK, ActorsTypeOK, Claiming, Creating, Actors
  <2>2. ActorsCoherent /\ SamplesSound
    BY NoClaimType DEF Init, ActorsCoherent, SamplesSound, Claiming, Actors
  <2>3. OnePendingPerName /\ ActiveIffSettled /\ SettledWasPaid
    BY DEF Init, OnePendingPerName, ActiveIffSettled, SettledWasPaid
  <2> QED BY <2>1, <2>2, <2>3 DEF IInv
<1>2. IInv /\ [Next]_vars => IInv'
  <2> SUFFICES ASSUME IInv, [Next]_vars PROVE IInv'
    OBVIOUS
  <2>1. CASE UNCHANGED vars
    <3>1. TypeOK'
      BY <2>1 DEF IInv, TypeOK, ActorsTypeOK, vars, world, rows
    <3>2. Tables'
      BY <2>1, TablesKept, PaymentsKept DEF vars, world, rows
    <3>3. ActorsCoherent' /\ SamplesSound'
      BY <2>1, WorldKeepsSound, PaymentsKept DEF vars, world
    <3> QED BY <3>1, <3>2, <3>3 DEF IInv, Tables
  <2> QED BY <2>1, ClaimKeepsIInv, CreateKeepsIInv, OtherKeepsIInv DEF Next
<1> QED BY <1>1, <1>2, PTL DEF Spec

\* A name has one settled purchase at most, and is active exactly if it has
\* one, for that purchase's owner.
THEOREM NamesGoToTheirBuyers == Spec => []ActiveIffSettled
BY Inductive, PTL DEF IInv

\* No purchase is ever settled that has not been paid on the rail it is
\* settled by, whatever the actors had read before.
THEOREM NothingIsGivenAway == Spec => []SettledWasPaid
BY Inductive, PTL DEF IInv

------------------------------------------------------------------------------
(* Accepted payments.                                                       *)

\* One actor moves, and if it now holds an answer about p, that answer does
\* not let p expire.
LEMMA NoNewExpiry ==
  ASSUME IInv, NEW p \in Requests, ~ExpiryInFlight(p),
         NEW a \in Actors, NEW there, Goto(a, there),
         \A b \in Actors \ {a} : claim'[b] = claim[b],
         there \in {"read_history", "decide"} /\ claim'[a].target = p
           => ~MayExpire(claim'[a].receive)
  PROVE  ~ExpiryInFlight(p)'
<1>1. \A b \in Actors : pc'[b] = IF b = a THEN there ELSE pc[b]
  BY DEF Goto, IInv, TypeOK, ActorsTypeOK
<1>2. ASSUME NEW b \in Actors, pc'[b] \in {"read_history", "decide"}, claim'[b].target = p
      PROVE  ~MayExpire(claim'[b].receive)
  BY <1>1, <1>2 DEF ExpiryInFlight
<1> QED BY <1>2 DEF ExpiryInFlight, MayExpire, receive_allows_expiry

\* Where p's row, its name and its receive stay, p stays claimable.
LEMMA ClaimableKept ==
  ASSUME NEW p \in Requests, Claimable(p), ~ExpiryInFlight(p)',
         state'[p] = state[p], name'[p] = name[p],
         active'[name[p]] = active[name[p]], receive'[p] = receive[p]
  PROVE  Claimable(p)'
BY DEF Claimable

\* A step of any claim leaves a claimable purchase claimable or settles it: no
\* claim may expire it, and its name is free.
LEMMA ClaimIsSafe ==
  ASSUME IInv, NEW p \in Requests, Claimable(p), NEW a \in Actors, Claim(a)
  PROVE  Claimable(p)' \/ state'[p] = "settled"
<1>0. ~ExpiryInFlight(p)
  BY DEF Claimable
<1>1. ASSUME Return(a) \/ ClaimFails(a) PROVE ~ExpiryInFlight(p)'
  <2>1. \A b \in Actors \ {a} : claim'[b] = claim[b]
    BY <1>1 DEF Return, ClaimFails, IInv, TypeOK, ActorsTypeOK
  <2>2. PICK there \in {"idle", "done", "check_active"} : Goto(a, there)
    BY <1>1 DEF Return, ClaimFails
  <2> QED BY <1>0, <2>1, <2>2, NoNewExpiry
<1>2. ASSUME NEW answer \in Receive, ReadStatus(a, answer) PROVE Claimable(p)'
  <2>1. /\ claim'[a].target = claim[a].target
        /\ claim'[a].receive = answer
        /\ \A b \in Actors \ {a} : claim'[b] = claim[b]
    BY <1>2, ReceiveUpdate DEF ReadStatus, IInv, TypeOK, ActorsTypeOK
  <2>2. claim[a].target = p => answer.phase \in InProgress
    BY <1>2 DEF ReadStatus, receive_status, NoReceive, Claimable, InProgress, Accepted, Revealed
  <2>3. claim'[a].target = p => ~MayExpire(claim'[a].receive)
    BY <2>1, <2>2 DEF MayExpire, receive_allows_expiry, InProgress, Accepted, Revealed
  <2>4. ~ExpiryInFlight(p)'
    BY <1>0, <1>2, <2>1, <2>3, NoNewExpiry DEF ReadStatus
  <2> QED BY <1>2, <2>4, ClaimableKept DEF ReadStatus, world, rows
<1>3. CASE ReadHistory(a)
  <2> DEFINE found == received_ark_payment(claim[a].target)
  <2>1. found \in SUBSET Amounts
    BY <1>3 DEF ReadHistory, received_ark_payment, IInv, TypeOK, ActorsTypeOK, Claiming, Claims
  <2>2. claim' = [claim EXCEPT ![a].ark = found] /\ claim \in [Actors -> Claims]
    BY <1>3 DEF ReadHistory, IInv, TypeOK, ActorsTypeOK
  <2> HIDE DEF found
  <2>3. /\ claim'[a].target = claim[a].target
        /\ claim'[a].receive = claim[a].receive
        /\ \A b \in Actors \ {a} : claim'[b] = claim[b]
    BY <2>1, <2>2, ArkUpdate
  <2>4. claim'[a].target = p => ~MayExpire(claim'[a].receive)
    BY <1>0, <1>3, <2>3 DEF ReadHistory, ExpiryInFlight
  <2>5. ~ExpiryInFlight(p)'
    BY <1>0, <1>3, <2>3, <2>4, NoNewExpiry DEF ReadHistory
  <2> QED BY <1>3, <2>5, ClaimableKept DEF ReadHistory, world, rows
\* Settling another purchase cannot touch p: no other pending one has its name.
<1>4. ASSUME pc[a] \in Claiming, NEW rail, mark_settled_and_activate(claim[a].target, rail),
             Return(a), UNCHANGED <<world, name>>
      PROVE  Claimable(p)' \/ state'[p] = "settled"
  <2> DEFINE q == claim[a].target
  <2>1. q \in Requests
    BY <1>4 DEF IInv, TypeOK, ActorsTypeOK, Claims
  <2>2. CASE q = p
    BY <1>4, <2>1, <2>2 DEF mark_settled_and_activate, Claimable, IInv, TypeOK
  <2>3. CASE q # p
    <3>1. state'[p] = state[p]
      BY <1>4, <2>1, <2>3 DEF mark_settled_and_activate, mark_cancelled, IInv, TypeOK
    <3>2. state[q] = "pending" => name[q] # name[p]
      BY <2>1, <2>3 DEF Claimable, IInv, OnePendingPerName
    <3>3. name[p] \in Names
      BY DEF Claimable, IInv, ActorsCoherent
    <3>4. active'[name[p]] = active[name[p]]
      BY <1>4, <3>2, <3>3 DEF mark_settled_and_activate, IInv, TypeOK
    <3> QED BY <1>1, <1>4, <3>1, <3>4, ClaimableKept DEF world
  <2> QED BY <2>2, <2>3
<1>5. CASE SettleLightning(a)
  BY <1>4, <1>5 DEF SettleLightning, Claiming
<1>6. CASE SettleArk(a)
  BY <1>4, <1>6 DEF SettleArk, Claiming
\* p cannot be the one that expires: a claim holding such an answer about p
\* would be in flight.
<1>7. CASE Expire(a)
  <2>1. claim[a].target \in Requests /\ claim[a].target # p
    BY <1>0, <1>7 DEF Expire, ExpiryInFlight, IInv, TypeOK, ActorsTypeOK, Claiming, Claims
  <2>2. state'[p] = state[p]
    BY <1>7, <2>1 DEF Expire, mark_cancelled, IInv, TypeOK
  <2> QED BY <1>1, <1>7, <2>2, ClaimableKept DEF Expire, world
<1>8. CASE Keep(a)
  BY <1>1, <1>8, ClaimableKept DEF Keep, world, rows
<1>9. CASE ClaimFails(a)
  BY <1>1, <1>9, ClaimableKept DEF ClaimFails, world, rows
<1> QED BY <1>2, <1>3, <1>5, <1>6, <1>7, <1>8, <1>9 DEF Claim, ClaimWorks

\* So does a step of a POST handler, even one that competes for its name.
LEMMA CreateIsSafe ==
  ASSUME IInv, NEW p \in Requests, Claimable(p), NEW r \in Requests, Create(r)
  PROVE  Claimable(p)'
<1>0. ~ExpiryInFlight(p) /\ pc[p] = "done" /\ r \in Actors
  BY DEF Claimable, IInv, ActorsCoherent, Actors
<1>1. ASSUME NEW there \in Creating \cup {"done"}, Goto(r, there), UNCHANGED claim
      PROVE  ~ExpiryInFlight(p)'
  BY <1>0, <1>1, NoNewExpiry DEF Creating
<1>2. ASSUME NEW n \in Names, NEW o \in Owners, Begin(r, n, o) PROVE Claimable(p)'
  <2>1. r # p
    BY <1>0, <1>2 DEF Begin
  <2>2. name'[p] = name[p]
    BY <1>2, <2>1 DEF Begin, IInv, TypeOK
  <2>3. ASSUME NEW q \in Pending(n), StartClaim(r, q) PROVE ~ExpiryInFlight(p)'
    <3>1. \A b \in Actors \ {r} : claim'[b] = claim[b]
      BY <1>0, <2>3, StartClaimType DEF IInv, TypeOK, Pending
    <3> QED BY <1>0, <2>3, <3>1, NoNewExpiry DEF StartClaim
  <2>4. ~ExpiryInFlight(p)'
    BY <1>1, <1>2, <2>3 DEF Begin, Creating
  <2> QED BY <1>2, <2>2, <2>4, ClaimableKept DEF Begin, world
<1>3. CASE CheckActive(r)
  BY <1>1, <1>3, ClaimableKept DEF CheckActive, Creating, world, rows
<1>4. CASE CheckPending(r)
  BY <1>1, <1>4, ClaimableKept DEF CheckPending, Creating, world, rows
<1>5. CASE RequestFails(r)
  BY <1>1, <1>5, ClaimableKept DEF RequestFails, world, rows
<1>6. CASE MakeInvoice(r)
  <2>1. receive'[p] = receive[p]
    BY <1>0, <1>6 DEF MakeInvoice, IInv, TypeOK
  <2> QED BY <1>1, <1>6, <2>1, ClaimableKept DEF MakeInvoice, Creating, rows
<1>7. CASE Insert(r)
  <2>1. state'[p] = state[p]
    BY <1>0, <1>7 DEF Insert, IInv, TypeOK
  <2> QED BY <1>1, <1>7, <2>1, ClaimableKept DEF Insert, world
<1> QED BY <1>2, <1>3, <1>4, <1>5, <1>6, <1>7 DEF Create

\* So does every other step, but for barkd giving up the payment itself.
LEMMA OtherIsSafe ==
  ASSUME IInv, NEW p \in Requests, Claimable(p),
         \/ \E v \in Viewers, q \in Requests : View(v, q)
         \/ PollList
         \/ \E q \in Requests : PollNext(q)
         \/ Crash
         \/ World
         \/ UNCHANGED vars
  PROVE  Claimable(p)' \/ receive'[p] = "missing"
<1>0. ~ExpiryInFlight(p)
  BY DEF Claimable
<1>1. ASSUME UNCHANGED <<pc, claim>> PROVE ~ExpiryInFlight(p)'
  BY <1>0, <1>1 DEF ExpiryInFlight, MayExpire, receive_allows_expiry
<1>2. ASSUME NEW a \in Actors, NEW q \in Requests, StartClaim(a, q)
      PROVE  ~ExpiryInFlight(p)'
  <2>1. \A b \in Actors \ {a} : claim'[b] = claim[b]
    BY <1>2, StartClaimType DEF IInv, TypeOK
  <2> QED BY <1>0, <1>2, <2>1, NoNewExpiry DEF StartClaim
<1>3. ASSUME NEW v \in Viewers, NEW q \in Requests, View(v, q) PROVE Claimable(p)'
  BY <1>2, <1>3, ClaimableKept DEF View, Actors, world, rows
<1>4. CASE PollList
  BY <1>1, <1>4, ClaimableKept DEF PollList, world, rows
<1>5. ASSUME NEW q \in Requests, PollNext(q) PROVE Claimable(p)'
  BY <1>2, <1>5, ClaimableKept DEF PollNext, Actors, world, rows
<1>6. CASE Crash
  <2>1. ~ExpiryInFlight(p)'
    BY <1>6 DEF Crash, ExpiryInFlight
  <2> QED BY <1>6, <2>1, ClaimableKept DEF Crash, world, rows
<1>7. CASE Tick
  BY <1>1, <1>7, ClaimableKept DEF Tick, rows
<1>8. ASSUME NEW q \in Requests, BarkdMoves(q)
      PROVE  Claimable(p)' \/ receive'[p] = "missing"
  <2>1. PICK phase \in NextPhases(receive[q]) : receive' = [receive EXCEPT ![q] = phase]
    BY <1>8 DEF BarkdMoves
  <2>2. receive'[p] \in InProgress \cup {"missing"}
    BY <2>1 DEF NextPhases, Claimable, InProgress, Accepted, Revealed, IInv, TypeOK
  <2> QED BY <1>1, <1>8, <2>2 DEF BarkdMoves, Claimable, rows
<1>9. ASSUME NEW q \in Requests, NEW amount \in Amounts, PayArk(q, amount)
      PROVE  Claimable(p)'
  BY <1>1, <1>9, ClaimableKept DEF PayArk, rows
<1>10. CASE UNCHANGED vars
  BY <1>1, <1>10, ClaimableKept DEF vars, world, rows
<1> QED BY <1>3, <1>4, <1>5, <1>6, <1>7, <1>8, <1>9, <1>10 DEF World

\* A purchase whose payment barkd has accepted, and about which no older answer
\* is in flight, is not lost: expiry, competing requests, failures and crashes
\* leave it claimable until it is settled or barkd gives the payment up.
THEOREM AcceptedPaymentsAreSafe == Spec => AcceptedPaymentSafe
<1> DEFINE Safe == \A p \in Requests :
             Claimable(p) => \/ Claimable(p)'
                             \/ state'[p] = "settled"
                             \/ receive'[p] = "missing"
<1>1. IInv /\ [Next]_vars => [Safe]_vars
  <2> SUFFICES ASSUME IInv, [Next]_vars, NEW p \in Requests, Claimable(p)
               PROVE  \/ Claimable(p)'
                      \/ state'[p] = "settled"
                      \/ receive'[p] = "missing"
    OBVIOUS
  <2> QED BY ClaimIsSafe, CreateIsSafe, OtherIsSafe DEF Next
<1> QED BY <1>1, Inductive, PTL DEF Spec, AcceptedPaymentSafe

------------------------------------------------------------------------------
(* The service implements the name registry.                                *)

\* Nothing is paid for a purchase that is not in the table yet.
AbsentUnpaid == \A p \in Requests : state[p] = "absent" => ~Paid(p)

\* Steps that leave every payment and every row's presence alone.
LEMMA AbsentUnpaidKept ==
  ASSUME AbsentUnpaid, UNCHANGED <<receive, movements>>,
         \A p \in Requests : state'[p] = "absent" => state[p] = "absent"
  PROVE  AbsentUnpaid' /\ UNCHANGED PaidPurchases
BY DEF AbsentUnpaid, Paid, PaidPurchases, PaidByLightning, PaidByArk

\* A name's holder changes only with a pending purchase of the name, or with
\* the name itself.
LEMMA HolderKept ==
  ASSUME NEW n \in Names, active'[n] = active[n],
         \A p \in Requests :
           (name'[p] = n /\ state'[p] = "pending") <=> (name[p] = n /\ state[p] = "pending"),
         \A p \in Requests : state[p] = "pending" => owner'[p] = owner[p]
  PROVE  HolderOf(n)' = HolderOf(n)
<1>1. Pending(n)' = Pending(n)
  BY DEF Pending
<1>2. \A p \in Pending(n) : owner'[p] = owner[p]
  BY DEF Pending
<1> QED BY <1>1, <1>2 DEF HolderOf

\* The holder of a name is a matter of the two tables.
LEMMA ReservedKept ==
  ASSUME UNCHANGED <<name, owner, state, active>>
  PROVE  UNCHANGED Reserved
BY DEF Reserved, HolderOf, Pending

\* The purchase that holds a name is its only holder.
LEMMA OnlyHolder ==
  ASSUME IInv, NEW p \in Requests, state[p] = "pending", active[name[p]] = None
  PROVE  HolderOf(name[p]) = {[purchase |-> p, owner |-> owner[p]]}
<1>1. Pending(name[p]) = {p}
  BY DEF Pending, IInv, OnePendingPerName
<1> QED BY <1>1 DEF HolderOf

\* A pending purchase p leaves that state, and its name goes to its owner, if
\* it is activated, or becomes free.
LEMMA HolderLeaves ==
  ASSUME IInv, NEW p \in Requests, state[p] = "pending", state'[p] # "pending",
         \A q \in Requests \ {p} : state'[q] = state[q],
         UNCHANGED <<name, owner>>,
         \A n \in Names \ {name[p]} : active'[n] = active[n]
  PROVE  Reserved' = [Reserved EXCEPT ![name[p]] = {}]
<1>1. Pending(name[p])' = {}
  BY DEF Pending, IInv, OnePendingPerName
<1>2. HolderOf(name[p])' = {}
  BY <1>1 DEF HolderOf
<1>3. ASSUME NEW n \in Names \ {name[p]} PROVE HolderOf(n)' = HolderOf(n)
  BY <1>3, HolderKept
<1> QED BY <1>2, <1>3 DEF Reserved

\* Cancelling a purchase releases its name if it holds it.
LEMMA CancelRefines ==
  ASSUME IInv, NEW p \in Requests, state[p] # "absent", mark_cancelled(p),
         UNCHANGED <<name, owner, active>>, UNCHANGED PaidPurchases
  PROVE  Registry!Next \/ UNCHANGED Registry!vars
<1>1. name[p] \in Names
  BY DEF IInv, ActorsCoherent
<1>2. CASE state[p] = "pending"
  <2>1. state'[p] = "cancelled" /\ \A q \in Requests \ {p} : state'[q] = state[q]
    BY <1>2 DEF mark_cancelled, IInv, TypeOK
  <2>2. Reserved' = [Reserved EXCEPT ![name[p]] = {}]
    BY <1>2, <2>1, HolderLeaves
  <2>3. Registry!Release(name[p])
    BY <2>2 DEF Registry!Release
  <2> QED BY <1>1, <2>3 DEF Registry!Next
<1>3. CASE state[p] # "pending"
  <2>1. UNCHANGED state
    BY <1>3 DEF mark_cancelled, IInv, TypeOK
  <2> QED BY <2>1, ReservedKept DEF Registry!vars
<1> QED BY <1>2, <1>3

\* A settlement is an activation of the name by its holder, a cancellation, or
\* nothing.
LEMMA SettleRefines ==
  ASSUME IInv, NEW p \in Requests, state[p] # "absent", Paid(p), NEW rail,
         mark_settled_and_activate(p, rail),
         UNCHANGED <<name, owner>>, UNCHANGED PaidPurchases
  PROVE  Registry!Next \/ UNCHANGED Registry!vars
<1>1. CASE active[name[p]] # None /\ mark_cancelled(p) /\ UNCHANGED <<via, active>>
  BY <1>1, CancelRefines
<1>2. CASE UNCHANGED <<state, via, active>>
  BY <1>2, ReservedKept DEF Registry!vars
<1>3. CASE /\ active[name[p]] = None
           /\ state[p] = "pending"
           /\ state' = [state EXCEPT ![p] = "settled"]
           /\ active' = [active EXCEPT ![name[p]] = owner[p]]
  <2> DEFINE h == [purchase |-> p, owner |-> owner[p]]
  <2>1. name[p] \in Names /\ owner[p] \in Owners
    BY <1>3 DEF IInv, ActorsCoherent
  <2>2. Reserved[name[p]] = {h}
    BY <1>3, <2>1, OnlyHolder DEF Reserved
  <2>3. /\ state'[p] = "settled"
        /\ \A q \in Requests \ {p} : state'[q] = state[q]
        /\ \A n \in Names \ {name[p]} : active'[n] = active[n]
    BY <1>3 DEF IInv, TypeOK
  <2>4. Reserved' = [Reserved EXCEPT ![name[p]] = {}]
    BY <1>3, <2>3, HolderLeaves
  <2>5. h.purchase \in PaidPurchases /\ h \in Registry!Holders
    BY <2>1 DEF PaidPurchases, Registry!Holders
  <2>6. Registry!Activate(name[p], h)
    BY <1>3, <2>2, <2>4, <2>5 DEF Registry!Activate
  <2> QED BY <2>1, <2>5, <2>6 DEF Registry!Next
<1> QED BY <1>1, <1>2, <1>3 DEF mark_settled_and_activate

\* A step of a claim is a step of the registry, or hidden from it.
LEMMA ClaimRefines ==
  ASSUME IInv, AbsentUnpaid, NEW a \in Actors, Claim(a)
  PROVE  AbsentUnpaid' /\ (Registry!Next \/ UNCHANGED Registry!vars)
<1>1. ASSUME pc[a] \in Claiming
      PROVE  claim[a].target \in Requests /\ state[claim[a].target] # "absent"
  BY <1>1 DEF IInv, TypeOK, ActorsTypeOK, Claims, ActorsCoherent
<1>2. ASSUME UNCHANGED <<world, rows, active>>
      PROVE  AbsentUnpaid' /\ UNCHANGED Registry!vars
  BY <1>2, AbsentUnpaidKept, ReservedKept DEF world, rows, Registry!vars
<1>3. ASSUME pc[a] \in Claiming, Paid(claim[a].target), NEW rail,
             mark_settled_and_activate(claim[a].target, rail),
             UNCHANGED <<world, name, owner>>
      PROVE  AbsentUnpaid' /\ (Registry!Next \/ UNCHANGED Registry!vars)
  <2>1. \A p \in Requests : state'[p] = "absent" => state[p] = "absent"
    BY <1>1, <1>3 DEF mark_settled_and_activate, mark_cancelled, IInv, TypeOK
  <2>2. AbsentUnpaid' /\ UNCHANGED PaidPurchases
    BY <1>3, <2>1, AbsentUnpaidKept DEF world
  <2> QED BY <1>1, <1>3, <2>2, SettleRefines
<1>4. CASE SettleLightning(a)
  <2>1. pc[a] \in Claiming
    BY <1>4 DEF SettleLightning, Claiming
  <2>2. Paid(claim[a].target)
    BY <1>4, <2>1 DEF SettleLightning, Paid, IInv, SamplesSound
  <2> QED BY <1>3, <1>4, <2>1, <2>2 DEF SettleLightning
<1>5. CASE SettleArk(a)
  <2>1. pc[a] \in Claiming
    BY <1>5 DEF SettleArk, Claiming
  <2>2. Paid(claim[a].target)
    BY <1>5, <2>1 DEF SettleArk, Paid, IInv, SamplesSound
  <2> QED BY <1>3, <1>5, <2>1, <2>2 DEF SettleArk
<1>6. CASE Expire(a)
  <2>1. pc[a] \in Claiming
    BY <1>6 DEF Expire, Claiming
  <2>2. \A p \in Requests : state'[p] = "absent" => state[p] = "absent"
    BY <1>1, <1>6, <2>1 DEF Expire, mark_cancelled, IInv, TypeOK
  <2>3. AbsentUnpaid' /\ UNCHANGED PaidPurchases
    BY <1>6, <2>2, AbsentUnpaidKept DEF Expire, world
  <2> QED BY <1>1, <1>6, <2>1, <2>3, CancelRefines DEF Expire
<1> QED
  BY <1>2, <1>4, <1>5, <1>6 DEF Claim, ClaimWorks, ReadStatus, ReadHistory, Keep, ClaimFails

\* A POST handler reserves a name when it inserts its purchase, and does nothing
\* the registry sees before.
LEMMA CreateRefines ==
  ASSUME IInv, AbsentUnpaid, NEW r \in Requests, Create(r)
  PROVE  AbsentUnpaid' /\ (Registry!Next \/ UNCHANGED Registry!vars)
<1>1. ASSUME UNCHANGED <<world, rows, active>>
      PROVE  AbsentUnpaid' /\ UNCHANGED Registry!vars
  BY <1>1, AbsentUnpaidKept, ReservedKept DEF world, rows, Registry!vars
<1>2. ASSUME pc[r] \in Creating \cup {"idle"} PROVE state[r] = "absent"
  BY <1>2 DEF IInv, TypeOK, ActorsCoherent, Creating
<1>3. ASSUME NEW n \in Names, NEW o \in Owners, Begin(r, n, o)
      PROVE  AbsentUnpaid' /\ UNCHANGED Registry!vars
  <2>1. state[r] = "absent" /\ UNCHANGED <<state, active, receive, movements>>
    BY <1>2, <1>3 DEF Begin, world
  <2>2. \A q \in Requests \ {r} : name'[q] = name[q] /\ owner'[q] = owner[q]
    BY <1>3, BeginKeepsTables
  <2>3. UNCHANGED Reserved
    BY <2>1, <2>2, HolderKept DEF Reserved
  <2> QED BY <2>1, <2>3, AbsentUnpaidKept DEF Registry!vars
<1>4. CASE MakeInvoice(r)
  <2>1. state[r] = "absent" /\ UNCHANGED <<movements, state>> /\ UNCHANGED Reserved /\ UNCHANGED active
    BY <1>2, <1>4, ReservedKept DEF MakeInvoice, rows, Creating
  <2>2. receive'[r] \notin Revealed /\ \A q \in Requests \ {r} : receive'[q] = receive[q]
    BY <1>4 DEF MakeInvoice, IInv, TypeOK, Revealed
  <2>3. \A q \in Requests : Paid(q)' <=> Paid(q)
    BY <2>1, <2>2 DEF Paid, PaidByLightning, PaidByArk, AbsentUnpaid
  <2> QED BY <2>1, <2>3 DEF AbsentUnpaid, PaidPurchases, Registry!vars
<1>5. CASE Insert(r)
  <2>1. /\ state[r] = "absent"
        /\ UNCHANGED <<name, owner, active, receive, movements>>
        /\ name[r] \in Names /\ owner[r] \in Owners
    BY <1>2, <1>5 DEF Insert, world, Creating, IInv, ActorsCoherent
  <2>2. CASE UNCHANGED state
    BY <2>1, <2>2, AbsentUnpaidKept, ReservedKept DEF Registry!vars
  <2>3. CASE Pending(name[r]) = {} /\ state' = [state EXCEPT ![r] = "pending"]
    <3> DEFINE h == [purchase |-> r, owner |-> owner[r]]
    <3>1. state'[r] = "pending" /\ \A q \in Requests \ {r} : state'[q] = state[q]
      BY <2>3 DEF IInv, TypeOK
    <3>2. AbsentUnpaid' /\ UNCHANGED PaidPurchases
      BY <2>1, <3>1, AbsentUnpaidKept
    <3>3. \A n \in Names \ {name[r]} : HolderOf(n)' = HolderOf(n)
      BY <2>1, <3>1, HolderKept
    <3>4. Pending(name[r])' = {r}
      BY <2>1, <2>3, <3>1 DEF Pending
    <3>5. HolderOf(name[r]) = {}
      BY <2>3 DEF HolderOf
    <3>6. CASE active[name[r]] = None
      <4>1. HolderOf(name[r])' = {h}
        BY <2>1, <3>4, <3>6 DEF HolderOf
      <4>2. Reserved' = [Reserved EXCEPT ![name[r]] = {h}] /\ Reserved[name[r]] = {}
        BY <2>1, <3>3, <3>5, <4>1 DEF Reserved
      <4>3. h \in Registry!Holders
        BY <2>1 DEF Registry!Holders
      <4>4. Registry!Reserve(name[r], h)
        BY <2>1, <3>2, <3>6, <4>2 DEF Registry!Reserve
      <4> QED BY <2>1, <3>2, <4>3, <4>4 DEF Registry!Next
    \* Its name has been taken since its handler looked: it holds nothing.
    <3>7. CASE active[name[r]] # None
      <4>1. HolderOf(name[r])' = {}
        BY <2>1, <3>7 DEF HolderOf
      <4>2. \A n \in Names : HolderOf(n)' = HolderOf(n)
        BY <2>1, <3>3, <3>5, <4>1
      <4>3. UNCHANGED Reserved
        BY <4>2 DEF Reserved
      <4> QED BY <2>1, <3>2, <4>3 DEF Registry!vars
    <3> QED BY <3>6, <3>7
  <2> QED BY <1>5, <2>2, <2>3 DEF Insert
<1> QED
  BY <1>1, <1>3, <1>4, <1>5 DEF Create, CheckActive, CheckPending, RequestFails

\* Of the other steps only money that moves is seen by the registry.
LEMMA OtherRefines ==
  ASSUME IInv, AbsentUnpaid,
         \/ \E v \in Viewers, p \in Requests : View(v, p)
         \/ PollList
         \/ \E p \in Requests : PollNext(p)
         \/ Crash
         \/ World
         \/ UNCHANGED vars
  PROVE  AbsentUnpaid' /\ (Registry!Next \/ UNCHANGED Registry!vars)
<1>1. ASSUME UNCHANGED <<receive, movements, rows, active>>
      PROVE  AbsentUnpaid' /\ UNCHANGED Registry!vars
  BY <1>1, AbsentUnpaidKept, ReservedKept DEF rows, Registry!vars
\* Money for one purchase in the table.
<1>2. ASSUME UNCHANGED <<rows, active>>, NEW p \in Requests, state[p] # "absent",
             PaidPurchases' \in {PaidPurchases, PaidPurchases \cup {p}}
      PROVE  AbsentUnpaid' /\ (Registry!Next \/ UNCHANGED Registry!vars)
  <2>1. UNCHANGED Reserved
    BY <1>2, ReservedKept DEF rows
  <2>2. AbsentUnpaid'
    BY <1>2 DEF AbsentUnpaid, PaidPurchases, rows
  <2>3. CASE PaidPurchases' = PaidPurchases
    BY <1>2, <2>1, <2>2, <2>3 DEF Registry!vars
  <2>4. CASE PaidPurchases' = PaidPurchases \cup {p}
    BY <1>2, <2>1, <2>2, <2>4 DEF Registry!Next, Registry!Pay
  <2> QED BY <1>2, <2>3, <2>4
<1>3. ASSUME NEW p \in Requests, BarkdMoves(p)
      PROVE  AbsentUnpaid' /\ (Registry!Next \/ UNCHANGED Registry!vars)
  <2>1. PICK phase \in NextPhases(receive[p]) : receive' = [receive EXCEPT ![p] = phase]
    BY <1>3 DEF BarkdMoves
  <2>2. receive[p] \in Revealed => phase \in Revealed
    BY <2>1 DEF NextPhases, Accepted, Revealed
  <2>3. \A q \in Requests \ {p} : Paid(q)' <=> Paid(q)
    BY <1>3, <2>1 DEF BarkdMoves, Paid, PaidByLightning, PaidByArk, IInv, TypeOK
  <2>4. Paid(p) => Paid(p)'
    BY <1>3, <2>1, <2>2 DEF BarkdMoves, Paid, PaidByLightning, PaidByArk, IInv, TypeOK
  <2>5. PaidPurchases' \in {PaidPurchases, PaidPurchases \cup {p}}
    BY <2>3, <2>4 DEF PaidPurchases
  <2> QED BY <1>2, <1>3, <2>5 DEF BarkdMoves
<1>4. ASSUME NEW p \in Requests, NEW amount \in Amounts, PayArk(p, amount)
      PROVE  AbsentUnpaid' /\ (Registry!Next \/ UNCHANGED Registry!vars)
  <2>1. /\ \A q \in Requests \ {p} : movements'[q] = movements[q]
        /\ movements[p] \subseteq movements'[p]
        /\ UNCHANGED receive
    BY <1>4 DEF PayArk, IInv, TypeOK
  <2>2. \A q \in Requests \ {p} : Paid(q)' <=> Paid(q)
    BY <2>1 DEF Paid, PaidByLightning, PaidByArk
  <2>3. Paid(p) => Paid(p)'
    BY <2>1 DEF Paid, PaidByLightning, PaidByArk
  <2>4. PaidPurchases' \in {PaidPurchases, PaidPurchases \cup {p}}
    BY <2>2, <2>3 DEF PaidPurchases
  <2> QED BY <1>2, <1>4, <2>4 DEF PayArk
<1>5. CASE \/ \E v \in Viewers, p \in Requests : View(v, p)
           \/ PollList
           \/ \E p \in Requests : PollNext(p)
           \/ Crash
           \/ Tick
           \/ UNCHANGED vars
  BY <1>1, <1>5 DEF View, PollList, PollNext, Crash, Tick, vars, world, rows
<1> QED BY <1>3, <1>4, <1>5 DEF World

\* Every step of the service is a step of the registry, or hidden from it.
LEMMA StepRefines ==
  ASSUME IInv, AbsentUnpaid, [Next]_vars
  PROVE  AbsentUnpaid' /\ (Registry!Next \/ UNCHANGED Registry!vars)
BY ClaimRefines, CreateRefines, OtherRefines DEF Next

\* Nothing is reserved, owned or paid for at first.
LEMMA InitRefines == Init => Registry!Init /\ AbsentUnpaid
<1> SUFFICES ASSUME Init PROVE Registry!Init /\ AbsentUnpaid
  OBVIOUS
<1>1. \A p \in Requests : ~Paid(p)
  BY DEF Init, Paid, PaidByLightning, PaidByArk, Revealed
<1>2. Reserved = [n \in Names |-> {}]
  BY DEF Init, Reserved, HolderOf, Pending
<1> QED BY <1>1, <1>2 DEF Init, Registry!Init, AbsentUnpaid, PaidPurchases

\* Every behaviour of the service is one of the name registry: a name is
\* reserved by one purchase at a time, goes to it only when it is paid, and is
\* never given to another.
THEOREM RefinesNameRegistry == Spec => ImplementsNameRegistry
<1>1. IInv /\ AbsentUnpaid /\ [Next]_vars => AbsentUnpaid' /\ [Registry!Next]_(Registry!vars)
  BY StepRefines
<1> QED BY <1>1, InitRefines, Inductive, PTL DEF Spec, ImplementsNameRegistry, Registry!Spec

\* A name has one holder at a time, whatever the handlers that compete for it
\* have read before they insert, and none once it is owned.
THEOREM NamesHaveOneHolder == Spec => []Registry!OneHolder
<1>1. IInv => Registry!OneHolder
  <2> SUFFICES ASSUME IInv, NEW n \in Names
               PROVE  /\ \A h, i \in HolderOf(n) : h = i
                      /\ active[n] # None => HolderOf(n) = {}
    BY DEF Registry!OneHolder, Reserved
  <2>1. \A p, q \in Pending(n) : p = q
    BY DEF Pending, IInv, OnePendingPerName
  <2> QED BY <2>1 DEF HolderOf
<1> QED BY <1>1, Inductive, PTL

\* A name that has been activated points to its owner for ever: no later
\* purchase, no late settlement and no restart frees it or gives it away.
THEOREM OwnersAreForEver == Spec => Registry!OwnedForEver
<1>1. IInv /\ [Registry!Next]_(Registry!vars) => [Registry!KeepsOwners]_(Registry!vars)
  BY DEF Registry!Next, Registry!Pay, Registry!Reserve, Registry!Release,
         Registry!Activate, Registry!vars, Registry!KeepsOwners, IInv, TypeOK
<1> QED BY <1>1, RefinesNameRegistry, Inductive, PTL
       DEF ImplementsNameRegistry, Registry!Spec, Registry!OwnedForEver

\* A name is activated only for the one purchase that held it in the state
\* before, with the address that purchase asked for and its fee paid.
THEOREM NamesAreBoughtByHolders == Spec => Registry!OnlyHoldersBuy
<1>1. IInv /\ [Registry!Next]_(Registry!vars) => [Registry!SellsToHolders]_(Registry!vars)
  BY DEF Registry!Next, Registry!Pay, Registry!Reserve, Registry!Release,
         Registry!Activate, Registry!vars, Registry!SellsToHolders, IInv, TypeOK
<1> QED BY <1>1, RefinesNameRegistry, Inductive, PTL
       DEF ImplementsNameRegistry, Registry!Spec, Registry!OnlyHoldersBuy

------------------------------------------------------------------------------
(* Purchases end once.                                                      *)

\* A purchase that has ended keeps its row: state, rail, name, owner and end of
\* reservation.
KeepsEnded ==
  \A p \in Requests : state[p] \in {"settled", "cancelled"} =>
    /\ state'[p] = state[p] /\ via'[p] = via[p]
    /\ name'[p] = name[p] /\ owner'[p] = owner[p]
    /\ expires_at'[p] = expires_at[p]

\* Whatever an actor has read of a purchase, and however long ago, its write
\* spares a purchase another actor has ended.
LEMMA SettleKeepsEnded ==
  ASSUME IInv, NEW p \in Requests, NEW rail,
         mark_settled_and_activate(p, rail), UNCHANGED <<name, owner, expires_at>>
  PROVE  KeepsEnded
BY DEF mark_settled_and_activate, mark_cancelled, KeepsEnded, IInv, TypeOK

\* So does the expiry.
LEMMA CancelKeepsEnded ==
  ASSUME IInv, NEW p \in Requests,
         mark_cancelled(p), UNCHANGED <<name, owner, via, expires_at>>
  PROVE  KeepsEnded
BY DEF mark_cancelled, KeepsEnded, IInv, TypeOK

\* A purchase is settled or cancelled at most once, by one of the actors that
\* claim it, and its row never changes afterwards.
THEOREM PurchasesEndOnce == Spec => [][KeepsEnded]_vars
<1>1. IInv /\ [Next]_vars => [KeepsEnded]_vars
  <2> SUFFICES ASSUME IInv, Next PROVE KeepsEnded
    OBVIOUS
  <2>1. ASSUME UNCHANGED rows PROVE KeepsEnded
    BY <2>1 DEF rows, KeepsEnded
  <2>2. ASSUME NEW a \in Actors, Claim(a) PROVE KeepsEnded
    <3>1. ASSUME pc[a] \in Claiming PROVE claim[a].target \in Requests
      BY <3>1 DEF IInv, TypeOK, ActorsTypeOK, Claims
    <3>2. CASE SettleLightning(a)
      BY <3>1, <3>2, SettleKeepsEnded DEF SettleLightning, Claiming
    <3>3. CASE SettleArk(a)
      BY <3>1, <3>3, SettleKeepsEnded DEF SettleArk, Claiming
    <3>4. CASE Expire(a)
      BY <3>1, <3>4, CancelKeepsEnded DEF Expire, Claiming
    <3> QED
      BY <2>1, <2>2, <3>2, <3>3, <3>4
         DEF Claim, ClaimWorks, ReadStatus, ReadHistory, Keep, ClaimFails
  <2>3. ASSUME NEW r \in Requests, Create(r) PROVE KeepsEnded
    <3>1. pc[r] # "done" => state[r] = "absent"
      BY DEF IInv, TypeOK, ActorsCoherent
    <3>2. ASSUME NEW n \in Names, NEW o \in Owners, Begin(r, n, o) PROVE KeepsEnded
      BY <3>1, <3>2 DEF Begin, KeepsEnded, IInv, TypeOK
    <3>3. CASE Insert(r)
      BY <3>1, <3>3 DEF Insert, KeepsEnded, IInv, TypeOK
    <3> QED
      BY <2>1, <2>3, <3>2, <3>3 DEF Create, CheckActive, CheckPending, MakeInvoice, RequestFails
  <2>4. CASE \/ \E v \in Viewers, p \in Requests : View(v, p)
             \/ PollList
             \/ \E p \in Requests : PollNext(p)
             \/ Crash
             \/ World
    BY <2>1, <2>4 DEF View, PollList, PollNext, Crash, World, Tick, BarkdMoves, PayArk
  <2> QED BY <2>2, <2>3, <2>4 DEF Next
<1> QED BY <1>1, Inductive, PTL DEF Spec

------------------------------------------------------------------------------
(* Purchases end for a cause.                                               *)

\* A purchase loses its reservation only to another purchase of the same name,
\* which has been settled and so paid, or after its own end.
CancelsForCause ==
  \A p \in Requests : state[p] = "pending" /\ state'[p] = "cancelled" =>
    \/ \E q \in Requests \ {p} : state[q] = "settled" /\ name[q] = name[p] /\ Paid(q)
    \/ invoice_has_expired(p)

\* The transaction cancels a purchase of an active name only, which somebody has
\* paid for.
LEMMA SettleHasCause ==
  ASSUME IInv, NEW p \in Requests, state[p] # "absent", NEW rail,
         mark_settled_and_activate(p, rail)
  PROVE  CancelsForCause
<1> SUFFICES ASSUME NEW r \in Requests, state[r] = "pending", state'[r] = "cancelled"
             PROVE  \E q \in Requests \ {r} :
                      state[q] = "settled" /\ name[q] = name[r] /\ Paid(q)
  BY DEF CancelsForCause
<1>1. r = p /\ active[name[p]] # None
  BY DEF mark_settled_and_activate, mark_cancelled, IInv, TypeOK
<1>2. name[p] \in Names
  BY DEF IInv, ActorsCoherent
<1>3. PICK q \in Requests : state[q] = "settled" /\ name[q] = name[p]
  BY <1>1, <1>2 DEF IInv, ActiveIffSettled
<1>4. Paid(q)
  BY <1>3 DEF IInv, SettledWasPaid, Paid
<1> QED BY <1>1, <1>3, <1>4

\* What the code does keep of "each name activates after its fee invoice is paid":
\* a purchase is not cancelled before its end unless another buyer has got the
\* name, whatever the poller, the viewers and the competing requests do.
THEOREM CancellationsHaveCauses == Spec => [][CancelsForCause]_vars
<1>1. IInv /\ [Next]_vars => [CancelsForCause]_vars
  <2> SUFFICES ASSUME IInv, Next PROVE CancelsForCause
    OBVIOUS
  <2>1. ASSUME UNCHANGED state PROVE CancelsForCause
    BY <2>1 DEF CancelsForCause
  <2>2. ASSUME NEW a \in Actors, Claim(a) PROVE CancelsForCause
    <3>1. ASSUME pc[a] \in Claiming
          PROVE  claim[a].target \in Requests /\ state[claim[a].target] # "absent"
      BY <3>1 DEF IInv, TypeOK, ActorsTypeOK, Claims, ActorsCoherent
    <3>2. CASE SettleLightning(a)
      BY <3>1, <3>2, SettleHasCause DEF SettleLightning, Claiming
    <3>3. CASE SettleArk(a)
      BY <3>1, <3>3, SettleHasCause DEF SettleArk, Claiming
    <3>4. CASE Expire(a)
      BY <3>4 DEF Expire, mark_cancelled, CancelsForCause, IInv, TypeOK
    <3> QED
      BY <2>1, <2>2, <3>2, <3>3, <3>4
         DEF Claim, ClaimWorks, ReadStatus, ReadHistory, Keep, ClaimFails, rows
  <2>3. ASSUME NEW r \in Requests, Create(r) PROVE CancelsForCause
    <3>1. CASE Insert(r)
      BY <3>1 DEF Insert, CancelsForCause, IInv, TypeOK
    <3> QED
      BY <2>1, <2>3, <3>1
         DEF Create, Begin, CheckActive, CheckPending, MakeInvoice, RequestFails, rows
  <2>4. CASE \/ \E v \in Viewers, p \in Requests : View(v, p)
             \/ PollList
             \/ \E p \in Requests : PollNext(p)
             \/ Crash
             \/ World
    BY <2>1, <2>4
       DEF View, PollList, PollNext, Crash, World, Tick, BarkdMoves, PayArk, rows
  <2> QED BY <2>2, <2>3, <2>4 DEF Next
<1> QED BY <1>1, Inductive, PTL DEF Spec
=============================================================================
