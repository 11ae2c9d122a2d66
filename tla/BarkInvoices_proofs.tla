------------------------- MODULE BarkInvoices_proofs -------------------------
(***************************************************************************)
(* What holds of Bark invoices for every number of requests and verify     *)
(* handlers, every set of phases barkd may report, every lifetime and      *)
(* every clock.                                                            *)
(***************************************************************************)
EXTENDS BarkInvoices, TLAPS

\* Requests and claimers are different actors, and no invoice is no request.
LEMMA Distinct ==
  /\ Requests \cap Claimers = {}
  /\ None \notin Requests
  /\ Poller \in Claimers
  /\ Verifiers \subseteq Claimers
  /\ Claimers \subseteq Actors
  /\ Requests \subseteq Actors
  BY ActorsAssumption DEF Claimers, Actors

\* The receive that is not there is a receive, and says nothing of a preimage.
LEMMA NothingRead ==
  /\ NoReceive \in Receive
  /\ NoReceive.phase = "missing"
  /\ ~revealed_preimage(NoReceive)
  BY PhasesAssumption DEF NoReceive, Receive, revealed_preimage, Revealed

\* An answer of barkd is a receive; it has the phase barkd is in.
LEMMA AnswersTrue ==
  ASSUME NEW ph \in Phases, NEW answer \in receive_status(ph)
  PROVE  answer \in Receive /\ answer.phase = ph
  <1>1. CASE ph = "missing"
    BY <1>1, NothingRead DEF receive_status
  <1>2. CASE ph # "missing"
    BY <1>2 DEF receive_status, Receive
  <1>. QED
    BY <1>1, <1>2

\* Phases that are out stay out, and a payment in progress stays in progress
\* or is given up.
LEMMA PhasesMove ==
  ASSUME NEW ph \in Phases, NEW next \in NextPhases(ph)
  PROVE  /\ next \in Phases
         /\ ph \in Revealed => next \in Revealed
         /\ ph \in InProgress => next \in InProgress \/ next = "missing"
  <1>. USE DEF InProgress, Accepted, Revealed, AllPhases
  <1>1. ph \in {"missing", "awaiting-payment"} \cup Accepted \cup Revealed
    BY PhasesAssumption
  <1>2. next \in Phases
    BY DEF NextPhases
  <1>3. CASE ph = "missing"
    BY <1>2, <1>3 DEF NextPhases
  <1>4. CASE ph = "awaiting-payment"
    BY <1>2, <1>4 DEF NextPhases
  <1>5. CASE ph \in Accepted
    BY <1>2, <1>5 DEF NextPhases
  <1>6. CASE ph \in Revealed
    BY <1>2, <1>6 DEF NextPhases
  <1>. QED
    BY <1>1, <1>3, <1>4, <1>5, <1>6

\* The invariant holds initially: nothing has been asked for.
LEMMA InitInvariant == Init => IInv
  <1>. SUFFICES ASSUME Init PROVE IInv
    OBVIOUS
  <1>1. /\ \A r \in Requests : pc[r] = "idle"
        /\ \A a \in Claimers : pc[a] = "idle" /\ claim[a].target = None
    BY Distinct DEF Init, NoClaim
  <1>2. TypeOK
    <2>1. /\ now \in 0..MaxTime
          /\ bolt_expiry \in [Requests -> Nat]
          /\ expires_at \in [Requests -> Nat]
      BY NumbersAssumption DEF Init
    <2>2. /\ receive \in [Requests -> Phases]
          /\ listed \in [Requests -> Receive]
          /\ claim \in [Claimers -> Claims]
      BY PhasesAssumption, NothingRead DEF Init, NothingListed, Claims, NoClaim
    <2>3. /\ state \in [Requests -> {"absent", "pending", "settled", "cancelled"}]
          /\ wakeup \in BOOLEAN
          /\ pc \in [Actors -> {"idle", "insert", "done", "list"} \cup Claiming]
          /\ todo \subseteq Requests
      BY DEF Init
    <2>4. "idle" \notin Claiming
      BY DEF Claiming
    <2>. QED
      BY <1>1, <2>1, <2>2, <2>3, <2>4 DEF TypeOK
  <1>3. ActorsCoherent /\ SettledWasPaid
    BY <1>1 DEF Init, ActorsCoherent, SettledWasPaid
  <1>4. SamplesSound /\ AnnouncesSettled
    BY <1>1, NothingRead DEF Init, SamplesSound, AnnouncesSettled, NothingListed, Claiming
  <1>. QED
    BY <1>2, <1>3, <1>4 DEF IInv

\* A step of a request: its invoice is not known to any claimer yet.
LEMMA CreateKeepsInvariant ==
  ASSUME IInv, NEW r \in Requests, Create(r),
         receive[r] \notin Revealed \/ pc[r] # "idle"
  PROVE  IInv'
  <1>. USE Distinct DEF Goto, world, rows
  <1>1. /\ pc[r] \in {"idle", "insert"}
        /\ state[r] = "absent"
        /\ \A a \in Claimers : claim[a].target # r
        /\ r \notin todo
    BY DEF Create, MakeInvoice, Insert, RequestFails, IInv, ActorsCoherent
  <1>2. /\ UNCHANGED <<now, wakeup, claim, todo, listed>>
        /\ \A a \in Claimers : pc'[a] = pc[a]
    BY DEF Create, MakeInvoice, Insert, RequestFails, IInv, TypeOK
  <1>3. CASE MakeInvoice(r)
    <2>1. TypeOK'
      <3>1. receive' \in [Requests -> Phases]
        BY <1>3, PhasesAssumption DEF MakeInvoice, IInv, TypeOK
      <3>2. bolt_expiry' \in [Requests -> Nat]
        BY <1>3, NumbersAssumption DEF MakeInvoice, IInv, TypeOK
      <3>3. /\ pc' \in [Actors -> {"idle", "insert", "done", "list"} \cup Claiming]
            /\ \A q \in Requests : pc'[q] \in {"idle", "insert", "done"}
        BY <1>3 DEF MakeInvoice, IInv, TypeOK
      <3>. QED
        BY <1>2, <1>3, <3>1, <3>2, <3>3 DEF MakeInvoice, IInv, TypeOK
    <2>2. ActorsCoherent'
      BY <1>1, <1>2, <1>3 DEF MakeInvoice, IInv, TypeOK, ActorsCoherent
    <2>3. \A q \in Requests : receive[q] \in Revealed => receive'[q] \in Revealed
      BY <1>3 DEF MakeInvoice, IInv, TypeOK
    <2>4. SamplesSound'
      <3>1. \A a \in Claimers : pc[a] \in Claiming => claim[a].target \in Requests
        BY DEF IInv, TypeOK, Claims
      <3>. QED
        BY <1>2, <2>3, <3>1 DEF IInv, TypeOK, SamplesSound
    <2>5. AnnouncesSettled' /\ SettledWasPaid'
      BY <1>2, <1>3, <2>3 DEF MakeInvoice, IInv, TypeOK, AnnouncesSettled, SettledWasPaid
    <2>. QED
      BY <2>1, <2>2, <2>4, <2>5 DEF IInv
  <1>4. CASE Insert(r)
    <2>1. TypeOK'
      BY <1>2, <1>4 DEF Insert, IInv, TypeOK
    <2>2. ActorsCoherent'
      BY <1>1, <1>2, <1>4 DEF Insert, IInv, TypeOK, ActorsCoherent
    <2>3. SamplesSound' /\ SettledWasPaid'
      BY <1>1, <1>2, <1>4 DEF Insert, IInv, TypeOK, SamplesSound, SettledWasPaid
    <2>4. AnnouncesSettled'
      BY <1>1, <1>2, <1>4 DEF Insert, IInv, TypeOK, AnnouncesSettled
    <2>. QED
      BY <2>1, <2>2, <2>3, <2>4 DEF IInv
  <1>5. CASE RequestFails(r)
    <2>1. TypeOK'
      BY <1>2, <1>5 DEF RequestFails, IInv, TypeOK
    <2>2. ActorsCoherent'
      BY <1>1, <1>2, <1>5 DEF RequestFails, IInv, TypeOK, ActorsCoherent
    <2>3. SamplesSound' /\ SettledWasPaid' /\ AnnouncesSettled'
      BY <1>1, <1>2, <1>5
      DEF RequestFails, IInv, TypeOK, SamplesSound, SettledWasPaid, AnnouncesSettled
    <2>. QED
      BY <2>1, <2>2, <2>3 DEF IInv
  <1>. QED
    BY <1>3, <1>4, <1>5 DEF Create

\* A claimer that is inside a claim has an inserted invoice.
LEMMA ClaimedInvoice ==
  ASSUME IInv, NEW a \in Claimers, pc[a] \in Claiming
  PROVE  /\ claim[a].target \in Requests
         /\ claim[a].target # None
         /\ state[claim[a].target] # "absent"
         /\ claim[a].receive \in Receive
  BY Distinct DEF IInv, TypeOK, ActorsCoherent, Claims

\* What a claimer that leaves its invoice must have kept.
LEMMA ReturnKeepsInvariant ==
  ASSUME IInv, NEW a \in Claimers, Return(a),
         UNCHANGED <<world, expires_at, todo, listed>>,
         wakeup' \in BOOLEAN,
         state' \in [Requests -> {"absent", "pending", "settled", "cancelled"}],
         \A p \in Requests :
           \/ state'[p] = state[p]
           \/ state[p] = "pending" /\ state'[p] = "cancelled"
  PROVE  IInv'
  <1>. USE Distinct DEF Goto, world
  <1>1. /\ \A b \in Actors : pc'[b] = IF b = a THEN "idle" ELSE pc[b]
        /\ \A b \in Claimers : claim'[b] = IF b = a THEN NoClaim ELSE claim[b]
    BY DEF Return, IInv, TypeOK
  <1>2. NoClaim \in Claims /\ NoClaim.target = None
    BY NothingRead DEF NoClaim, Claims
  <1>3. TypeOK'
    <2>1. /\ pc' \in [Actors -> {"idle", "insert", "done", "list"} \cup Claiming]
          /\ claim' \in [Claimers -> Claims]
      BY <1>2 DEF Return, IInv, TypeOK
    <2>2. /\ \A r \in Requests : pc'[r] \in {"idle", "insert", "done"}
          /\ \A b \in Claimers : claim'[b].target # None <=> pc'[b] \in Claiming
      BY <1>1, <1>2 DEF IInv, TypeOK, Claiming
    <2>. QED
      BY <2>1, <2>2 DEF IInv, TypeOK
  <1>4. ActorsCoherent'
    BY <1>1, <1>2 DEF IInv, TypeOK, ActorsCoherent, Claims
  <1>5. SamplesSound'
    BY <1>1 DEF IInv, TypeOK, SamplesSound, Claiming
  <1>6. AnnouncesSettled'
    BY <1>1, ClaimedInvoice DEF IInv, TypeOK, AnnouncesSettled, Claiming
  <1>7. SettledWasPaid'
    BY DEF IInv, SettledWasPaid
  <1>. QED
    BY <1>3, <1>4, <1>5, <1>6, <1>7 DEF IInv

\* The invoice a claim turns to is inserted, and what is known of it is sound.
LEMMA StartKeepsInvariant ==
  ASSUME IInv, NEW a \in Claimers, NEW p \in Requests, NEW answer \in Receive,
         NEW there \in {"read_status", "apply"},
         state[p] # "absent", StartClaim(a, p, there, answer),
         revealed_preimage(answer) => receive[p] \in Revealed,
         UNCHANGED <<world, rows, wakeup>>,
         todo' \subseteq todo,
         listed' \in [Requests -> Receive],
         \A q \in Requests : listed'[q] = listed[q] \/ listed'[q] = NoReceive
  PROVE  IInv'
  <1>. USE Distinct DEF Goto, world, rows, StartClaim
  <1>1. /\ \A b \in Actors : pc'[b] = IF b = a THEN there ELSE pc[b]
        /\ \A b \in Claimers : claim'[b] = IF b = a THEN [target |-> p, receive |-> answer]
                                                  ELSE claim[b]
    BY DEF IInv, TypeOK
  <1>2. TypeOK'
    <2>1. /\ pc' \in [Actors -> {"idle", "insert", "done", "list"} \cup Claiming]
          /\ claim' \in [Claimers -> Claims]
      BY DEF IInv, TypeOK, Claims, Claiming
    <2>2. /\ \A r \in Requests : pc'[r] \in {"idle", "insert", "done"}
          /\ \A b \in Claimers : claim'[b].target # None <=> pc'[b] \in Claiming
      BY <1>1 DEF IInv, TypeOK, Claiming
    <2>. QED
      BY <2>1, <2>2 DEF IInv, TypeOK
  <1>3. ActorsCoherent'
    BY <1>1 DEF IInv, TypeOK, ActorsCoherent
  <1>4. SamplesSound'
    BY <1>1, NothingRead DEF IInv, TypeOK, SamplesSound
  <1>5. AnnouncesSettled' /\ SettledWasPaid'
    BY <1>1 DEF IInv, TypeOK, AnnouncesSettled, SettledWasPaid
  <1>. QED
    BY <1>2, <1>3, <1>4, <1>5 DEF IInv

\* A claim settles what is paid, cancels what is pending, and announces once.
LEMMA ClaimKeepsInvariant ==
  ASSUME IInv, NEW a \in Claimers, Claim(a)
  PROVE  IInv'
  <1>. USE Distinct DEF Goto, world, rows
  <1>1. pc[a] \in Claiming
    BY DEF Claim, ClaimWorks, ReadStatus, Settle, Announce, Expire, Keep, ClaimFails,
           Claiming
  <1>2. PICK p \in Requests : /\ p = claim[a].target
                              /\ p # None
                              /\ state[p] # "absent"
                              /\ claim[a].receive \in Receive
    BY <1>1, ClaimedInvoice
  <1>3. ASSUME NEW answer \in Receive, ReadStatus(a, answer) PROVE IInv'
    <2>1. answer.phase = receive[p]
      BY <1>2, <1>3, AnswersTrue DEF ReadStatus, IInv, TypeOK
    <2>2. StartClaim(a, p, "apply", answer)
      <3>1. claim[a] \in Claims
        BY DEF IInv, TypeOK
      <3>2. [claim[a] EXCEPT !.receive = answer] = [target |-> p, receive |-> answer]
        BY <1>2, <3>1 DEF Claims
      <3>. QED
        BY <1>3, <3>2 DEF ReadStatus, StartClaim, IInv, TypeOK
    <2>. QED
      BY <1>2, <1>3, <2>1, <2>2, StartKeepsInvariant
      DEF ReadStatus, revealed_preimage, IInv, TypeOK
  <1>4. CASE Settle(a)
    <2>1. receive[p] \in Revealed
      BY <1>1, <1>2, <1>4 DEF Settle, IInv, SamplesSound
    <2>2. CASE state[p] = "pending"
      <3>1. /\ pc' = [pc EXCEPT ![a] = "announce"]
            /\ state' = [state EXCEPT ![p] = "settled"]
            /\ claim' = [claim EXCEPT ![a].receive = NoReceive]
            /\ UNCHANGED <<now, receive, bolt_expiry, expires_at, wakeup, todo, listed>>
        BY <1>2, <1>4, <2>2 DEF Settle, mark_settled
      <3>2. /\ \A b \in Claimers : pc'[b] = IF b = a THEN "announce" ELSE pc[b]
            /\ \A q \in Requests : state'[q] = IF q = p THEN "settled" ELSE state[q]
            /\ \A b \in Claimers : claim'[b].target = claim[b].target
            /\ \A b \in Claimers : b # a => claim'[b] = claim[b]
            /\ claim'[a].receive = NoReceive
        BY <3>1 DEF IInv, TypeOK, Claims
      <3>3. TypeOK'
        <4>1. /\ pc' \in [Actors -> {"idle", "insert", "done", "list"} \cup Claiming]
              /\ claim' \in [Claimers -> Claims]
              /\ state' \in [Requests -> {"absent", "pending", "settled", "cancelled"}]
          BY <3>1, NothingRead DEF IInv, TypeOK, Claims, Claiming
        <4>2. /\ \A r \in Requests : pc'[r] \in {"idle", "insert", "done"}
              /\ \A b \in Claimers : claim'[b].target # None <=> pc'[b] \in Claiming
          BY <1>2, <3>1, <3>2 DEF IInv, TypeOK, Claiming
        <4>. QED
          BY <3>1, <4>1, <4>2 DEF IInv, TypeOK
      <3>4. ActorsCoherent'
        <4>1. \A r \in Requests : pc'[r] = pc[r]
          BY <3>1 DEF IInv, TypeOK
        <4>2. \A b \in Claimers : claim[b].target # None => claim[b].target \in Requests
          BY DEF IInv, TypeOK, Claims
        <4>. QED
          BY <1>2, <3>1, <3>2, <4>1, <4>2 DEF IInv, ActorsCoherent
      <3>5. SamplesSound'
        BY <1>1, <3>1, <3>2, NothingRead DEF IInv, SamplesSound, Claiming
      <3>6. AnnouncesSettled'
        <4>1. \A b \in Claimers : ~(pc[b] = "announce" /\ claim[b].target = p)
          BY <2>2 DEF IInv, AnnouncesSettled
        <4>2. \A b \in Claimers : pc[b] = "announce" => claim[b].target \in Requests
          BY ClaimedInvoice DEF Claiming
        <4>. QED
          BY <1>2, <3>2, <4>1, <4>2 DEF IInv, AnnouncesSettled
      <3>7. SettledWasPaid'
        BY <2>1, <3>1, <3>2 DEF IInv, SettledWasPaid
      <3>. QED
        BY <3>3, <3>4, <3>5, <3>6, <3>7 DEF IInv
    <2>3. CASE state[p] # "pending"
      <3>1. Return(a) /\ state' = state
        BY <1>2, <1>4, <2>3 DEF Settle, mark_settled, IInv, TypeOK
      <3>. QED
        BY <1>4, <3>1, ReturnKeepsInvariant DEF Settle, IInv, TypeOK
    <2>. QED
      BY <2>2, <2>3
  <1>5. CASE Announce(a)
    BY <1>5, ReturnKeepsInvariant DEF Announce, IInv, TypeOK
  <1>6. CASE Expire(a)
    <2>1. /\ state' \in [Requests -> {"absent", "pending", "settled", "cancelled"}]
          /\ \A q \in Requests : \/ state'[q] = state[q]
                                 \/ state[q] = "pending" /\ state'[q] = "cancelled"
      BY <1>2, <1>6 DEF Expire, mark_cancelled, IInv, TypeOK
    <2>. QED
      BY <1>6, <2>1, ReturnKeepsInvariant DEF Expire, IInv, TypeOK
  <1>7. CASE Keep(a) \/ ClaimFails(a)
    BY <1>7, ReturnKeepsInvariant DEF Keep, ClaimFails, IInv, TypeOK
  <1>. QED
    BY <1>3, <1>4, <1>5, <1>6, <1>7 DEF Claim, ClaimWorks

\* A step of the poller's batch.
LEMMA PollKeepsInvariant ==
  ASSUME IInv, Poll
  PROVE  IInv'
  <1>. USE Distinct DEF Goto, world, rows
  <1>1. CASE PollPending
    <2>1. TypeOK'
      BY <1>1, NothingRead DEF PollPending, IInv, TypeOK, NothingListed, Claiming
    <2>2. ActorsCoherent'
      BY <1>1 DEF PollPending, IInv, TypeOK, ActorsCoherent
    <2>3. SamplesSound' /\ AnnouncesSettled' /\ SettledWasPaid'
      BY <1>1, NothingRead
      DEF PollPending, IInv, TypeOK, SamplesSound, AnnouncesSettled, SettledWasPaid,
          NothingListed, Claiming
    <2>. QED
      BY <2>1, <2>2, <2>3 DEF IInv
  <1>2. ASSUME NEW answers \in [Requests -> Receive], PollReceives(answers)
        PROVE  IInv'
    <2>1. \A p \in Requests : revealed_preimage(answers[p]) => receive[p] \in Revealed
      <3>. SUFFICES ASSUME NEW p \in Requests, revealed_preimage(answers[p])
                    PROVE  receive[p] \in Revealed
        OBVIOUS
      <3>1. answers[p] \in receive_status(receive[p])
        BY <1>2, NothingRead DEF PollReceives
      <3>2. answers[p].phase = receive[p]
        BY <3>1, AnswersTrue DEF IInv, TypeOK
      <3>. QED
        BY <3>2 DEF revealed_preimage
    <2>2. TypeOK' /\ ActorsCoherent'
      BY <1>2 DEF PollReceives, IInv, TypeOK, ActorsCoherent, Claiming
    <2>3. SamplesSound' /\ AnnouncesSettled' /\ SettledWasPaid'
      BY <1>2, <2>1
      DEF PollReceives, IInv, TypeOK, SamplesSound, AnnouncesSettled, SettledWasPaid,
          Claiming
    <2>. QED
      BY <2>2, <2>3 DEF IInv
  <1>3. ASSUME NEW p \in Requests, PollListed(p) \/ PollUnlisted(p)
        PROVE  IInv'
    <2>1. state[p] # "absent" /\ todo' \subseteq todo
      BY <1>3 DEF PollListed, PollUnlisted, IInv, ActorsCoherent
    <2>2. CASE PollListed(p)
      <3>1. listed[p] \in Receive /\ (revealed_preimage(listed[p]) => receive[p] \in Revealed)
        BY DEF IInv, TypeOK, SamplesSound
      <3>2. /\ listed' \in [Requests -> Receive]
            /\ \A q \in Requests : listed'[q] = listed[q] \/ listed'[q] = NoReceive
        BY <2>2, NothingRead DEF PollListed, IInv, TypeOK
      <3>. QED
        BY <2>1, <2>2, <3>1, <3>2, StartKeepsInvariant DEF PollListed
    <2>3. CASE PollUnlisted(p)
      BY <2>1, <2>3, NothingRead, StartKeepsInvariant DEF PollUnlisted, IInv, TypeOK
    <2>. QED
      BY <1>3, <2>2, <2>3
  <1>. QED
    BY <1>1, <1>2, <1>3 DEF Poll

\* A verify handler, a restart, the world outside.
LEMMA OtherKeepsInvariant ==
  ASSUME IInv,
         \/ \E v \in Verifiers, p \in Requests : Verify(v, p)
         \/ Crash
         \/ World
  PROVE  IInv'
  <1>. USE Distinct DEF world, rows
  <1>1. ASSUME NEW v \in Verifiers, NEW p \in Requests, Verify(v, p)
        PROVE  IInv'
    BY <1>1, NothingRead, StartKeepsInvariant DEF Verify, IInv, TypeOK
  <1>2. CASE Crash
    <2>1. \A a \in Claimers : pc'[a] = "idle" /\ claim'[a] = NoClaim
      BY <1>2 DEF Crash
    <2>2. NoClaim \in Claims /\ NoClaim.target = None
      BY NothingRead DEF NoClaim, Claims
    <2>3. TypeOK'
      BY <1>2, <2>1, <2>2, NothingRead DEF Crash, IInv, TypeOK, NothingListed, Claiming
    <2>4. ActorsCoherent'
      BY <1>2, <2>1, <2>2 DEF Crash, IInv, TypeOK, ActorsCoherent
    <2>5. SamplesSound' /\ AnnouncesSettled' /\ SettledWasPaid'
      BY <1>2, <2>1, NothingRead
      DEF Crash, IInv, SamplesSound, AnnouncesSettled, SettledWasPaid, NothingListed,
          Claiming
    <2>. QED
      BY <2>3, <2>4, <2>5 DEF IInv
  <1>3. CASE Tick
    <2>1. now' \in 0..MaxTime
      BY <1>3, NumbersAssumption DEF Tick, IInv, TypeOK
    <2>. QED
      BY <1>3, <2>1
      DEF Tick, IInv, TypeOK, ActorsCoherent, SamplesSound, AnnouncesSettled,
          SettledWasPaid
  <1>4. ASSUME NEW p \in Requests, BarkdMoves(p) PROVE IInv'
    <2>1. PICK phase \in NextPhases(receive[p]) :
            receive' = [receive EXCEPT ![p] = phase]
      BY <1>4 DEF BarkdMoves
    <2>2. /\ receive' \in [Requests -> Phases]
          /\ \A q \in Requests : receive[q] \in Revealed => receive'[q] \in Revealed
      BY <2>1, PhasesMove DEF IInv, TypeOK
    <2>3. \A a \in Claimers : pc[a] \in Claiming => claim[a].target \in Requests
      BY ClaimedInvoice
    <2>4. TypeOK' /\ ActorsCoherent' /\ AnnouncesSettled'
      BY <1>4, <2>2 DEF BarkdMoves, IInv, TypeOK, ActorsCoherent, AnnouncesSettled
    <2>5. SamplesSound' /\ SettledWasPaid'
      BY <1>4, <2>2, <2>3 DEF BarkdMoves, IInv, SamplesSound, SettledWasPaid
    <2>. QED
      BY <2>4, <2>5 DEF IInv
  <1>5. CASE PublisherWakes
    BY <1>5
    DEF PublisherWakes, IInv, TypeOK, ActorsCoherent, SamplesSound, AnnouncesSettled,
        SettledWasPaid
  <1>. QED
    BY <1>1, <1>2, <1>3, <1>4, <1>5 DEF World

\* The receive of an invoice is made by the request, and not before.
FreshReceives == \A r \in Requests : pc[r] = "idle" => receive[r] = "missing"

LEMMA NextFreshReceives ==
  IInv /\ FreshReceives /\ [Next]_vars => FreshReceives'
  <1>. SUFFICES ASSUME IInv, FreshReceives, [Next]_vars PROVE FreshReceives'
    OBVIOUS
  <1>. USE Distinct DEF Goto, world, rows
  <1>1. \A r \in Requests : state[r] # "absent" => pc[r] = "done"
    BY DEF IInv, ActorsCoherent
  <1>2. ASSUME NEW r \in Requests, Create(r) PROVE FreshReceives'
    BY <1>2 DEF Create, MakeInvoice, Insert, RequestFails, FreshReceives, IInv, TypeOK
  <1>3. ASSUME NEW a \in Claimers, Claim(a) PROVE FreshReceives'
    BY <1>3
    DEF Claim, ClaimWorks, ReadStatus, Settle, Announce, Expire, Keep, ClaimFails,
        Return, FreshReceives, IInv, TypeOK
  <1>4. ASSUME NEW v \in Verifiers, NEW p \in Requests, Verify(v, p)
        PROVE  FreshReceives'
    BY <1>4 DEF Verify, StartClaim, FreshReceives, IInv, TypeOK
  <1>5. CASE Poll
    BY <1>5
    DEF Poll, PollPending, PollReceives, PollListed, PollUnlisted, StartClaim,
        FreshReceives, IInv, TypeOK
  <1>6. CASE Crash
    <2>1. \A r \in Requests : pc'[r] = "idle" => pc[r] = "idle"
      BY <1>6 DEF Crash, IInv, TypeOK
    <2>. QED
      BY <1>6, <2>1 DEF Crash, FreshReceives
  <1>7. ASSUME NEW p \in Requests, BarkdMoves(p) PROVE FreshReceives'
    <2>1. \A r \in Requests : pc[r] = "idle" => receive'[r] = receive[r]
      BY <1>1, <1>7 DEF BarkdMoves, IInv, TypeOK
    <2>. QED
      BY <1>7, <2>1 DEF BarkdMoves, FreshReceives
  <1>8. CASE UNCHANGED vars \/ Tick \/ PublisherWakes
    BY <1>8 DEF vars, Tick, PublisherWakes, FreshReceives
  <1>. QED
    BY <1>2, <1>3, <1>4, <1>5, <1>6, <1>7, <1>8 DEF Next, World

\* The invariant is inductive.
LEMMA NextInvariant == IInv /\ FreshReceives /\ [Next]_vars => IInv'
  <1>. SUFFICES ASSUME IInv, FreshReceives, [Next]_vars PROVE IInv'
    OBVIOUS
  <1>1. CASE UNCHANGED vars
    BY <1>1 DEF vars, world, rows, IInv, TypeOK, ActorsCoherent, SamplesSound,
                AnnouncesSettled, SettledWasPaid
  <1>2. ASSUME NEW r \in Requests, Create(r) PROVE IInv'
    <2>1. receive[r] \notin Revealed \/ pc[r] # "idle"
      BY DEF FreshReceives, Revealed
    <2>. QED
      BY <1>2, <2>1, CreateKeepsInvariant
  <1>. QED
    BY <1>1, <1>2, ClaimKeepsInvariant, PollKeepsInvariant, OtherKeepsInvariant DEF Next

\* Both invariants hold always.
LEMMA BothInvariants == Spec => [](IInv /\ FreshReceives)
  <1>1. Init => FreshReceives
    BY Distinct DEF Init, FreshReceives
  <1>. QED
    BY <1>1, InitInvariant, NextInvariant, NextFreshReceives, PTL DEF Spec

\* The invariant of the claims and their invoices.
THEOREM Inductive == Spec => []IInv
  BY BothInvariants, PTL

\* The types of all variables.
THEOREM TypeCorrect == Spec => []TypeOK
  BY Inductive, PTL DEF IInv

\* No invoice is settled before its preimage is out, however old the answer is
\* it was settled on.
THEOREM SettledIsPaid == Spec => []SettledWasPaid
  BY Inductive, PTL DEF IInv

------------------------------------------------------------------------------
(* Accepted payments.                                                       *)

\* A claim of p that expires nothing leaves p claimable or settles it.
LEMMA ClaimLeavesClaimable ==
  ASSUME IInv, NEW a \in Claimers, Claim(a), NEW p \in Requests, Claimable(p)
  PROVE  Claimable(p)' \/ state'[p] = "settled"
  <1>. USE Distinct DEF Goto, world, rows
  <1>1. /\ state[p] = "pending" /\ receive[p] \in InProgress
        /\ ~\E b \in Claimers : /\ pc[b] = "apply"
                                /\ claim[b].target = p
                                /\ MayExpire(claim[b].receive)
        /\ ~(p \in todo /\ listed[p] # NoReceive /\ MayExpire(listed[p]))
    BY DEF Claimable, ExpiryInFlight
  <1>2. /\ UNCHANGED <<receive, todo, listed>>
        /\ \A b \in Claimers : b # a => pc'[b] = pc[b] /\ claim'[b] = claim[b]
    BY DEF Claim, ClaimWorks, ReadStatus, Settle, Announce, Expire, Keep, ClaimFails,
           Return, IInv, TypeOK
  <1>3. CASE state'[p] = state[p] /\ pc'[a] # "apply"
    BY <1>1, <1>2, <1>3 DEF Claimable, ExpiryInFlight
  <1>4. ASSUME NEW answer \in Receive, ReadStatus(a, answer) PROVE Claimable(p)'
    <2>1. claim'[a].target = claim[a].target /\ claim'[a].receive = answer
      BY <1>4 DEF ReadStatus, IInv, TypeOK, Claims
    <2>2. claim[a].target = p => answer.phase = receive[p]
      BY <1>4, AnswersTrue DEF ReadStatus, IInv, TypeOK
    <2>3. claim[a].target = p => ~MayExpire(answer)
      BY <1>1, <2>2
      DEF MayExpire, receive_allows_expiry, InProgress, Accepted, Revealed
    <2>. QED
      BY <1>1, <1>2, <1>4, <2>1, <2>3 DEF ReadStatus, Claimable, ExpiryInFlight
  <1>5. CASE Settle(a)
    <2>1. pc'[a] # "apply"
      BY <1>5 DEF Settle, Return, IInv, TypeOK
    <2>2. state'[p] = state[p] \/ state'[p] = "settled"
      BY <1>5 DEF Settle, mark_settled, IInv, TypeOK
    <2>. QED
      BY <1>3, <2>1, <2>2
  <1>6. CASE Announce(a) \/ Keep(a) \/ ClaimFails(a)
    <2>1. pc'[a] # "apply" /\ state' = state
      BY <1>6 DEF Announce, Keep, ClaimFails, Return, IInv, TypeOK
    <2>. QED
      BY <1>3, <2>1
  <1>7. CASE Expire(a)
    <2>1. claim[a].target # p
      BY <1>1, <1>7 DEF Expire
    <2>2. pc'[a] # "apply" /\ state'[p] = state[p]
      BY <1>7, <2>1 DEF Expire, mark_cancelled, Return, IInv, TypeOK
    <2>. QED
      BY <1>3, <2>2
  <1>. QED
    BY <1>4, <1>5, <1>6, <1>7 DEF Claim, ClaimWorks

\* The poller's batch brings in no answer that lets an accepted payment expire.
LEMMA PollLeavesClaimable ==
  ASSUME IInv, Poll, NEW p \in Requests, Claimable(p)
  PROVE  Claimable(p)'
  <1>. USE Distinct DEF Goto, world, rows
  <1>1. /\ state[p] = "pending" /\ receive[p] \in InProgress
        /\ ~\E b \in Claimers : /\ pc[b] = "apply"
                                /\ claim[b].target = p
                                /\ MayExpire(claim[b].receive)
        /\ ~(p \in todo /\ listed[p] # NoReceive /\ MayExpire(listed[p]))
    BY DEF Claimable, ExpiryInFlight
  <1>2. UNCHANGED <<state, receive>>
    BY DEF Poll, PollPending, PollReceives, PollListed, PollUnlisted
  <1>3. CASE PollPending
    BY <1>1, <1>2, <1>3
    DEF PollPending, NothingListed, Claimable, ExpiryInFlight, IInv, TypeOK
  <1>4. ASSUME NEW answers \in [Requests -> Receive], PollReceives(answers)
        PROVE  Claimable(p)'
    <2>1. answers[p] # NoReceive => answers[p].phase = receive[p]
      BY <1>4, AnswersTrue DEF PollReceives, IInv, TypeOK
    <2>2. answers[p] # NoReceive => ~MayExpire(answers[p])
      BY <1>1, <2>1
      DEF MayExpire, receive_allows_expiry, InProgress, Accepted, Revealed
    <2>3. \A b \in Claimers : pc'[b] = "apply" => pc[b] = "apply"
      BY <1>4 DEF PollReceives, IInv, TypeOK
    <2>. QED
      BY <1>1, <1>2, <1>4, <2>2, <2>3 DEF PollReceives, Claimable, ExpiryInFlight
  <1>5. ASSUME NEW q \in Requests, PollListed(q) \/ PollUnlisted(q)
        PROVE  Claimable(p)'
    <2>1. /\ \A b \in Claimers : b # Poller => pc'[b] = pc[b] /\ claim'[b] = claim[b]
          /\ q \in todo /\ todo' = todo \ {q}
      BY <1>5 DEF PollListed, PollUnlisted, StartClaim, IInv, TypeOK
    <2>2. p \in todo' => p # q /\ listed'[p] = listed[p]
      BY <1>5, <2>1 DEF PollListed, PollUnlisted, IInv, TypeOK
    <2>3. pc'[Poller] = "apply" =>
            /\ claim'[Poller] = [target |-> q, receive |-> listed[q]]
            /\ listed[q] # NoReceive
      BY <1>5 DEF PollListed, PollUnlisted, StartClaim, IInv, TypeOK
    <2>4. pc'[Poller] = "apply" /\ claim'[Poller].target = p
            => ~MayExpire(claim'[Poller].receive)
      BY <1>1, <2>1, <2>3
    <2>. QED
      BY <1>1, <1>2, <2>1, <2>2, <2>4 DEF Claimable, ExpiryInFlight
  <1>. QED
    BY <1>3, <1>4, <1>5 DEF Poll

\* No other step touches an accepted payment, unless barkd gives it up.
LEMMA OthersLeaveClaimable ==
  ASSUME IInv, NEW p \in Requests, Claimable(p),
         \/ \E r \in Requests : Create(r)
         \/ \E v \in Verifiers, q \in Requests : Verify(v, q)
         \/ Crash
         \/ World
         \/ UNCHANGED vars
  PROVE  Claimable(p)' \/ receive'[p] = "missing"
  <1>. USE Distinct DEF Goto, world, rows
  <1>1. /\ state[p] = "pending" /\ receive[p] \in InProgress
        /\ ~\E b \in Claimers : /\ pc[b] = "apply"
                                /\ claim[b].target = p
                                /\ MayExpire(claim[b].receive)
        /\ ~(p \in todo /\ listed[p] # NoReceive /\ MayExpire(listed[p]))
    BY DEF Claimable, ExpiryInFlight
  <1>2. ASSUME NEW r \in Requests, Create(r) PROVE Claimable(p)'
    <2>1. r # p
      BY <1>1, <1>2 DEF Create, MakeInvoice, Insert, RequestFails, IInv, ActorsCoherent
    <2>2. /\ UNCHANGED <<claim, todo, listed>>
          /\ \A a \in Claimers : pc'[a] = pc[a]
          /\ state'[p] = state[p] /\ receive'[p] = receive[p]
      BY <1>2, <2>1 DEF Create, MakeInvoice, Insert, RequestFails, IInv, TypeOK
    <2>. QED
      BY <1>1, <2>2 DEF Claimable, ExpiryInFlight
  <1>3. ASSUME NEW v \in Verifiers, NEW q \in Requests, Verify(v, q)
        PROVE  Claimable(p)'
    <2>1. \A b \in Claimers : pc'[b] = "apply" => pc[b] = "apply" /\ claim'[b] = claim[b]
      BY <1>3 DEF Verify, StartClaim, IInv, TypeOK
    <2>. QED
      BY <1>1, <1>3, <2>1 DEF Verify, Claimable, ExpiryInFlight
  <1>4. CASE Crash
    <2>1. \A b \in Claimers : pc'[b] # "apply"
      BY <1>4 DEF Crash
    <2>. QED
      BY <1>1, <1>4, <2>1 DEF Crash, Claimable, ExpiryInFlight
  <1>5. ASSUME NEW q \in Requests, BarkdMoves(q)
        PROVE  Claimable(p)' \/ receive'[p] = "missing"
    <2>1. receive'[p] \in InProgress \/ receive'[p] = "missing"
      BY <1>1, <1>5, PhasesMove DEF BarkdMoves, IInv, TypeOK
    <2>. QED
      BY <1>1, <1>5, <2>1 DEF BarkdMoves, Claimable, ExpiryInFlight
  <1>6. CASE Tick \/ PublisherWakes \/ UNCHANGED vars
    BY <1>1, <1>6 DEF Tick, PublisherWakes, vars, Claimable, ExpiryInFlight
  <1>. QED
    BY <1>2, <1>3, <1>4, <1>5, <1>6 DEF World

\* An accepted payment is safe, from requests, batches, verify handlers and
\* restarts.
THEOREM AcceptedIsSafe == Spec => AcceptedPaymentSafe
  <1>1. IInv /\ [Next]_vars =>
          [\A p \in Requests :
             Claimable(p) => \/ Claimable(p)'
                             \/ state'[p] = "settled"
                             \/ receive'[p] = "missing"]_vars
    BY ClaimLeavesClaimable, PollLeavesClaimable, OthersLeaveClaimable DEF Next
  <1>. QED
    BY <1>1, Inductive, PTL DEF Spec, AcceptedPaymentSafe

------------------------------------------------------------------------------
(* The refinement.                                                          *)

\* The invoices that are settled and not announced.
Announcing ==
  {p \in Requests : \E a \in Claimers : pc[a] = "announce" /\ claim[a].target = p}

\* The invoices whose preimage is out.
Paid == {p \in Requests : receive[p] \in Revealed}

\* A step that begins and ends no announcement.
LEMMA SameAnnounced ==
  ASSUME \A a \in Claimers : pc'[a] = "announce" <=> pc[a] = "announce",
         \A a \in Claimers : pc[a] = "announce" => claim'[a].target = claim[a].target
  PROVE  Announcing' = Announcing
  BY DEF Announcing

\* A claim settles a paid invoice, cancels a pending one, announces, or does
\* nothing the ledger sees.
LEMMA ClaimRefines ==
  ASSUME IInv, NEW a \in Claimers, Claim(a)
  PROVE  [Ledger!Next]_(Ledger!vars)
  <1>. USE Distinct DEF Goto, world, rows
  <1>1. pc[a] \in Claiming
    BY DEF Claim, ClaimWorks, ReadStatus, Settle, Announce, Expire, Keep, ClaimFails,
           Claiming
  <1>2. PICK p \in Requests : p = claim[a].target /\ p # None
    BY <1>1, ClaimedInvoice
  <1>3. Paid' = Paid
    BY DEF Claim, ClaimWorks, ReadStatus, Settle, Announce, Expire, Keep, ClaimFails,
           Paid
  <1>4. ASSUME NEW answer \in Receive, ReadStatus(a, answer)
        PROVE  UNCHANGED Ledger!vars
    <2>1. Announcing' = Announcing
      BY <1>4, SameAnnounced DEF ReadStatus, IInv, TypeOK, Claims
    <2>. QED
      BY <1>3, <1>4, <2>1 DEF ReadStatus, Ledger!vars, Announcing, Paid
  <1>5. CASE Settle(a)
    <2>1. p \in Paid
      BY <1>1, <1>2, <1>5 DEF Settle, IInv, SamplesSound, Paid
    <2>2. CASE state[p] = "pending"
      <3>1. /\ pc' = [pc EXCEPT ![a] = "announce"]
            /\ state' = [state EXCEPT ![p] = "settled"]
            /\ claim' = [claim EXCEPT ![a].receive = NoReceive]
            /\ wakeup' = wakeup
        BY <1>2, <1>5, <2>2 DEF Settle, mark_settled
      <3>2. /\ \A b \in Claimers : pc'[b] = IF b = a THEN "announce" ELSE pc[b]
            /\ \A b \in Claimers : claim'[b].target = claim[b].target
            /\ pc[a] # "announce"
        BY <1>5, <3>1 DEF Settle, IInv, TypeOK, Claims
      <3>3. Announcing' = Announcing \cup {p}
        BY <1>2, <3>2 DEF Announcing
      <3>4. Ledger!Settle(p)
        BY <1>3, <2>1, <2>2, <3>1, <3>3 DEF Ledger!Settle, Announcing, Paid
      <3>. QED
        BY <3>4 DEF Ledger!Next
    <2>3. CASE state[p] # "pending"
      <3>1. Announcing' = Announcing
        BY <1>2, <1>5, <2>3, SameAnnounced DEF Settle, Return, IInv, TypeOK
      <3>2. state' = state /\ wakeup' = wakeup
        BY <1>2, <1>5, <2>3 DEF Settle, mark_settled, IInv, TypeOK
      <3>. QED
        BY <1>3, <3>1, <3>2 DEF Ledger!vars, Announcing, Paid
    <2>. QED
      BY <2>2, <2>3
  <1>6. CASE Announce(a)
    <2>1. p \in Announcing
      BY <1>2, <1>6 DEF Announce, Announcing
    <2>2. Announcing' = Announcing \ {p}
      <3>1. \A b \in Claimers : pc[b] = "announce" /\ claim[b].target = p => b = a
        BY <1>2, <1>6 DEF Announce, IInv, AnnouncesSettled
      <3>2. /\ \A b \in Claimers : b # a => pc'[b] = pc[b] /\ claim'[b] = claim[b]
            /\ pc'[a] = "idle"
        BY <1>6 DEF Announce, Return, IInv, TypeOK
      <3>. QED
        BY <1>2, <1>6, <3>1, <3>2 DEF Announce, Announcing
    <2>3. Ledger!Announce(p)
      BY <1>3, <1>6, <2>1, <2>2 DEF Announce, Ledger!Announce, Announcing, Paid
    <2>. QED
      BY <2>3 DEF Ledger!Next
  <1>7. CASE Expire(a)
    <2>1. Announcing' = Announcing
      BY <1>7, SameAnnounced DEF Expire, Return, IInv, TypeOK
    <2>2. CASE state[p] = "pending"
      <3>1. Ledger!Cancel(p)
        BY <1>2, <1>3, <1>7, <2>1, <2>2
        DEF Expire, mark_cancelled, Ledger!Cancel, Announcing, Paid
      <3>. QED
        BY <3>1 DEF Ledger!Next
    <2>3. CASE state[p] # "pending"
      <3>1. state' = state /\ wakeup' = wakeup
        BY <1>2, <1>7, <2>3 DEF Expire, mark_cancelled, IInv, TypeOK
      <3>. QED
        BY <1>3, <2>1, <3>1 DEF Ledger!vars, Announcing, Paid
    <2>. QED
      BY <2>2, <2>3
  <1>8. CASE Keep(a) \/ ClaimFails(a)
    <2>1. Announcing' = Announcing
      BY <1>8, SameAnnounced DEF Keep, ClaimFails, Return, IInv, TypeOK
    <2>. QED
      BY <1>3, <1>8, <2>1 DEF Keep, ClaimFails, Ledger!vars, Announcing, Paid
  <1>. QED
    BY <1>4, <1>5, <1>6, <1>7, <1>8 DEF Claim, ClaimWorks

\* A request opens its invoice.
LEMMA CreateRefines ==
  ASSUME IInv, FreshReceives, NEW r \in Requests, Create(r)
  PROVE  [Ledger!Next]_(Ledger!vars)
  <1>. USE Distinct DEF Goto, world, rows
  <1>1. Announcing' = Announcing /\ wakeup' = wakeup
    BY SameAnnounced DEF Create, MakeInvoice, Insert, RequestFails, IInv, TypeOK
  <1>2. Paid' = Paid
    BY DEF Create, MakeInvoice, Insert, RequestFails, FreshReceives, Paid, Revealed,
           IInv, TypeOK
  <1>3. CASE Insert(r)
    <2>1. state[r] = "absent" /\ state' = [state EXCEPT ![r] = "pending"]
      BY <1>3 DEF Insert, IInv, ActorsCoherent, TypeOK
    <2>2. Ledger!Open(r)
      BY <1>1, <1>2, <2>1 DEF Ledger!Open, Announcing, Paid
    <2>. QED
      BY <2>2 DEF Ledger!Next
  <1>4. CASE MakeInvoice(r) \/ RequestFails(r)
    BY <1>1, <1>2, <1>4 DEF MakeInvoice, RequestFails, Ledger!vars, Announcing, Paid
  <1>. QED
    BY <1>3, <1>4 DEF Create

\* The other steps: a restart, a wakeup taken, a preimage that comes out, and
\* what the ledger does not see.
LEMMA OtherRefines ==
  ASSUME IInv,
         \/ \E v \in Verifiers, p \in Requests : Verify(v, p)
         \/ Poll
         \/ Crash
         \/ World
         \/ UNCHANGED vars
  PROVE  [Ledger!Next]_(Ledger!vars)
  <1>. USE Distinct DEF Goto, world, rows
  <1>1. ASSUME NEW v \in Verifiers, NEW p \in Requests, Verify(v, p)
        PROVE  UNCHANGED Ledger!vars
    <2>1. Announcing' = Announcing
      BY <1>1, SameAnnounced DEF Verify, StartClaim, IInv, TypeOK
    <2>. QED
      BY <1>1, <2>1 DEF Verify, Ledger!vars, Announcing
  <1>2. CASE Poll
    <2>1. Announcing' = Announcing
      BY <1>2, SameAnnounced
      DEF Poll, PollPending, PollReceives, PollListed, PollUnlisted, StartClaim, IInv,
          TypeOK
    <2>2. UNCHANGED <<state, receive, wakeup>>
      BY <1>2 DEF Poll, PollPending, PollReceives, PollListed, PollUnlisted
    <2>. QED
      BY <2>1, <2>2 DEF Ledger!vars, Announcing
  <1>3. CASE Tick \/ UNCHANGED vars
    BY <1>3 DEF Tick, vars, Ledger!vars
  <1>4. CASE Crash
    <2>1. \A a \in Claimers : pc'[a] # "announce"
      BY <1>4 DEF Crash
    <2>2. Announcing' = {}
      BY <2>1 DEF Announcing
    <2>3. Ledger!Restart
      BY <1>4, <2>2 DEF Crash, Ledger!Restart, Announcing
    <2>. QED
      BY <2>3 DEF Ledger!Next
  <1>5. ASSUME NEW p \in Requests, BarkdMoves(p)
        PROVE  Ledger!Reveal(p) \/ UNCHANGED Ledger!vars
    <2>1. /\ \A q \in Requests : q # p => receive'[q] = receive[q]
          /\ receive[p] \in Revealed => receive'[p] \in Revealed
      BY <1>5, PhasesMove DEF BarkdMoves, IInv, TypeOK
    <2>2. Paid' = Paid \/ Paid' = Paid \cup {p}
      BY <2>1 DEF Paid
    <2>3. Announcing' = Announcing /\ UNCHANGED <<state, wakeup>>
      BY <1>5 DEF BarkdMoves, Announcing
    <2>. QED
      BY <2>2, <2>3 DEF Ledger!Reveal, Ledger!vars, Announcing, Paid
  <1>6. CASE PublisherWakes
    <2>1. Ledger!Wake
      BY <1>6 DEF PublisherWakes, Ledger!Wake
    <2>. QED
      BY <2>1 DEF Ledger!Next
  <1>7. CASE \E p \in Requests : BarkdMoves(p)
    BY <1>5, <1>7 DEF Ledger!Next
  <1>. QED
    BY <1>1, <1>2, <1>3, <1>4, <1>6, <1>7 DEF World

\* Every step is one of the ledger, or nothing to it.
LEMMA StepRefines == IInv /\ FreshReceives /\ [Next]_vars => [Ledger!Next]_(Ledger!vars)
  BY CreateRefines, ClaimRefines, OtherRefines DEF Next

\* Whatever poller, verify handlers and requests do, the ledger of invoices
\* sees one settlement or cancellation, a preimage before it, and a wakeup
\* after it.
THEOREM RefinesInvoiceLedger == Spec => ImplementsInvoiceLedger
  <1>1. Init => Ledger!Init
    <2>1. Init => Paid = {} /\ Announcing = {}
      BY Distinct DEF Init, Paid, Announcing, Revealed
    <2>. QED
      BY <2>1 DEF Init, Ledger!Init, Paid, Announcing
  <1>. QED
    BY <1>1, StepRefines, BothInvariants, PTL
    DEF Spec, ImplementsInvoiceLedger, Ledger!Spec

\* A settled invoice is never cancelled and a cancelled one never settled,
\* whatever batches, verify handlers and restarts do (mark_settled and
\* mark_cancelled act on pending rows only).
THEOREM InvoicesEndOnce == Spec => Ledger!EndsOnce
  <1>1. IInv /\ [Ledger!Next]_(Ledger!vars) => [Ledger!KeepsEnds]_(Ledger!vars)
    BY DEF IInv, TypeOK, Ledger!Next, Ledger!vars, Ledger!Open, Ledger!Reveal, Ledger!Settle,
      Ledger!Cancel, Ledger!Announce, Ledger!Wake, Ledger!Restart, Ledger!KeepsEnds
  <1>. QED
    BY <1>1, StepRefines, BothInvariants, PTL DEF Spec, Ledger!EndsOnce

\* Whoever settles an invoice wakes the publisher afterwards, unless the service
\* stops in between, which no other announcement survives.
THEOREM SettlementsAreAnnounced == Spec => Ledger!SettlementsWake
  <1>1. IInv /\ [Ledger!Next]_(Ledger!vars) => [Ledger!KeepsAnnouncing]_(Ledger!vars)
    BY DEF IInv, TypeOK, Ledger!Next, Ledger!vars, Ledger!Open, Ledger!Reveal, Ledger!Settle,
      Ledger!Cancel, Ledger!Announce, Ledger!Wake, Ledger!Restart, Ledger!KeepsAnnouncing
  <1>. QED
    BY <1>1, StepRefines, BothInvariants, PTL DEF Spec, Ledger!SettlementsWake

\* Nobody announces a settlement that is not in the table, or settles an invoice
\* whose preimage is not out: what the publisher sends receipts of is paid.
THEOREM AnnouncementsAreTrue == Spec => []Ledger!SettledRevealed
  <1>1. IInv /\ Ledger!Init => Ledger!SettledRevealed
    BY DEF IInv, TypeOK, Ledger!Init, Ledger!SettledRevealed
  <1>2. IInv /\ Ledger!SettledRevealed /\ [Ledger!Next]_(Ledger!vars)
          => Ledger!SettledRevealed'
    BY DEF IInv, TypeOK, Ledger!SettledRevealed, Ledger!Next, Ledger!vars, Ledger!Open,
      Ledger!Reveal, Ledger!Settle, Ledger!Cancel, Ledger!Announce, Ledger!Wake, Ledger!Restart
  <1>. QED
    BY <1>1, <1>2, RefinesInvoiceLedger, Inductive, PTL
    DEF ImplementsInvoiceLedger, Ledger!Spec
==============================================================================
