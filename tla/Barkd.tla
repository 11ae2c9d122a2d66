-------------------------------- MODULE Barkd --------------------------------
(***************************************************************************)
(* What the service sees of barkd, the external Bark wallet daemon that    *)
(* issues Lightning invoices and reports their receive status, and the     *)
(* two functions of src/barkd.rs that interpret such a report.             *)
(*                                                                         *)
(* A receive is reported by its state string (its phase) and, optionally,  *)
(* a preimage.  The phase "missing" stands for the 404 answer that         *)
(* BarkdClient::receive_status turns into None; "unknown-state" stands for *)
(* every state string the code has no case for.                            *)
(***************************************************************************)

CONSTANT Phases   \* the phases a model explores, a subset of AllPhases

Accepted == {"htlcs-ready", "unknown-state"}

Revealed == {"preimage-revealed", "delivering", "settled"}

InProgress == Accepted \cup Revealed

AllPhases == {"missing", "awaiting-payment"} \cup InProgress

ASSUME PhasesAssumption ==
  /\ Phases \subseteq AllPhases
  /\ {"missing", "awaiting-payment"} \subseteq Phases

Receive == [phase : Phases, preimage : BOOLEAN]

\* The None of receive_status.
NoReceive == [phase |-> "missing", preimage |-> FALSE]

\* The answers barkd may give about a receive in phase ph: any phase may or
\* may not carry a preimage, also one that is only awaiting its payment.
receive_status(ph) ==
  IF ph = "missing" THEN {NoReceive}
                    ELSE {[phase |-> ph, preimage |-> b] : b \in BOOLEAN}

\* Where a receive can be found at the next look.  An accepted payment either
\* fails, which leaves no record of it, or reveals its preimage; a revealed
\* preimage cannot be taken back.
NextPhases(ph) ==
  Phases \cap CASE ph = "missing"          -> {}
                [] ph = "awaiting-payment" -> InProgress \cup {"missing"}
                [] ph \in Accepted         -> InProgress \cup {"missing"}
                [] ph \in Revealed         -> Revealed

------------------------------------------------------------------------------
\* A preimage counts whatever the phase it is reported with.
Mutant_AnyPreimage(receive) == receive.preimage

\* One of the three revealed states has a case, the others are forgotten.
Mutant_OnePhase(receive) ==
  /\ receive.phase = "preimage-revealed"
  /\ receive.preimage

\* The preimage of a receive, if its phase says it has been revealed.
revealed_preimage(receive) ==
  /\ receive.phase \in Revealed
  /\ receive.preimage

\* Every receive whose preimage is not out may expire.
Mutant_UnknownExpires(receive) == receive.phase \notin Revealed

\* An awaiting receive may not expire either.
Mutant_NeverExpires(receive) == FALSE

receive_allows_expiry(receive) == receive.phase = "awaiting-payment"

\* Whether a claim that read this answer goes on to the expiry check: the None
\* branch of the claim functions, or a receive that allows expiry.
MayExpire(receive) ==
  \/ receive.phase = "missing"
  \/ receive_allows_expiry(receive)

==============================================================================
