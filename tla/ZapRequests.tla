----------------------------- MODULE ZapRequests -----------------------------
(***************************************************************************)
(* Zap requests (NIP-57): which the service accepts with an invoice, and   *)
(* to which relays it will send the receipt.  Pure functions of            *)
(* zap_receipts.rs.                                                        *)
(*                                                                         *)
(* A request is what the code reads of a Nostr event: its kind, whether    *)
(* its signature verifies, how many p, e, a and P tags it has, its relays  *)
(* tags as lists of texts, and the first amount tag.                       *)
(***************************************************************************)
EXTENDS Naturals, Sequences, SequencesExt, FiniteSets

CONSTANTS
  RelayTexts,     \* what a relays tag may list
  RelayUrls,      \* the URLs of relays
  RelayUrl,       \* [RelayTexts -> SUBSET RelayUrls]: parsing, {} if it fails
  Public,         \* the URLs that are neither local nor onion
  MAX_RELAYS      \* 10

ASSUME RelayAssumption ==
  /\ RelayUrl \in [RelayTexts -> SUBSET RelayUrls]
  /\ \A text \in RelayTexts : \A url, other \in RelayUrl[text] : url = other
  /\ Public \subseteq RelayUrls
  /\ MAX_RELAYS \in Nat \ {0}

\* The first relays tag counts; the texts after its name.
relays_tag(request) ==
  IF request.relays = <<>> THEN <<>> ELSE Head(request.relays)

\* The same relay may be listed in two spellings.
Mutant_TextsDiffer(relays, text) ==
  IF RelayUrl[text] \cap Public = {} \/ Len(relays) = MAX_RELAYS
    THEN relays
    ELSE Append(relays, CHOOSE url \in RelayUrl[text] : TRUE)

\* One turn of the loop: a public relay is added unless it is already there, or
\* the loop has stopped at the limit.
with_relay(relays, text) ==
  IF Len(relays) = MAX_RELAYS \/ RelayUrl[text] \cap Public \subseteq Range(relays)
    THEN relays
    ELSE Append(relays, CHOOSE url \in RelayUrl[text] : TRUE)

\* What the first texts of a list yield: the loop of zap_request_relays.
zap_request_relays(request) ==
  LET list == relays_tag(request)
      relays[n \in 0..Len(list)] ==
        IF n = 0 THEN <<>> ELSE with_relay(relays[n - 1], list[n])
  IN  relays[Len(list)]

\* An amount is [tag |-> "none" or "text" or "number", value |-> a number].
AmountFits(request, amount) ==
  \/ request.amount.tag = "none"
  \/ request.amount.tag = "number" /\ request.amount.value = amount

validate_zap_request(request, amount) ==
  /\ request.kind = "zap_request"
  /\ request.signed
  /\ request.p = 1 /\ request.e <= 1 /\ request.a <= 1 /\ request.P <= 1
  /\ zap_request_relays(request) # <<>>
  /\ AmountFits(request, amount)

------------------------------------------------------------------------------
\* The positions of a relays tag at which a public relay is listed for the
\* first time.
FirstListed(list) ==
  {i \in DOMAIN list :
     /\ RelayUrl[list[i]] \cap Public # {}
     /\ \A j \in 1..(i - 1) : RelayUrl[list[j]] # RelayUrl[list[i]]}

\* Without a loop: the k-th relay is the one of the k-th such position.
RelaysOf(list) ==
  LET first == FirstListed(list)
      rank(i) == Cardinality({j \in first : j <= i})
  IN  {<<rank(i), CHOOSE url \in RelayUrl[list[i]] : TRUE>> :
         i \in {j \in first : rank(j) <= MAX_RELAYS}}
==============================================================================
