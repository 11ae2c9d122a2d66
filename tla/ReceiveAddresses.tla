-------------------------- MODULE ReceiveAddresses --------------------------
(***************************************************************************)
(* What the service reads in a text it is given for an address: an Ark     *)
(* address of one of the two servers, or a custom name; and what it lets   *)
(* through for an address: the network and the amounts.  Pure functions of *)
(* routes.rs, without the table of names, which their users bring.         *)
(*                                                                         *)
(* A text is a sequence of characters.  The characters stand for the       *)
(* classes the code tells apart: lower-case letters and digits, upper-case *)
(* letters, the two marks a name may contain, and the blank, which is      *)
(* trimmed at the ends and not allowed inside, as any other character.     *)
(***************************************************************************)
EXTENDS Naturals, Sequences, SequencesExt, FiniteSetsExt

CONSTANTS
  ReceiveAddress,  \* the valid addresses: [kind, text, testnet]
  MinName,         \* 3
  MaxName,         \* 32
  Sat,             \* the msats of a sat, 1_000
  ARKADE_MIN_SENDABLE_MSATS

LowerOf == [A |-> "a", B |-> "b"]

Upper == DOMAIN LowerOf
Alphanumeric == {"a", "b"}
Mark == "-"
Blank == " "
Characters == Upper \cup Alphanumeric \cup {Mark, Blank}

\* The addresses are written in their canonical, lower-case form.
ASSUME AddressAssumption ==
  /\ ReceiveAddress \subseteq [kind : {"bark", "arkade"},
                               text : Seq(Alphanumeric) \ {<<>>},
                               testnet : BOOLEAN]
  /\ \A x, y \in ReceiveAddress : x.text = y.text => x = y
  /\ MinName \in Nat \ {0}
  /\ MaxName \in Nat
  /\ Sat \in Nat \ {0}
  /\ ARKADE_MIN_SENDABLE_MSATS \in Nat

------------------------------------------------------------------------------
(* Characters.                                                              *)

\* to_ascii_lowercase
lowercase(text) ==
  [i \in DOMAIN text |-> IF text[i] \in Upper THEN LowerOf[text[i]] ELSE text[i]]

\* str::trim
trim(text) ==
  LET solid == {i \in DOMAIN text : text[i] # Blank}
  IN  IF solid = {} THEN <<>> ELSE SubSeq(text, Min(solid), Max(solid))

------------------------------------------------------------------------------
(* Addresses.  A text parses as at most one address; no address is a failed *)
(* parse or lookup, as is no name, so each of them is a set of at most one. *)

\* The parsers read Bech32m: the canonical text of an address, or the same in
\* capitals, never a mixture.
Spells(text, address) ==
  /\ lowercase(text) = address.text
  /\ \/ text = address.text
     \/ \A i \in DOMAIN text : text[i] \in Upper

\* Bark first, then Arkade; nothing parses as both.
parse_receive_address(text) == {x \in ReceiveAddress : Spells(text, x)}

validate_network(address, config) == address.testnet = config.testnet

validate_enabled(address, config) == address.kind = "arkade" => config.arkade

min_sendable_msats(address, config) ==
  IF address.kind = "arkade"
    THEN Max({config.min_sendable, ARKADE_MIN_SENDABLE_MSATS})
    ELSE config.min_sendable

\* Arkade needs whole sats for the amount of its swap as Bark does.
validate_amount_msats(amount, min_sendable, max_sendable) ==
  /\ amount \in min_sendable..max_sendable
  /\ amount % Sat = 0

------------------------------------------------------------------------------
(* Custom names.                                                            *)

\* A name is not checked against the addresses.
Mutant_NameMayBeAddress(text) ==
  LET name == lowercase(trim(text))
  IN  {x \in {name} :
         /\ Len(x) \in MinName..MaxName
         /\ Range(x) \subseteq Alphanumeric \cup {Mark}
         /\ {Head(x), Last(x)} \subseteq Alphanumeric}

\* The name a text stands for, if it is one.
normalize_custom_address_name(text) ==
  LET name == lowercase(trim(text))
  IN  {x \in {name} :
         /\ Len(x) \in MinName..MaxName
         /\ Range(x) \subseteq Alphanumeric \cup {Mark}
         /\ {Head(x), Last(x)} \subseteq Alphanumeric
         /\ parse_receive_address(x) = {}}

\* Any address will do.
Mutant_AnyKind(text, config) ==
  {x \in parse_receive_address(text) : validate_network(x, config)}

\* A custom name has a Bark address of the service's network for its target.
validate_custom_target_address(text, config) ==
  {x \in parse_receive_address(text) :
     x.kind = "bark" /\ validate_network(x, config)}

\* What the owner of the target signs; the service's own name and the layout
\* are the same in every message.
custom_address_signature_message(domain, name, address) ==
  [domain |-> domain, name |-> name, address |-> address.text]

------------------------------------------------------------------------------
(* The table of names maps each active name to its target.                   *)

\* The target of a name is taken as it is.
Mutant_NameAnyNetwork(text, config, names) ==
  IF parse_receive_address(text) # {}
    THEN {[address |-> x, identifier |-> x.text] :
            x \in {y \in parse_receive_address(text) :
                     validate_network(y, config) /\ validate_enabled(y, config)}}
    ELSE {[address |-> names[n], identifier |-> n] :
            n \in normalize_custom_address_name(text) \cap DOMAIN names}

\* An address is itself, whether or not it may be used here; only a text that
\* is none is looked up.
resolve_receive_address(text, config, names) ==
  IF parse_receive_address(text) # {}
    THEN {[address |-> x, identifier |-> x.text] :
            x \in {y \in parse_receive_address(text) :
                     validate_network(y, config) /\ validate_enabled(y, config)}}
    ELSE {[address |-> names[n], identifier |-> n] :
            n \in {m \in normalize_custom_address_name(text) \cap DOMAIN names :
                     validate_network(names[m], config)}}
==============================================================================
