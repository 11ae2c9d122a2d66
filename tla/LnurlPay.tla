------------------------------ MODULE LnurlPay -------------------------------
(***************************************************************************)
(* What a payer sees of the service: GET /.well-known/lnurlp offers an     *)
(* amount and a callback for an address, GET /get-invoice issues an        *)
(* invoice, GET /verify tells whether it is settled.  Each of the three    *)
(* reads the address anew, as a text, against the configuration of the     *)
(* running service and the table of names, both of which may have changed  *)
(* since: names are sold meanwhile, and the service is restarted with      *)
(* other limits, without Arkade, or for another network.                   *)
(*                                                                         *)
(* The sale of names is the abstract one of NameRegistry, which the        *)
(* handlers implement (module CustomAddresses), behind the validation of   *)
(* the request.  The settlement of the invoice is that of BarkInvoices and *)
(* ArkadeInvoices, as one step.                                            *)
(***************************************************************************)
EXTENDS ReceiveAddresses, ZapRequests

CONSTANTS
  Texts,       \* what is written for an address or a name
  Configs,     \* [arkade, testnet, min_sendable, max_sendable]
  Amounts,     \* msats
  Requests,    \* zap requests
  Domain,      \* of this service
  Domains,     \* of it and others that owners sign for
  Purchases,   \* of names
  MaxSigned,   \* bound on the messages signed
  None         \* no owner

ASSUME TextsAssumption == Texts \subseteq Seq(Characters)

ASSUME ConfigsAssumption ==
  Configs \subseteq [arkade : BOOLEAN, testnet : BOOLEAN,
                     min_sendable : Nat, max_sendable : Nat]

ASSUME RequestsAssumption ==
  \A request \in Requests : request.relays \in Seq(Seq(RelayTexts))

BarkAddresses == {x \in ReceiveAddress : x.kind = "bark"}

\* The name each text stands for, if any, and the names in normal form.
NameOf == [text \in Texts |-> normalize_custom_address_name(text)]

Names == UNION {NameOf[text] : text \in Texts}

VARIABLES
  config,     \* State's options: the configuration of the running service
  owned,      \* custom_addresses: [Names -> BarkAddresses \cup {None}]
  reserved,   \* the pending purchases, by name
  paid,       \* the purchases whose fee is paid
  signed,     \* the messages owners have signed: [signer, message]
  offer,      \* the PayResponse the payer has got, if any
  invoice,    \* the row of the payer's invoice, and the callback it came from
  verifying,  \* the verify handler's address while it refreshes, if it runs
  answer      \* what the payer was last told about his invoice, if anything

Registry == INSTANCE NameRegistry WITH Owners <- BarkAddresses

sale == <<owned, reserved, paid, signed>>
payer == <<offer, invoice, verifying, answer>>
vars == <<config, sale, payer>>

\* The table of active names.
Targets == [n \in {m \in Names : owned[m] # None} |-> owned[n]]

Resolve(text) == resolve_receive_address(text, config, Targets)

Init ==
  /\ config \in Configs
  /\ Registry!Init
  /\ signed = {}
  /\ offer = {}
  /\ invoice = {}
  /\ verifying = {}
  /\ answer = {}

------------------------------------------------------------------------------
(* Names.                                                                   *)

\* The owner of an address signs what GET /custom-address/auth-message returns,
\* or the message of another such service.
Sign(name_text, address_text) ==
  /\ Cardinality(signed) < MaxSigned
  /\ \E n \in NameOf[name_text],
        x \in validate_custom_target_address(address_text, config),
        d \in Domains :
       signed' = signed \cup
         {[signer |-> x, message |-> custom_address_signature_message(d, n, x)]}
  /\ UNCHANGED <<config, owned, reserved, paid, payer>>

\* For any name of the domain.
Mutant_VerifyDomain(address, message) ==
  \E s \in signed : s.signer = address /\ s.message.domain = message.domain

\* Somebody presents a signature of the address's owner.
verify_address_message(address, message) ==
  [signer |-> address, message |-> message] \in signed

\* POST /custom-address: the request is valid and the name is free.
Reserve(name_text, address_text) ==
  /\ \E n \in NameOf[name_text],
        x \in validate_custom_target_address(address_text, config),
        p \in Purchases :
       /\ verify_address_message(x, custom_address_signature_message(Domain, n, x))
       /\ Registry!Reserve(n, [purchase |-> p, owner |-> x])
  /\ UNCHANGED <<config, signed, payer>>

\* The rest of the sale.
Sell ==
  /\ \/ \E p \in Purchases : p \notin paid /\ Registry!Pay(p)
     \/ \E n \in Names : \/ reserved[n] # {} /\ Registry!Release(n)
                         \/ \E h \in reserved[n] : Registry!Activate(n, h)
  /\ UNCHANGED <<config, signed, payer>>

------------------------------------------------------------------------------
(* The payer, who asks for offers and takes one invoice.                    *)

\* The minimum of the configuration, whatever the address.
Mutant_OfferPlainMinimum(text) ==
  /\ invoice = {}
  /\ \E r \in Resolve(text) :
       offer' = {[callback |-> r.identifier,
                  metadata |-> r.identifier,
                  address |-> r.address,
                  min_sendable |-> config.min_sendable,
                  max_sendable |-> config.max_sendable]}
  /\ UNCHANGED <<config, sale, invoice, verifying, answer>>

\* The metadata is made of the identifier, which is also the path of the
\* callback.  The address it stands for is not sent.
get_lnurl_pay(text) ==
  /\ invoice = {}
  /\ \E r \in Resolve(text) :
       offer' = {[callback |-> r.identifier,
                  metadata |-> r.identifier,
                  address |-> r.address,
                  min_sendable |-> min_sendable_msats(r.address, config),
                  max_sendable |-> config.max_sendable]}
  /\ UNCHANGED <<config, sale, invoice, verifying, answer>>

\* The msats of the invoice a server issues when asked for that many sats.
invoice_for_address(sats) == {sats * Sat, sats * Sat + 1}

\* An accepted callback for an address, with zap requests of at most one.
Accepts(r, amount, zap) ==
  /\ validate_amount_msats(amount, min_sendable_msats(r.address, config),
                           config.max_sendable)
  /\ \A request \in zap : validate_zap_request(request, amount)

\* The row of the invoice and of its zap are inserted together; the answer
\* holds the verify URL, with the address as the callback wrote it.
get_invoice(text, amount, zap) ==
  /\ invoice = {}
  /\ \E r \in Resolve(text) :
       /\ Accepts(r, amount, zap)
       /\ amount \in invoice_for_address(amount \div Sat)
       /\ invoice' = {[verify |-> text,
                       address |-> r.address,
                       amount_msats |-> amount,
                       zap |-> zap,
                       state |-> "pending"]}
  /\ offer' = {}
  /\ UNCHANGED <<config, sale, verifying, answer>>

\* Without the payer's doing: a settlement or the expiry.
Resolves(state) ==
  /\ \E i \in invoice :
       /\ i.state = "pending"
       /\ invoice' = {[i EXCEPT !.state = state]}
  /\ UNCHANGED <<config, sale, offer, verifying, answer>>

------------------------------------------------------------------------------
(* GET /verify/:address/:payment_hash, with the hash of the payer's invoice. *)

\* The comparison of the addresses is left out.
Mutant_AnswerAnybody(i, address) ==
  answer' = {[asked |-> address, found |-> TRUE, settled |-> i.state = "settled"]}

\* What the row says, if it is the row of an invoice for that address.
Answer(i, address) ==
  LET found == i.address = address
  IN  answer' = {[asked |-> address,
                  found |-> found,
                  settled |-> found /\ i.state = "settled"]}

\* A pending invoice is refreshed first, which awaits the server of its kind.
Verify(text) ==
  /\ verifying = {}
  /\ \E r \in Resolve(text), i \in invoice :
       \/ /\ i.state = "pending"
          /\ verifying' = {r.address}
          /\ UNCHANGED answer
       \/ /\ i.state # "pending"
          /\ Answer(i, r.address)
          /\ UNCHANGED verifying
  /\ UNCHANGED <<config, sale, offer, invoice>>

\* The row read before the refresh is answered.
Mutant_AnswerStale ==
  /\ \E address \in verifying, i \in invoice :
       Answer([i EXCEPT !.state = "pending"], address)
  /\ verifying' = {}
  /\ UNCHANGED <<config, sale, offer, invoice>>

\* The refresh has come back, and the row is read again.
VerifyAnswers ==
  /\ \E address \in verifying, i \in invoice : Answer(i, address)
  /\ verifying' = {}
  /\ UNCHANGED <<config, sale, offer, invoice>>

\* The refresh fails, or the client went away.
VerifyFails ==
  /\ verifying # {}
  /\ verifying' = {}
  /\ UNCHANGED <<config, sale, offer, invoice, answer>>

------------------------------------------------------------------------------
\* The service is started again, maybe with another configuration, for which
\* offers of the old one do not hold.
Restart ==
  /\ config' \in Configs
  /\ offer' = IF config' = config THEN offer ELSE {}
  /\ verifying' = {}
  /\ UNCHANGED <<sale, invoice, answer>>

Next ==
  \/ \E n, x \in Texts : Sign(n, x) \/ Reserve(n, x)
  \/ Sell
  \/ \E text \in Texts :
       \/ get_lnurl_pay(text)
       \/ Verify(text)
       \/ \E amount \in Amounts :
            \/ get_invoice(text, amount, {})
            \/ \E request \in Requests : get_invoice(text, amount, {request})
  \/ \E state \in {"settled", "cancelled"} : Resolves(state)
  \/ VerifyAnswers
  \/ VerifyFails
  \/ Restart

Spec == Init /\ [][Next]_vars

------------------------------------------------------------------------------
(* Invariants.                                                              *)

Offers == [callback : Seq(Characters), metadata : Seq(Characters),
           address : ReceiveAddress, min_sendable : Nat, max_sendable : Nat]

Invoices == [verify : Texts, address : ReceiveAddress, amount_msats : Amounts,
             zap : SUBSET Requests, state : {"pending", "settled", "cancelled"}]

\* Every variable has its type, and names are sold for Bark addresses only.
TypeOK ==
  /\ config \in Configs
  /\ owned \in [Names -> BarkAddresses \cup {None}]
  /\ reserved \in [Names -> SUBSET Registry!Holders]
  /\ paid \subseteq Purchases
  /\ offer \subseteq Offers
  /\ invoice \subseteq Invoices
  /\ verifying \subseteq ReceiveAddress
  /\ answer \subseteq [asked : ReceiveAddress, found : BOOLEAN, settled : BOOLEAN]
  /\ \A s \in signed : s.signer \in BarkAddresses

\* An offer is kept: as long as the service runs as it does, its callback takes
\* exactly the whole-sat amounts of the offer, for the address the payer asked
\* for, and the invoice describes it as the offer did.
OfferHonoured ==
  \A o \in offer : \E r \in Resolve(o.callback) :
    /\ r.address = o.address
    /\ r.identifier = o.metadata
    /\ \A amount \in Amounts :
         Accepts(r, amount, {})
           <=> amount \in o.min_sendable..o.max_sendable /\ amount % Sat = 0

\* The verify URL of an invoice is about that invoice for ever: under every
\* configuration that serves its address at all, whatever names have been sold
\* since, it resolves to its address; under the others it is refused.
VerifyUrlStable ==
  \A i \in invoice : \A c \in Configs :
    {r.address : r \in resolve_receive_address(i.verify, c, Targets)} =
      IF validate_network(i.address, c) /\ validate_enabled(i.address, c)
        THEN {i.address} ELSE {}

\* Whoever bought a name gets what is paid to it, in every spelling of it: a
\* name is never taken for an address or for another name.
NamesReachTheirTargets ==
  \A n \in Names : owned[n] # None /\ validate_network(owned[n], config) =>
    \A text \in Texts : lowercase(trim(text)) = n =>
      {r.address : r \in Resolve(text)} = {owned[n]}

\* Nobody's address is sold under a name he did not ask this service for.
NamesAreSigned ==
  \A n \in Names : \A x \in {owned[n]} \cup {h.owner : h \in reserved[n]} :
    x # None =>
      [signer |-> x, message |-> [domain |-> Domain, name |-> n, address |-> x.text]]
        \in signed

\* A stored zap request can be published once its invoice is settled, to the
\* relays the request lists first, and its amount, if any, is the invoice's.
StoredZapsPublishable ==
  \A i \in invoice : \A request \in i.zap :
    LET relays == zap_request_relays(request)
    IN  /\ relays # <<>>
        /\ {<<k, relays[k]>> : k \in DOMAIN relays} = RelaysOf(relays_tag(request))
        /\ request.amount.tag # "none" => request.amount.value = i.amount_msats

\* The payer is told of a settlement only where there was one, and only if he
\* asked for the address of the invoice.
AnswersTrue ==
  \A told \in answer : \A i \in invoice :
    /\ told.found <=> told.asked = i.address
    /\ told.settled => told.found /\ i.state = "settled"

\* The payer has one invoice, and is told one thing of it only.
OneInvoice ==
  /\ \A i, j \in invoice : i = j
  /\ \A told, other \in answer : told = other
  /\ invoice = {} => answer = {}

\* What the text in a verify URL is: the address of the invoice, or a name that
\* has been sold for it.
UrlsKnown ==
  \A i \in invoice :
    \/ parse_receive_address(i.verify) = {i.address}
    \/ /\ parse_receive_address(i.verify) = {}
       /\ \E n \in NameOf[i.verify] : owned[n] # None /\ owned[n] = i.address

\* The zap of an invoice has been validated for the amount of the invoice.
ZapsValidated ==
  \A i \in invoice : \A request \in i.zap :
    validate_zap_request(request, i.amount_msats)

\* The inductive invariant.
IInv ==
  /\ TypeOK
  /\ NamesAreSigned
  /\ OfferHonoured
  /\ OneInvoice
  /\ ZapsValidated
  /\ UrlsKnown
  /\ AnswersTrue

\* An answer is not older than the refresh it waited for.
AnswersFresh ==
  [][\A told \in answer' : \A i \in invoice :
       answer' # answer /\ told.found
         => (told.settled <=> i.state = "settled")]_vars
==============================================================================
