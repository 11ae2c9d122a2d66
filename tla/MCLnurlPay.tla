----------------------------- MODULE MCLnurlPay ------------------------------
(* LnurlPay for TLC.                                                        *)
EXTENDS LnurlPay

address(kind, text, testnet) == [kind |-> kind, text |-> text, testnet |-> testnet]

\* Two Bark addresses and an Arkade address of one network, one of another.
MCAddresses ==
  {address("bark", <<"a", "b", "a">>, FALSE),
   address("bark", <<"b", "a">>, TRUE),
   address("arkade", <<"b", "b">>, FALSE)}

\* Addresses in canonical form, in capitals and mixed; names in several
\* spellings; texts that are neither.
MCTexts ==
  {<<"a", "b", "a">>, <<"A", "B", "A">>, <<"A", "b", "a">>, <<" ", "a", "b", "a">>,
   <<"b", "a">>, <<"b", "b">>, <<"B", "b">>,
   <<"a", "b">>, <<"A", "b">>, <<" ", "a", "B">>,
   <<"a", "-", "b">>, <<"-", "a", "b">>, <<"a", " ", "b">>, <<"a">>, <<>>,
   <<"a", "a", "b", "b">>}

configuration(arkade, testnet, min, max) ==
  [arkade |-> arkade, testnet |-> testnet, min_sendable |-> min, max_sendable |-> max]

MCConfigs ==
  {configuration(TRUE, FALSE, 2, 5),
   configuration(FALSE, FALSE, 3, 5),
   configuration(TRUE, TRUE, 2, 5)}

MCRelayUrl ==
  [one |-> {"one"}, slash |-> {"one"}, two |-> {"two"}, three |-> {"three"},
   local |-> {"local"}, broken |-> {}]

Good == [kind |-> "zap_request", signed |-> TRUE, p |-> 1, e |-> 0, a |-> 1, P |-> 1,
         relays |-> <<<<"one">>>>, amount |-> [tag |-> "none", value |-> 0]]

\* A good request, and requests that differ from it in one respect.
MCRequests ==
  {[Good EXCEPT !.relays = tags] :
     tags \in {<<>>, <<<<>>>>, <<<<"local", "broken">>>>, <<<<"local">>, <<"one">>>>,
               <<<<"one", "slash", "two">>, <<"three">>>>,
               <<<<"broken", "two", "local", "one", "three">>>>}}
  \cup {[Good EXCEPT !.amount = [tag |-> "number", value |-> v]] : v \in {2, 4}}
  \cup {[Good EXCEPT !.amount.tag = "text"],
        [Good EXCEPT !.kind = "other"], [Good EXCEPT !.signed = FALSE],
        [Good EXCEPT !.p = 0], [Good EXCEPT !.p = 2], [Good EXCEPT !.e = 2],
        [Good EXCEPT !.a = 2], [Good EXCEPT !.P = 2]}
==============================================================================
